----------------------------- MODULE FlowProofs -----------------------------
(***************************************************************************)
(* Theorems about the media flows.                                         *)
(*                                                                         *)
(* FlowInput, for any number of upstream flows and slots and any cache     *)
(* size: the assertion in ASyncFetchInputCommon holds, and the input       *)
(* implements FlowQueue.                                                   *)
(*                                                                         *)
(* FlowGraph, for any number of starts, frames and buffers: no flow is     *)
(* sent to once its destructor has begun, deinit_rtsp leaves no flow but   *)
(* the dump flow behind, and only that one can keep the camera busy.       *)
(***************************************************************************)
EXTENDS FlowInput, FlowGraph, FiniteSetTheorems, SequenceTheorems, TLAPS

(***************************************************************************)
(* FlowInput: the invariant.                                               *)
(***************************************************************************)
Feeders(s) == {p \in Producers : Target[p] = s}

\* Producers that will push without another look at the size.
Pending(s) == {p \in Feeders(s) : ppc[p] \in {"room", "push"}}

\* A producer that touches a slot has its mutex.
MutexInv ==
  \A p \in Producers : ppc[p] \in {"drop", "push"} => mtx[Target[p]] = p

\* The dropping modes keep the bound, and what a producer found out about the
\* size still holds when it acts on it.
SizeInv ==
  /\ mode # "BLOCKING" /\ MaxCache > 0 =>
       \A s \in Slots : Len(queue[s]) <= MaxCache
  /\ \A p \in Producers :
       /\ ppc[p] = "drop" => mode = "DROPFRONT" /\ Full(Target[p])
       /\ ppc[p] = "push" /\ mode # "BLOCKING" => ~ Full(Target[p])
       /\ ppc[p] \in {"sleep", "room", "again"} =>
            mode = "BLOCKING" /\ MaxCache > 0

BlockingInv ==
  mode = "BLOCKING" /\ MaxCache > 0 =>
    \A s \in Slots :
      Len(queue[s]) + Cardinality(Pending(s)) < MaxCache + Cardinality(Feeders(s))

\* The coroutine on its way through the slots: what it has in hand, and that
\* DROPFRONT puts a buffer back for the one it takes from under its feet.
CoroutineInv ==
  /\ cpc = "check" => ci \in Slots
  /\ cpc \in {"test", "lock", "check", "waiting", "woken"} =>
       \A s \in Slots : in_vector[s] = NoBuffer
  /\ cpc \in {"fetch", "pop"} => \A s \in Slots : ci <= s => in_vector[s] = NoBuffer
  /\ cpc = "pop" =>
       /\ ci \in Slots
       /\ \/ queue[ci] # <<>>
          \/ \E p \in Producers : Target[p] = ci /\ ppc[p] = "push"

Inv == TypeOK /\ MutexInv /\ SizeInv /\ BlockingInv /\ CoroutineInv
-----------------------------------------------------------------------------
\* Counting producers of a slot.
LEMMA Counting ==
  ASSUME NEW s, NEW P \in SUBSET Feeders(s)
  PROVE  /\ IsFiniteSet(P) /\ Cardinality(P) \in Nat
         /\ Cardinality(Feeders(s)) \in Nat
         /\ Cardinality(P) <= Cardinality(Feeders(s))
<1>1. IsFiniteSet(Feeders(s))
  BY ProducersAssumption, FS_Subset DEF Feeders
<1> QED
  BY <1>1, FS_Subset, FS_CardinalityType

\* The initial state: nothing queued, nobody anywhere.
LEMMA InitInv == Init => Inv
<1> SUFFICES ASSUME Init PROVE Inv
  OBVIOUS
<1> USE SlotsAssumption, CacheAssumption DEF Init, Slots
<1>1. TypeOK
  <2>1. InputTypeOK
    <3>1. <<>> \in Seq(Buffers)
      OBVIOUS
    <3>2. queue \in [Slots -> Seq(Buffers)] /\ got \in [Slots -> Seq(Buffers)]
      BY <3>1
    <3> QED
      BY <3>2 DEF InputTypeOK, Free, Coroutine
  <2>2. ThreadTypeOK
    BY DEF ThreadTypeOK
  <2> QED
    BY <2>1, <2>2 DEF TypeOK
<1>2. MutexInv /\ SizeInv
  BY DEF MutexInv, SizeInv
<1>3. BlockingInv
  <2> SUFFICES ASSUME MaxCache > 0, NEW s \in Slots
               PROVE  Len(queue[s]) + Cardinality(Pending(s)) < MaxCache + Cardinality(Feeders(s))
    BY DEF BlockingInv
  <2>1. Pending(s) = {} /\ Cardinality(Pending(s)) = 0
    BY FS_EmptySet DEF Pending, Feeders
  <2>2. Len(queue[s]) = 0
    OBVIOUS
  <2>3. Cardinality(Feeders(s)) \in Nat
    BY Counting
  <2> QED
    BY <2>1, <2>2, <2>3
<1>4. CoroutineInv
  BY DEF CoroutineInv
<1> QED
  BY <1>1, <1>2, <1>3, <1>4 DEF Inv

\* When the mutex is free, nobody is between taking a buffer out and putting
\* one in, and the buffer the coroutine saw is there.
LEMMA PopInv == Inv => PopFindsBuffer
BY SlotsAssumption, FreeAssumption
   DEF Inv, CoroutineInv, MutexInv, PopFindsBuffer, Free

\* The mode of a slot never changes.
LEMMA ModeStep == [Next]_vars => mode' = mode
BY DEF Next, SendInput, Producer, LockInput, DropFront, PollSize, EndBlocking,
   KeepBlocking, Push, Notify, RunCoroutine, TestQuit, LockCond, CheckSlot,
   EndWait, FetchSlot, EndFetch, Pop, Process, SpuriousWakeup, SetDisable,
   StopDisable, Stopper, StopQuit, StopNotify, StopJoin, vars

\* Every step keeps the types.
LEMMA TypeStep == Inv /\ [Next]_vars => TypeOK'
<1> SUFFICES ASSUME Inv, [Next]_vars PROVE TypeOK'
  OBVIOUS
<1> USE SlotsAssumption, CacheAssumption
    DEF Inv, TypeOK, Slots, prod, cor, GoProducer
<1>1. ASSUME NEW p \in Producers, SendInput(p) PROVE TypeOK'
  <2>1. InputTypeOK'
    BY <1>1 DEF SendInput, InputTypeOK
  <2>2. ThreadTypeOK'
    BY <1>1 DEF SendInput, ThreadTypeOK
  <2> QED
    BY <2>1, <2>2
<1>2. ASSUME NEW p \in Producers, Producer(p) PROVE TypeOK'
  <2>1. CASE LockInput(p)
    <3>1. InputTypeOK'
      <4>1. /\ UNCHANGED <<mode, enable, quit, queue, cond, in_vector, got>>
            /\ mtx' = mtx \/ mtx' = [mtx EXCEPT ![Target[p]] = p]
        BY <2>1 DEF LockInput
      <4> QED
        BY <1>2, <4>1 DEF InputTypeOK
    <3>2. ThreadTypeOK'
      BY <2>1 DEF LockInput, ThreadTypeOK
    <3> QED
      BY <3>1, <3>2
  <2>2. CASE DropFront(p)
    <3>1. InputTypeOK'
      <4>1. Full(Target[p])
        BY <2>2 DEF DropFront, SizeInv
      <4>2. queue[Target[p]] \in Seq(Buffers)
        BY DEF InputTypeOK
      <4>3. queue[Target[p]] \in Seq(Buffers) /\ Len(queue[Target[p]]) > 0
        BY <4>1, <4>2 DEF Full
      <4>4. Tail(queue[Target[p]]) \in Seq(Buffers)
        BY <4>3
      <4> QED
        BY <2>2, <4>4 DEF DropFront, InputTypeOK
    <3>2. ThreadTypeOK'
      BY <2>2 DEF DropFront, ThreadTypeOK
    <3> QED
      BY <3>1, <3>2
  <2>3. CASE PollSize(p)
    <3>1. InputTypeOK'
      BY <2>3 DEF PollSize, InputTypeOK
    <3>2. ThreadTypeOK'
      BY <2>3 DEF PollSize, ThreadTypeOK
    <3> QED
      BY <3>1, <3>2
  <2>4. CASE EndBlocking(p)
    <3>1. InputTypeOK'
      <4>1. /\ UNCHANGED <<mode, enable, quit, queue, cond, in_vector, got>>
            /\ mtx' = mtx \/ mtx' = [mtx EXCEPT ![Target[p]] = p]
        BY <2>4 DEF EndBlocking
      <4> QED
        BY <1>2, <4>1 DEF InputTypeOK
    <3>2. ThreadTypeOK'
      BY <2>4 DEF EndBlocking, ThreadTypeOK
    <3> QED
      BY <3>1, <3>2
  <2>5. CASE KeepBlocking(p)
    <3>1. InputTypeOK'
      BY <2>5 DEF KeepBlocking, InputTypeOK
    <3>2. ThreadTypeOK'
      BY <2>5 DEF KeepBlocking, ThreadTypeOK
    <3> QED
      BY <3>1, <3>2
  <2>6. CASE Push(p)
    <3>1. <<p, sent[p]>> \in Buffers
      BY DEF ThreadTypeOK, Buffers
    <3>2. InputTypeOK'
      BY <2>6, <3>1 DEF Push, InputTypeOK
    <3>3. ThreadTypeOK'
      BY <2>6 DEF Push, ThreadTypeOK
    <3> QED
      BY <3>2, <3>3
  <2>7. CASE Notify(p)
    <3>1. InputTypeOK'
      BY <2>7 DEF Notify, WakeCoroutine, InputTypeOK
    <3>2. ThreadTypeOK'
      BY <2>7 DEF Notify, WakeCoroutine, ThreadTypeOK
    <3> QED
      BY <3>1, <3>2
  <2> QED
    BY <1>2, <2>1, <2>2, <2>3, <2>4, <2>5, <2>6, <2>7 DEF Producer
<1>3. CASE RunCoroutine
  <2>1. CASE TestQuit
    <3>1. InputTypeOK'
      BY <2>1 DEF TestQuit, InputTypeOK
    <3>2. ThreadTypeOK'
      BY <2>1 DEF TestQuit, ThreadTypeOK
    <3> QED
      BY <3>1, <3>2
  <2>2. CASE LockCond
    <3>1. InputTypeOK'
      BY <2>2 DEF LockCond, InputTypeOK
    <3>2. ThreadTypeOK'
      BY <2>2 DEF LockCond, ThreadTypeOK
    <3> QED
      BY <3>1, <3>2
  <2>3. CASE CheckSlot
    <3>1. InputTypeOK'
      BY <2>3 DEF CheckSlot, InputTypeOK
    <3>2. ThreadTypeOK'
      BY <2>3 DEF CheckSlot, ThreadTypeOK
    <3> QED
      BY <3>1, <3>2
  <2>4. CASE EndWait
    <3>1. InputTypeOK'
      BY <2>4 DEF EndWait, InputTypeOK
    <3>2. ThreadTypeOK'
      BY <2>4 DEF EndWait, ThreadTypeOK
    <3> QED
      BY <3>1, <3>2
  <2>5. CASE FetchSlot
    <3>1. InputTypeOK'
      BY <2>5 DEF FetchSlot, InputTypeOK
    <3>2. ThreadTypeOK'
      BY <2>5 DEF FetchSlot, ThreadTypeOK
    <3> QED
      BY <3>1, <3>2
  <2>6. CASE EndFetch
    <3>1. InputTypeOK'
      BY <2>6 DEF EndFetch, InputTypeOK
    <3>2. ThreadTypeOK'
      BY <2>6 DEF EndFetch, ThreadTypeOK
    <3> QED
      BY <3>1, <3>2
  <2>7. CASE Pop
    <3>1. InputTypeOK'
      <4>1. queue[ci] \in Seq(Buffers) /\ queue[ci] # <<>> /\ ci \in Slots
        BY <2>7, PopInv DEF Pop, InputTypeOK, CoroutineInv, PopFindsBuffer
      <4>2. Tail(queue[ci]) \in Seq(Buffers) /\ Head(queue[ci]) \in Buffers
        BY <4>1
      <4> QED
        BY <2>7, <4>1, <4>2 DEF Pop, InputTypeOK
    <3>2. ThreadTypeOK'
      BY <2>7 DEF Pop, ThreadTypeOK, CoroutineInv
    <3> QED
      BY <3>1, <3>2
  <2>8. CASE Process
    <3>1. InputTypeOK'
      BY <2>8 DEF Process, InputTypeOK
    <3>2. ThreadTypeOK'
      BY <2>8 DEF Process, ThreadTypeOK
    <3> QED
      BY <3>1, <3>2
  <2> QED
    BY <1>3, <2>1, <2>2, <2>3, <2>4, <2>5, <2>6, <2>7, <2>8 DEF RunCoroutine
<1>4. CASE SpuriousWakeup \/ SetDisable \/ StopDisable \/ Stopper \/ UNCHANGED vars
  <2>1. /\ UNCHANGED <<mode, queue, mtx, cond, ppc, sent, ci, empty, in_vector,
                       got>>
        /\ enable' \in {enable, FALSE} /\ quit' \in {quit, TRUE}
        /\ cpc' \in {cpc, "woken"}
        /\ spc' \in {spc, "quit", "notify", "join", "stopped"}
    <3>1. CASE SpuriousWakeup \/ SetDisable \/ StopDisable \/ UNCHANGED vars
      BY <3>1 DEF SpuriousWakeup, SetDisable, StopDisable, vars
    <3>2. CASE Stopper
      BY <3>2 DEF Stopper, StopQuit, StopNotify, StopJoin, WakeCoroutine
    <3> QED
      BY <1>4, <3>1, <3>2
  <2>2. InputTypeOK'
    BY <2>1 DEF InputTypeOK
  <2>3. /\ cpc' \in {"test", "lock", "check", "waiting", "woken", "fetch", "pop",
                    "process", "done"}
        /\ spc' \in {"none", "quit", "notify", "join", "stopped"}
    BY <2>1 DEF ThreadTypeOK
  <2>4. ThreadTypeOK'
    BY <2>1, <2>3 DEF ThreadTypeOK
  <2> QED
    BY <2>2, <2>4
<1> QED
  BY <1>1, <1>2, <1>3, <1>4 DEF Next

\* Only the holder of a slot's mutex is on its way to drop or push there.
LEMMA MutexStep == Inv /\ [Next]_vars => MutexInv'
<1> SUFFICES ASSUME Inv, [Next]_vars PROVE MutexInv'
  OBVIOUS
<1> USE SlotsAssumption, FreeAssumption
    DEF Inv, TypeOK, InputTypeOK, ThreadTypeOK, MutexInv, prod, cor,
        GoProducer, Free
<1>1. ASSUME NEW p \in Producers, SendInput(p) PROVE MutexInv'
  BY <1>1 DEF SendInput
<1>2. ASSUME NEW p \in Producers, Producer(p) PROVE MutexInv'
  <2>1. CASE LockInput(p)
    BY <2>1 DEF LockInput
  <2>2. CASE EndBlocking(p)
    <3>1. mtx[Target[p]] = Free
      BY <2>2 DEF EndBlocking
    <3>2. \/ /\ mtx' = [mtx EXCEPT ![Target[p]] = p]
             /\ ppc' = [ppc EXCEPT ![p] = "push"]
          \/ mtx' = mtx /\ ppc' = [ppc EXCEPT ![p] = "idle"]
      BY <2>2 DEF EndBlocking
    <3>3. CASE mtx' = [mtx EXCEPT ![Target[p]] = p]
               /\ ppc' = [ppc EXCEPT ![p] = "push"]
      <4>1. \A r \in Producers : r # p => ppc'[r] = ppc[r]
        BY <3>3
      <4>2. \A r \in Producers :
              ppc[r] \in {"drop", "push"} => Target[r] # Target[p]
        BY <3>1
      <4>3. mtx'[Target[p]] = p
        BY <1>2, <3>3
      <4>4. \A r \in Producers : Target[r] # Target[p] =>
              mtx'[Target[r]] = mtx[Target[r]]
        BY <3>3
      <4> QED
        BY <4>1, <4>2, <4>3, <4>4
    <3>4. CASE mtx' = mtx /\ ppc' = [ppc EXCEPT ![p] = "idle"]
      BY <3>4
    <3> QED
      BY <3>2, <3>3, <3>4
  <2>3. CASE Push(p)
    BY <2>3 DEF Push
  <2>4. CASE DropFront(p) \/ PollSize(p) \/ KeepBlocking(p) \/ Notify(p)
    BY <2>4 DEF DropFront, PollSize, KeepBlocking, Notify
  <2> QED
    BY <1>2, <2>1, <2>2, <2>3, <2>4 DEF Producer
<1>3. CASE UNCHANGED <<ppc, mtx>>
  BY <1>3
<1> QED
  BY <1>1, <1>2, <1>3 DEF Next, RunCoroutine, TestQuit, LockCond, CheckSlot,
     EndWait, FetchSlot, EndFetch, Pop, Process, SpuriousWakeup, SetDisable,
     StopDisable, Stopper, StopQuit, StopNotify, StopJoin, vars

\* Nothing but the holder of the mutex changes what it found out.
LEMMA SizeStep == Inv /\ [Next]_vars => SizeInv'
<1> SUFFICES ASSUME Inv, [Next]_vars PROVE SizeInv'
  OBVIOUS
<1> USE SlotsAssumption, CacheAssumption
    DEF Inv, TypeOK, InputTypeOK, ThreadTypeOK, SizeInv, Full, prod, cor,
        GoProducer
<1>1. ASSUME NEW p \in Producers, SendInput(p) PROVE SizeInv'
  BY <1>1 DEF SendInput
<1>2. ASSUME NEW p \in Producers, Producer(p) PROVE SizeInv'
  <2>1. CASE LockInput(p)
    BY <2>1 DEF LockInput
  <2>2. CASE DropFront(p)
    <3> DEFINE s == Target[p]
    <3>1. /\ s \in Slots /\ queue[s] \in Seq(Buffers)
          /\ Len(queue[s]) = MaxCache /\ MaxCache > 0 /\ mode = "DROPFRONT"
      BY <2>2 DEF DropFront
    <3>2. Len(Tail(queue[s])) = MaxCache - 1
      BY <3>1
    <3>3. queue' = [queue EXCEPT ![s] = Tail(@)] /\ ppc' = [ppc EXCEPT ![p] = "push"]
      BY <2>2 DEF DropFront
    <3>4. queue'[s] = Tail(queue[s]) /\ \A r \in Slots \ {s} : queue'[r] = queue[r]
      BY <3>1, <3>3
    <3>0. \A r \in Slots : Len(queue[r]) <= MaxCache
      BY <3>1
    <3>5. ASSUME NEW r \in Slots PROVE Len(queue'[r]) <= MaxCache
      <4>1. CASE r = s
        BY <3>1, <3>2, <3>4, <4>1
      <4>2. CASE r # s
        BY <3>0, <3>4, <4>2
      <4> QED
        BY <4>1, <4>2
    <3>6. ASSUME NEW q \in Producers, q # p, Target[q] = s
          PROVE  ppc'[q] \notin {"drop", "push"}
      BY <2>2, <3>3, <3>6 DEF DropFront, MutexInv
    <3>7. ~ (MaxCache <= Len(queue'[s]))
      BY <3>1, <3>2, <3>4
    <3>8. ppc'[p] = "push" /\ \A q \in Producers \ {p} : ppc'[q] = ppc[q]
      BY <3>3
    <3> QED
      BY <3>1, <3>4, <3>5, <3>6, <3>7, <3>8, ModeStep
  <2>3. CASE Push(p)
    BY <2>3 DEF Push, MutexInv
  <2>4. CASE PollSize(p) \/ EndBlocking(p) \/ KeepBlocking(p) \/ Notify(p)
    BY <2>4 DEF PollSize, EndBlocking, KeepBlocking, Notify
  <2> QED
    BY <1>2, <2>1, <2>2, <2>3, <2>4 DEF Producer
<1>3. CASE Pop
  BY <1>3, FreeAssumption DEF Pop, MutexInv, Free
<1>4. CASE UNCHANGED <<ppc, queue>>
  BY <1>4, ModeStep
<1> QED
  BY <1>1, <1>2, <1>3, <1>4 DEF Next, RunCoroutine, TestQuit, LockCond, CheckSlot,
     EndWait, FetchSlot, EndFetch, Process, SpuriousWakeup, SetDisable,
     StopDisable, Stopper, StopQuit, StopNotify, StopJoin, vars

\* Each producer that is about to push unseen had seen room: their number and
\* the buffers queued stay below the limit plus the number of the feeders.
LEMMA BlockingStep == Inv /\ [Next]_vars => BlockingInv'
<1> SUFFICES ASSUME Inv, [Next]_vars, mode = "BLOCKING", MaxCache > 0,
                    NEW s \in Slots
             PROVE  Len(queue'[s]) + Cardinality(Pending(s)')
                      < MaxCache + Cardinality(Feeders(s))
  BY ModeStep DEF BlockingInv, Feeders
<1> DEFINE P == Pending(s)
           R == Pending(s)'
           F == Cardinality(Feeders(s))
<1>1. /\ queue[s] \in Seq(Buffers) /\ Len(queue[s]) \in Nat
      /\ queue'[s] \in Seq(Buffers) /\ Len(queue'[s]) \in Nat
      /\ ppc \in [Producers -> {"idle", "lock", "drop", "sleep", "room", "again",
                               "push", "notify"}]
      /\ MaxCache \in Nat
  BY TypeStep, CacheAssumption DEF Inv, TypeOK, InputTypeOK, ThreadTypeOK
<1>2. /\ IsFiniteSet(P) /\ Cardinality(P) \in Nat
      /\ Cardinality(R) \in Nat /\ F \in Nat /\ Cardinality(R) <= F
  <2>1. P \in SUBSET Feeders(s) /\ R \in SUBSET Feeders(s)
    BY DEF Pending, Feeders
  <2> QED
    BY <2>1, Counting
<1>3. Len(queue[s]) + Cardinality(P) < MaxCache + F
  BY DEF Inv, BlockingInv
<1> HIDE DEF P, R, F
\* Room was seen in this step, or nothing was pushed and nobody came nearer.
<1>4. ASSUME queue'[s] = queue[s], Len(queue[s]) < MaxCache
      PROVE  Len(queue'[s]) + Cardinality(R) < MaxCache + F
  BY <1>1, <1>2, <1>4
<1>5. ASSUME Len(queue'[s]) <= Len(queue[s]), R \subseteq P
      PROVE  Len(queue'[s]) + Cardinality(R) < MaxCache + F
  <2>1. R \subseteq P /\ IsFiniteSet(P)
    BY <1>2, <1>5
  <2>2. Cardinality(R) <= Cardinality(P)
    BY <2>1, FS_Subset
  <2> QED
    BY <1>1, <1>2, <1>3, <1>5, <2>2
<1>6. ASSUME NEW p \in Producers, Producer(p)
      PROVE  Len(queue'[s]) + Cardinality(R) < MaxCache + F
  <2>1. CASE LockInput(p)
    <3>1. CASE Target[p] = s /\ ~ Full(s)
      BY <2>1, <3>1, <1>1, <1>4 DEF LockInput, Full
    <3>2. CASE ~ (Target[p] = s /\ ~ Full(s))
      BY <2>1, <3>2, <1>1, <1>5 DEF LockInput, GoProducer, P, R, Pending, Feeders
    <3> QED
      BY <3>1, <3>2
  <2>2. CASE PollSize(p)
    <3>1. CASE Target[p] = s /\ MaxCache > Len(queue[s])
      BY <2>2, <3>1, <1>1, <1>4 DEF PollSize
    <3>2. CASE ~ (Target[p] = s /\ MaxCache > Len(queue[s]))
      BY <2>2, <3>2, <1>1, <1>5 DEF PollSize, GoProducer, P, R, Pending, Feeders
    <3> QED
      BY <3>1, <3>2
  <2>3. CASE EndBlocking(p) \/ KeepBlocking(p) \/ Notify(p)
    BY <2>3, <1>1, <1>5 DEF EndBlocking, KeepBlocking, Notify, GoProducer,
       P, R, Pending, Feeders
  <2>4. CASE DropFront(p)
    BY <2>4 DEF DropFront, Inv, SizeInv
  <2>5. CASE Push(p)
    <3>1. CASE Target[p] = s
      <4>1. p \in P /\ R = P \ {p}
        BY <2>5, <3>1, <1>1 DEF Push, GoProducer, P, R, Pending, Feeders
      <4>2. Cardinality(R) = Cardinality(P) - 1
        BY <4>1, <1>2, FS_RemoveElement
      <4>3. <<p, sent[p]>> \in Buffers
        BY DEF Inv, TypeOK, ThreadTypeOK, Buffers
      <4>4. queue'[s] = Append(queue[s], <<p, sent[p]>>)
        BY <2>5, <3>1 DEF Push, Inv, TypeOK, InputTypeOK
      <4>5. Len(queue'[s]) = Len(queue[s]) + 1
        BY <1>1, <4>3, <4>4
      <4> QED
        BY <1>1, <1>2, <1>3, <4>2, <4>5
    <3>2. CASE Target[p] # s
      <4>1. queue'[s] = queue[s]
        BY <2>5, <3>2 DEF Push, Inv, TypeOK, InputTypeOK
      <4>2. R \subseteq P
        BY <2>5, <3>2, <1>1 DEF Push, GoProducer, P, R, Pending, Feeders
      <4> QED
        BY <1>1, <1>5, <4>1, <4>2
    <3> QED
      BY <3>1, <3>2
  <2> QED
    BY <1>6, <2>1, <2>2, <2>3, <2>4, <2>5 DEF Producer
<1>7. ASSUME NEW p \in Producers, SendInput(p)
      PROVE  Len(queue'[s]) + Cardinality(R) < MaxCache + F
  BY <1>7, <1>1, <1>5 DEF SendInput, GoProducer, P, R, Pending, Feeders
<1>8. CASE Pop
  <2>1. R \subseteq P
    BY <1>8 DEF Pop, prod, P, R, Pending, Feeders
  <2>2. queue[ci] # <<>> /\ ci \in Slots
    BY <1>8, PopInv DEF Pop, PopFindsBuffer, Inv, CoroutineInv
  <2>3. Len(queue'[s]) <= Len(queue[s])
    <3>1. CASE s = ci
      <4>1. queue'[s] = Tail(queue[s])
        BY <1>8, <3>1 DEF Pop, Inv, TypeOK, InputTypeOK
      <4> QED
        BY <1>1, <2>2, <3>1, <4>1
    <3>2. CASE s # ci
      BY <1>1, <1>8, <3>2 DEF Pop, Inv, TypeOK, InputTypeOK
    <3> QED
      BY <3>1, <3>2
  <2> QED
    BY <1>5, <2>1, <2>3 DEF R, F
<1>9. CASE UNCHANGED <<ppc, queue>>
  <2>1. R \subseteq P /\ Len(queue'[s]) <= Len(queue[s])
    BY <1>1, <1>9 DEF P, R, Pending, Feeders
  <2> QED
    BY <1>5, <2>1 DEF R, F
<1> QED
  BY <1>6, <1>7, <1>8, <1>9 DEF R, F, Next, RunCoroutine, TestQuit, LockCond,
     CheckSlot, EndWait, FetchSlot, EndFetch, Process, SpuriousWakeup,
     SetDisable, StopDisable, Stopper, StopQuit, StopNotify, StopJoin, vars, prod

\* The coroutine's hand is empty where it has not been yet, and the buffer it
\* saw stays, or DROPFRONT is about to put a newer one in its place.
LEMMA CoroutineStep == Inv /\ [Next]_vars => CoroutineInv'
<1> SUFFICES ASSUME Inv, [Next]_vars PROVE CoroutineInv'
  OBVIOUS
<1> USE SlotsAssumption DEF CoroutineInv, prod, cor
<1>0. /\ queue \in [Slots -> Seq(Buffers)]
      /\ in_vector \in [Slots -> Buffers \cup {NoBuffer}]
      /\ ppc \in [Producers -> {"idle", "lock", "drop", "sleep", "room", "again",
                               "push", "notify"}]
      /\ ci \in 1 .. NumSlots + 1
      /\ NumSlots \in Nat /\ NumSlots > 0
      /\ CoroutineInv
  BY DEF Inv, TypeOK, InputTypeOK, ThreadTypeOK
<1>1. ASSUME NEW p \in Producers, SendInput(p) PROVE CoroutineInv'
  BY <1>0, <1>1 DEF SendInput, GoProducer
<1>2. ASSUME NEW p \in Producers, Producer(p) PROVE CoroutineInv'
  <2>1. CASE LockInput(p)
    BY <1>0, <2>1 DEF LockInput, GoProducer
  <2>2. CASE DropFront(p)
    BY <1>0, <2>2 DEF DropFront, GoProducer
  <2>3. CASE Push(p)
    <3>1. ppc' = [ppc EXCEPT ![p] = "notify"] /\ UNCHANGED <<cpc, ci, in_vector>>
      BY <2>3 DEF Push, GoProducer
    <3>2. \A q \in Producers \ {p} : ppc'[q] = ppc[q]
      BY <1>0, <3>1
    <3>3. queue' = [queue EXCEPT ![Target[p]] = Append(@, <<p, sent[p]>>)]
          /\ Target[p] \in Slots
      BY <2>3 DEF Push
    <3>4. queue'[Target[p]] # <<>> /\ \A r \in Slots \ {Target[p]} : queue'[r] = queue[r]
      <4>1. queue'[Target[p]] = Append(queue[Target[p]], <<p, sent[p]>>)
        BY <1>0, <3>3
      <4>2. queue[Target[p]] \in Seq(Buffers) /\ <<p, sent[p]>> \in Buffers
        BY <1>0, <3>3 DEF Inv, TypeOK, ThreadTypeOK, Buffers
      <4>3. Append(queue[Target[p]], <<p, sent[p]>>) # <<>>
        <5> DEFINE q == queue[Target[p]]
                   b == <<p, sent[p]>>
        <5>1. q \in Seq(Buffers) /\ b \in Buffers
          BY <4>2
        <5> HIDE DEF q, b
        <5>2. Append(q, b) # <<>>
          BY <5>1
        <5> QED
          BY <5>2 DEF q, b
      <4>4. \A r \in Slots \ {Target[p]} : queue'[r] = queue[r]
        BY <1>0, <3>3
      <4> QED
        BY <4>1, <4>3, <4>4
    <3> QED
      BY <1>0, <3>1, <3>2, <3>4
  <2>4. CASE PollSize(p) \/ EndBlocking(p) \/ KeepBlocking(p)
    BY <1>0, <2>4 DEF PollSize, EndBlocking, KeepBlocking, GoProducer
  <2>5. CASE Notify(p)
    BY <1>0, <2>5 DEF Notify, WakeCoroutine, GoProducer
  <2> QED
    BY <1>2, <2>1, <2>2, <2>3, <2>4, <2>5 DEF Producer
<1>3. CASE RunCoroutine
  <2>1. CASE TestQuit \/ LockCond \/ EndWait \/ EndFetch
    <3>1. CASE TestQuit \/ EndWait \/ EndFetch
      BY <1>0, <3>1 DEF TestQuit, EndWait, EndFetch
    <3>2. CASE LockCond
      BY <1>0, <3>2 DEF LockCond, Slots
    <3> QED
      BY <2>1, <3>1, <3>2
  <2>2. CASE CheckSlot
    <3>1. ci' \in Slots /\ cpc' \in {"check", "waiting", "fetch"}
          /\ UNCHANGED in_vector
      BY <1>0, <2>2 DEF CheckSlot, Slots
    <3>2. \A s \in Slots : in_vector[s] = NoBuffer
      BY <1>0, <2>2 DEF CheckSlot
    <3> QED
      BY <3>1, <3>2
  <2>3. CASE FetchSlot
    <3>1. CASE queue[ci] = <<>>
      <4>1. cpc' = "fetch" /\ ci' = ci + 1 /\ UNCHANGED in_vector
        BY <2>3, <3>1 DEF FetchSlot
      <4>2. \A s \in Slots : ci + 1 <= s => ci <= s
        BY <1>0 DEF Slots
      <4> QED
        BY <1>0, <2>3, <4>1, <4>2 DEF FetchSlot
    <3>2. CASE queue[ci] # <<>> /\ ~ enable
      BY <1>0, <2>3, <3>2 DEF FetchSlot
    <3>3. CASE queue[ci] # <<>> /\ enable
      BY <1>0, <2>3, <3>3 DEF FetchSlot, Slots
    <3> QED
      BY <3>1, <3>2, <3>3
  <2>4. CASE Pop
    <3>1. cpc' = "fetch" /\ ci' = ci + 1 /\ cpc = "pop"
          /\ in_vector' = [in_vector EXCEPT ![ci] = Head(queue[ci])]
      BY <2>4 DEF Pop
    <3>2. \A s \in Slots : ci + 1 <= s => ci <= s /\ s # ci
      BY <1>0 DEF Slots
    <3> QED
      BY <1>0, <3>1, <3>2
  <2>5. CASE Process
    BY <1>0, <2>5 DEF Process
  <2> QED
    BY <1>3, <2>1, <2>2, <2>3, <2>4, <2>5 DEF RunCoroutine
<1>4. CASE SpuriousWakeup \/ SetDisable \/ StopDisable \/ Stopper \/ UNCHANGED vars
  BY <1>0, <1>4 DEF SpuriousWakeup, SetDisable, StopDisable, Stopper, StopQuit,
     StopNotify, StopJoin, WakeCoroutine, vars
<1> QED
  BY <1>1, <1>2, <1>3, <1>4 DEF Next

\* The invariant is inductive.
LEMMA NextInv == Inv /\ [Next]_vars => Inv'
BY TypeStep, MutexStep, SizeStep, BlockingStep, CoroutineStep DEF Inv

\* The types, for any instance.
THEOREM TypeCorrect == Spec => []TypeOK
<1>1. Inv => TypeOK
  BY DEF Inv
<1> QED
  BY <1>1, InitInv, NextInv, PTL DEF Spec

\* assert(!v.empty()) in ASyncFetchInputCommon never fails.
THEOREM AssertionHolds == Spec => []PopFindsBuffer
  BY InitInv, NextInv, PopInv, PTL DEF Spec
-----------------------------------------------------------------------------
\* A producer that pushes finds the slot below its limit plus the slack.
LEMMA PutBound ==
  ASSUME Inv, NEW p \in Producers, ppc[p] = "push", MaxCache > 0
  PROVE  Len(queue[Target[p]])
           < MaxCache + (IF mode = "BLOCKING" THEN Slack[Target[p]] ELSE 0)
<1> DEFINE s == Target[p]
<1>1. s \in Slots /\ Len(queue[s]) \in Nat /\ MaxCache \in Nat
  BY SlotsAssumption, CacheAssumption DEF Inv, TypeOK, InputTypeOK
<1>2. CASE mode # "BLOCKING"
  BY <1>1, <1>2 DEF Inv, SizeInv, Full
<1>3. CASE mode = "BLOCKING"
  <2>1. IsFiniteSet(Pending(s)) /\ Cardinality(Pending(s)) \in Nat
        /\ Cardinality(Feeders(s)) \in Nat
    BY Counting DEF Pending, Feeders
  <2>2. p \in Pending(s)
    BY DEF Pending, Feeders
  <2>3. Cardinality(Pending(s)) > 0
    BY <2>1, <2>2, FS_EmptySet
  <2>4. Len(queue[s]) + Cardinality(Pending(s)) < MaxCache + Cardinality(Feeders(s))
    BY <1>1, <1>3 DEF Inv, BlockingInv
  <2>5. Slack[s] = Cardinality(Feeders(s)) - 1
    BY <1>1 DEF Slack, Feeders
  <2> QED
    BY <1>1, <1>3, <2>1, <2>3, <2>4, <2>5
<1> QED
  BY <1>2, <1>3

\* Every step of the input is a step of FlowQueue, or none that it can see.
LEMMA QueueStep == Inv /\ [Next]_vars => [Q!Next]_(Q!vars)
<1> SUFFICES ASSUME Inv, [Next]_vars PROVE [Q!Next]_(Q!vars)
  OBVIOUS
<1> DEFINE last == [p \in Producers |-> IF ppc[p] \in {"idle", "notify"}
                                          THEN sent[p] ELSE sent[p] - 1]
<1>0. /\ queue \in [Slots -> Seq(Buffers)]
      /\ in_vector \in [Slots -> Buffers \cup {NoBuffer}]
      /\ ppc \in [Producers -> {"idle", "lock", "drop", "sleep", "room", "again",
                               "push", "notify"}]
      /\ sent \in [Producers -> Nat]
      /\ Target \in [Producers -> Slots]
  BY SlotsAssumption DEF Inv, TypeOK, InputTypeOK, ThreadTypeOK
<1>1. ASSUME UNCHANGED <<mode, enable, queue, in_vector, got>>, last' = last
      PROVE  UNCHANGED Q!vars
  BY <1>1 DEF Q!vars
<1>2. ASSUME NEW p \in Producers, SendInput(p) PROVE [Q!Next]_(Q!vars)
  <2>1. CASE enable
    <3>1. last' = last
      BY <1>0, <1>2, <2>1 DEF SendInput, GoProducer
    <3> QED
      BY <1>1, <1>2, <3>1 DEF SendInput, cor
  <2>2. CASE ~ enable
    <3>1. last' = [last EXCEPT ![p] = @ + 1]
      BY <1>0, <1>2, <2>2 DEF SendInput, GoProducer
    <3>2. Q!Refuse(p)
      BY <1>2, <2>2, <3>1 DEF SendInput, Q!Refuse, cor
    <3> QED
      BY <3>2 DEF Q!Next
  <2> QED
    BY <2>1, <2>2
\* A producer that gives up its buffer.
<1>3. ASSUME NEW p \in Producers, ppc[p] \notin {"idle", "notify"},
             GoProducer(p, "idle"), UNCHANGED <<mode, enable, queue, sent, in_vector, got>>,
             ~ enable \/ (mode = "DROPCURRENT" /\ Full(Target[p]))
      PROVE  [Q!Next]_(Q!vars)
  <2>1. last' = [last EXCEPT ![p] = @ + 1]
    <3>1. last[p] + 1 = sent[p] /\ last'[p] = sent[p]
      BY <1>0, <1>3 DEF GoProducer
    <3>2. \A q \in Producers \ {p} : last'[q] = last[q]
      BY <1>0, <1>3 DEF GoProducer
    <3> QED
      BY <3>1, <3>2
  <2>2. Q!Refuse(p)
    BY <1>3, <2>1 DEF Q!Refuse, Q!Full, Full
  <2> QED
    BY <2>2 DEF Q!Next
\* A producer that goes on with its buffer.
<1>4. ASSUME NEW p \in Producers, NEW l, ppc[p] \in {"idle", "notify"} <=> l \in {"idle", "notify"},
             GoProducer(p, l), UNCHANGED <<mode, enable, queue, sent, in_vector, got>>
      PROVE  [Q!Next]_(Q!vars)
  <2>1. last' = last
    BY <1>0, <1>4 DEF GoProducer
  <2> QED
    BY <1>1, <1>4, <2>1
<1>5. ASSUME NEW p \in Producers, Producer(p) PROVE [Q!Next]_(Q!vars)
  <2>1. CASE LockInput(p)
    <3>1. CASE Full(Target[p]) /\ mode = "DROPCURRENT"
      BY <1>3, <2>1, <3>1 DEF LockInput, cor
    <3>2. CASE ~ (Full(Target[p]) /\ mode = "DROPCURRENT")
      BY <1>4, <2>1, <3>2 DEF LockInput, cor
    <3> QED
      BY <3>1, <3>2
  <2>2. CASE DropFront(p)
    <3>1. last' = last
      BY <1>0, <2>2 DEF DropFront, GoProducer
    <3>2. Q!DropOldest(Target[p])
      BY <2>2, <3>1 DEF DropFront, Q!DropOldest, Q!Full, Full, cor, Inv, SizeInv
    <3>3. Target[p] \in Q!Slots
      BY <1>0 DEF Q!Slots, Slots
    <3> QED
      BY <3>2, <3>3 DEF Q!Next
  <2>3. CASE PollSize(p)
    BY <1>4, <2>3 DEF PollSize, cor
  <2>4. CASE EndBlocking(p) \/ KeepBlocking(p)
    <3>1. CASE enable
      BY <1>4, <2>4, <3>1 DEF EndBlocking, KeepBlocking, cor
    <3>2. CASE ~ enable
      BY <1>3, <2>4, <3>2 DEF EndBlocking, KeepBlocking, cor
    <3> QED
      BY <3>1, <3>2
  <2>5. CASE Push(p)
    <3>1. last' = [last EXCEPT ![p] = @ + 1] /\ last[p] + 1 = sent[p]
      <4>1. last[p] + 1 = sent[p] /\ last'[p] = sent[p]
        BY <1>0, <2>5 DEF Push, GoProducer
      <4>2. \A q \in Producers \ {p} : last'[q] = last[q]
        BY <1>0, <2>5 DEF Push, GoProducer
      <4> QED
        BY <4>1, <4>2
    <3>2. MaxCache > 0 =>
            Len(queue[Target[p]])
              < MaxCache + (IF mode = "BLOCKING" THEN Slack[Target[p]] ELSE 0)
      BY <2>5, PutBound DEF Push
    <3>3. Q!Put(p)
      BY <2>5, <3>1, <3>2 DEF Push, Q!Put, cor
    <3> QED
      BY <3>3 DEF Q!Next
  <2>6. CASE Notify(p)
    BY <1>4, <2>6 DEF Notify
  <2> QED
    BY <1>5, <2>1, <2>2, <2>3, <2>4, <2>5, <2>6 DEF Producer
<1>6. CASE RunCoroutine
  <2>1. CASE TestQuit \/ LockCond \/ CheckSlot \/ EndWait \/ EndFetch
    BY <1>1, <2>1 DEF TestQuit, LockCond, CheckSlot, EndWait, EndFetch, prod
  <2>2. CASE FetchSlot
    <3>1. CASE UNCHANGED in_vector
      BY <1>1, <2>2, <3>1 DEF FetchSlot, prod
    <3>2. CASE ~ enable /\ in_vector' = [s \in Slots |-> NoBuffer]
      <4>1. Q!Discard
        BY <2>2, <3>2 DEF FetchSlot, prod, Q!Discard, Q!Slots, Slots
      <4> QED
        BY <4>1 DEF Q!Next
    <3> QED
      BY <2>2, <3>1, <3>2 DEF FetchSlot
  <2>3. CASE Pop
    <3>1. queue[ci] # <<>> /\ ci \in Slots /\ in_vector[ci] = NoBuffer
      BY <2>3, PopInv DEF Pop, PopFindsBuffer, Inv, CoroutineInv, TypeOK,
         ThreadTypeOK, Slots
    <3>2. Q!Take(ci) /\ ci \in Q!Slots
      BY <2>3, <3>1 DEF Pop, Q!Take, prod, Q!Slots, Slots
    <3> QED
      BY <3>2 DEF Q!Next
  <2>4. CASE Process
    <3>1. Q!Process
      BY <2>4 DEF Process, Q!Process, prod, Q!Slots, Slots
    <3> QED
      BY <3>1 DEF Q!Next
  <2> QED
    BY <1>6, <2>1, <2>2, <2>3, <2>4 DEF RunCoroutine
<1>7. CASE SetDisable \/ StopDisable
  <2>1. Q!Disable
    BY <1>7 DEF SetDisable, StopDisable, Q!Disable, prod, cor
  <2> QED
    BY <2>1 DEF Q!Next
<1>8. CASE SpuriousWakeup \/ Stopper \/ UNCHANGED vars
  BY <1>1, <1>8 DEF SpuriousWakeup, Stopper, StopQuit, StopNotify, StopJoin,
     vars, prod, cor
<1> QED
  BY <1>2, <1>5, <1>6, <1>7, <1>8 DEF Next

\* A flow's input is a FlowQueue, whatever the mode, the size and the number of
\* upstream flows.
THEOREM Implementation == Spec => ImplementsQueue
<1>1. Init => Q!Init
  BY DEF Init, Q!Init, Q!Slots, Slots
<1> QED
  BY <1>1, InitInv, NextInv, QueueStep, PTL DEF Spec, ImplementsQueue, Q!Spec
-----------------------------------------------------------------------------
(***************************************************************************)
(* FlowGraph: flows, lists and what they hold.                             *)
(***************************************************************************)
\* A flow is known by what it is and by the call of init_rtsp that made it.
LEMMA FlowPair ==
  ASSUME NEW f \in Flows
  PROVE  /\ Kind(f) \in Kinds /\ Session(f) \in Sessions
         /\ f = <<Kind(f), Session(f)>>
BY DEF Flows, Kind, Session

\* And the other way round.
LEMMA PairFlow ==
  ASSUME NEW k \in Kinds, NEW s \in Sessions
  PROVE  /\ <<k, s>> \in Flows
         /\ Kind(<<k, s>>) = k /\ Session(<<k, s>>) = s
BY DEF Flows, Kind, Session

\* The calls of init_rtsp are numbered from 1.
LEMMA SessionNumber ==
  ASSUME NEW s \in Sessions
  PROVE  s \in 1 .. MaxStarts /\ s # 0 /\ MaxStarts \in Nat
BY SizesAssumption DEF Sessions

\* Two flows that agree in both are one.
LEMMA SamePair ==
  ASSUME NEW f \in Flows, NEW g \in Flows,
         Kind(f) = Kind(g), Session(f) = Session(g)
  PROVE  f = g
BY FlowPair

\* The thread in init_rtsp or deinit_rtsp is not a flow's.
LEMMA MainIsNoFlow == Main \notin Flows
BY MainAssumption

\* The lists the flows have in this pipeline, and what they name.
LEMMA RangeOfLists ==
  ASSUME NEW a, NEW b
  PROVE  /\ Range(<<>>) = {} /\ Range(<<a>>) = {a} /\ Range(<<a, b>>) = {a, b}
<1>1. Range(<<>>) = {}
  BY DEF Range
<1>2. Range(<<a>>) = {a}
  BY DEF Range
<1>3. Range(<<a, b>>) = {a, b}
  <2>1. DOMAIN <<a, b>> = {1, 2}
    OBVIOUS
  <2> QED
    BY <2>1 DEF Range
<1> QED
  BY <1>1, <1>2, <1>3

\* FlowMap::AddFlow appends a flow the list does not name.
LEMMA AddToLists ==
  ASSUME NEW a, NEW b, a # b
  PROVE  AddFlow(<<>>, a) = <<a>> /\ AddFlow(<<a>>, b) = <<a, b>>
<1>1. Append(<<>>, a) = <<a>>
  OBVIOUS
<1>2. Append(<<a>>, b) = <<a, b>>
  <2> DEFINE s == <<a>>
             t == <<a, b>>
  <2>1. s \in Seq({a, b}) /\ Len(s) = 1 /\ s[1] = a
    OBVIOUS
  <2>2. t \in Seq({a, b}) /\ Len(t) = 2 /\ t[1] = a /\ t[2] = b
    OBVIOUS
  <2> HIDE DEF s, t
  <2> DEFINE S == {a, b}
  <2>5. s \in Seq(S) /\ b \in S
    BY <2>1
  <2> HIDE DEF S
  <2>6. /\ Append(s, b) \in Seq(S) /\ Len(Append(s, b)) = Len(s) + 1
        /\ \A i \in 1 .. Len(s) : Append(s, b)[i] = s[i]
        /\ Append(s, b)[Len(s) + 1] = b
    BY <2>5, AppendProperties
  <2>3. /\ Append(s, b) \in Seq({a, b}) /\ Len(Append(s, b)) = 2
        /\ Append(s, b)[1] = a /\ Append(s, b)[2] = b
    BY <2>1, <2>6 DEF S
  <2>4. Append(s, b) = t
    BY <2>2, <2>3, SeqEqual
  <2> QED
    BY <2>4 DEF s, t
<1>3. Range(<<>>) = {} /\ Range(<<a>>) = {a}
  BY RangeOfLists
<1> QED
  BY <1>1, <1>2, <1>3 DEF AddFlow

\* FlowMap::RemoveFlow where the flow stands.
LEMMA RemoveWhere ==
  ASSUME NEW s, NEW e, NEW n, {j \in 1 .. Len(s) : s[j] = e} = {n},
         n \in Int
  PROVE  RemoveFlow(s, e) = SubSeq(s, 1, n - 1) \o SubSeq(s, n + 1, Len(s))
<1>1. Min({n}) = n
  BY DEF Min
<1>2. SelectInSeq(s, LAMBDA v : v = e) = n
  BY <1>1 DEF SelectInSeq
<1> QED
  BY <1>2 DEF RemoveFirst, RemoveAt, RemoveFlow

\* FlowMap::RemoveFlow undoes AddFlow.
LEMMA RemoveFromLists ==
  ASSUME NEW a, NEW b
  PROVE  /\ RemoveFlow(<<a>>, a) = <<>>
         /\ a # b => RemoveFlow(<<a, b>>, b) = <<a>>
<1>1. RemoveFlow(<<a>>, a) = <<>>
  <2>1. RemoveFlow(<<a>>, a) = SubSeq(<<a>>, 1, 0) \o SubSeq(<<a>>, 2, 1)
    <3> DEFINE s == <<a>>
    <3>1. Len(s) = 1 /\ s[1] = a
      OBVIOUS
    <3> HIDE DEF s
    <3>2. {j \in 1 .. Len(s) : s[j] = a} = {1} /\ 1 \in Int
      BY <3>1
    <3>4. RemoveFlow(s, a) = SubSeq(s, 1, 1 - 1) \o SubSeq(s, 1 + 1, Len(s))
      BY <3>2, RemoveWhere, Zenon
    <3>3. RemoveFlow(s, a) = SubSeq(s, 1, 0) \o SubSeq(s, 2, 1)
      BY <3>1, <3>4
    <3> QED
      BY <3>3 DEF s
  <2>2. SubSeq(<<a>>, 1, 0) = <<>> /\ SubSeq(<<a>>, 2, 1) = <<>>
    OBVIOUS
  <2>3. <<>> \o <<>> = <<>>
    OBVIOUS
  <2> QED
    BY <2>1, <2>2, <2>3
<1>2. ASSUME a # b
      PROVE  RemoveFlow(<<a, b>>, b) = <<a>>
  <2> DEFINE s == <<a, b>>
  <2>1. /\ s \in Seq({a, b}) /\ Len(s) = 2
        /\ s[1] = a /\ s[2] = b
    OBVIOUS
  <2> HIDE DEF s
  <2>8. {j \in 1 .. Len(s) : s[j] = b} = {2} /\ 2 \in Int
    BY <1>2, <2>1
  <2>2. RemoveFlow(s, b) = SubSeq(s, 1, 2 - 1) \o SubSeq(s, 2 + 1, Len(s))
    BY <2>8, RemoveWhere, Zenon
  <2>7. RemoveFlow(s, b) = SubSeq(s, 1, 1) \o SubSeq(s, 3, 2)
    BY <2>1, <2>2
  <2>3. SubSeq(s, 3, 2) = <<>>
    BY <2>1, EmptySeq, SubSeqProperties
  <2>4. /\ SubSeq(s, 1, 1) \in Seq({a, b}) /\ Len(SubSeq(s, 1, 1)) = 1
        /\ SubSeq(s, 1, 1)[1] = a
    BY <2>1, SubSeqProperties
  <2>5. SubSeq(s, 1, 1) = <<a>>
    <3> DEFINE r == <<a>>
    <3>1. r \in Seq({a, b}) /\ Len(r) = 1 /\ r[1] = a
      OBVIOUS
    <3> HIDE DEF r
    <3>2. SubSeq(s, 1, 1) = r
      BY <2>4, <3>1, SeqEqual
    <3> QED
      BY <3>2 DEF r
  <2>6. <<a>> \o <<>> = <<a>>
    OBVIOUS
  <2> QED
    BY <2>7, <2>3, <2>5, <2>6 DEF s
<1> QED
  BY <1>1, <1>2

\* What a queue holds after a push.
LEMMA RangeOfAppend ==
  ASSUME NEW S, NEW q \in Seq(S), NEW b \in S
  PROVE  Range(Append(q, b)) = Range(q) \cup {b}
<1>1. /\ DOMAIN q = 1 .. Len(q) /\ DOMAIN Append(q, b) = 1 .. (Len(q) + 1)
      /\ Len(q) \in Nat
  OBVIOUS
<1>2. \A i \in 1 .. Len(q) : Append(q, b)[i] = q[i]
  OBVIOUS
<1>3. Append(q, b)[Len(q) + 1] = b
  OBVIOUS
<1> QED
  BY <1>1, <1>2, <1>3 DEF Range

\* What a pop takes and what it leaves.
LEMMA RangeOfTail ==
  ASSUME NEW S, NEW q \in Seq(S), q # <<>>
  PROVE  Head(q) \in Range(q) /\ Range(Tail(q)) \subseteq Range(q)
<1>1. /\ Len(q) \in Nat \ {0} /\ DOMAIN q = 1 .. Len(q)
      /\ DOMAIN Tail(q) = 1 .. (Len(q) - 1)
  OBVIOUS
<1>2. \A i \in 1 .. (Len(q) - 1) : Tail(q)[i] = q[i + 1]
  OBVIOUS
<1>3. Head(q) = q[1]
  OBVIOUS
<1> QED
  BY <1>1, <1>2, <1>3 DEF Range
-----------------------------------------------------------------------------
(***************************************************************************)
(* FlowGraph: the invariant.                                               *)
(***************************************************************************)
Upstream(f) ==
  IF Kind(f) = "rtsp" THEN <<"enc", Session(f)>> ELSE <<"cap", Session(f)>>

Dying(f) == life[f] \in {"stop", "off", "notify", "join"}

(* The globals are set and reset one after the other; only the dump flow's *)
(* is never reset.                                                         *)
HandleInv ==
  /\ handle["dump"] =
       IF mpc \in {"createEnc", "createDump"} THEN session - 1 ELSE session
  /\ \A k \in Kinds \ {"dump"} : handle[k] \in {0, session}
  /\ mpc \in {"idle", "unlinkDump", "unlinkEnc", "unlinkRtsp", "resetRtsp"} =>
       handle["enc"] = handle["cap"] /\ handle["rtsp"] = handle["cap"]
  /\ mpc = "resetEnc" => handle["rtsp"] = 0 /\ handle["enc"] = handle["cap"]
  /\ mpc = "resetCap" => handle["rtsp"] = 0 /\ handle["enc"] = 0
  /\ mpc \in {"createCap", "exit"} =>
       handle["rtsp"] = 0 /\ handle["enc"] = 0 /\ handle["cap"] = 0
  /\ mpc = "createEnc" =>
       handle["rtsp"] = 0 /\ handle["enc"] = 0 /\ handle["cap"] = session
  /\ mpc \in {"createDump", "linkRtsp", "linkEnc", "linkDump"} =>
       /\ handle["rtsp"] = session /\ handle["enc"] = session
       /\ handle["cap"] = session
  /\ mpc \in {"createEnc", "createDump", "linkRtsp", "linkEnc", "linkDump"} =>
       session > 0 /\ starting
  /\ mpc = "idle" /\ ~ starting => handle["cap"] = 0
  /\ mpc = "createCap" => starting
  /\ starting /\ mpc \in {"unlinkDump", "unlinkEnc", "unlinkRtsp", "resetRtsp",
                          "resetEnc", "resetCap", "createCap"} =>
       session < MaxStarts

\* The flows that RemoveDownFlow and AddDownFlow have left in a flow's list.
ListOf(f) ==
  LET s == Session(f) IN
  IF Kind(f) = "cap" /\ handle["cap"] = s
    THEN IF mpc \in {"idle", "unlinkDump"}
           THEN << <<"enc", s>>, <<"dump", s>> >>
         ELSE IF mpc \in {"linkDump", "unlinkEnc"} THEN << <<"enc", s>> >>
         ELSE <<>>
  ELSE IF Kind(f) = "enc" /\ handle["enc"] = s
          /\ mpc \in {"linkEnc", "linkDump", "idle", "unlinkDump", "unlinkEnc",
                      "unlinkRtsp"}
    THEN << <<"rtsp", s>> >>
  ELSE <<>>

DownInv == down = [f \in Flows |-> ListOf(f)]

Made(f) ==
  \/ Session(f) < session
  \/ /\ Session(f) = session
     /\ mpc = "createEnc" => Kind(f) = "cap"
     /\ mpc = "createDump" => Kind(f) # "dump"

(* A flow and its thread are made together; the flows of former sessions,  *)
(* but for the dump flows, are gone.                                       *)
MadeInv ==
  \A f \in Flows :
    /\ life[f] = "none" <=> ~ Made(f)
    /\ tpc[f] = "none" <=> life[f] = "none"
    /\ life[f] = "dead" => tpc[f] = "done"
    /\ Session(f) < session /\ Kind(f) # "dump" => life[f] = "dead"
    /\ tpc[f] \in {"lock", "read", "dqbuf"} => Kind(f) = "cap"

(* RunOnce's copy is one of the lists the flow has had, and is there only  *)
(* while the thread sends.                                                 *)
CopiesOf(f) ==
  LET s == Session(f) IN
  CASE Kind(f) = "cap" -> {<<>>, << <<"enc", s>> >>,
                           << <<"enc", s>>, <<"dump", s>> >>}
    [] Kind(f) = "enc" -> {<<>>, << <<"rtsp", s>> >>}
    [] OTHER -> {<<>>}

CopyInv ==
  \A f \in Flows : flows[f] \in CopiesOf(f)
                   /\ (tpc[f] # "send" => flows[f] = <<>>)

Copied(f) == Kind(f) \in {"enc", "rtsp"} /\ f \in Range(flows[Upstream(f)])

(* Who is held is alive, who is alive is held, and whoever dropped the     *)
(* last pointer is still at the place where it did.                        *)
HeldInv ==
  /\ \A k \in Kinds : handle[k] # 0 => life[HandleOf(k)] = "alive"
  /\ \A u, f \in Flows : f \in Range(flows[u]) => life[f] = "alive"
  /\ \A f \in Flows :
       life[f] = "alive" => handle[Kind(f)] = Session(f) \/ Copied(f)
  /\ \A f \in Flows : Dying(f) =>
       \/ owner[f] = Main
       \/ /\ Kind(f) \in {"enc", "rtsp"} /\ owner[f] = Upstream(f)
          /\ tpc[Upstream(f)] = "reset"

(* Flows hold frames of their session, and those that are gone or not yet  *)
(* made none; the device of a capture flow that is gone is open only       *)
(* because of a frame.                                                     *)
CameraInv ==
  /\ \A f \in Flows : \A b \in Range(cached[f]) \cup {hand[f]} :
       b # NoFrame => Session(b) = Session(f)
  /\ \A f \in Flows : life[f] \in {"none", "dead"} =>
       cached[f] = <<>> /\ hand[f] = NoFrame
  /\ \A s \in Sessions : device[s] # "none" => s <= session
  /\ \A s \in Sessions : device[s] = "open" /\ life[<<"cap", s>>] = "dead" =>
       \E b \in Frames : Session(b) = s /\ Held(b, cached, hand)

GraphInv == /\ GraphTypeOK /\ HandleInv /\ DownInv /\ MadeInv /\ CopyInv
            /\ HeldInv /\ CameraInv
-----------------------------------------------------------------------------
(***************************************************************************)
(* FlowGraph: what a step leaves alone.                                    *)
(***************************************************************************)
\* A flow's thread neither calls init_rtsp nor changes a list.
LEMMA ThreadLeaves ==
  ASSUME NEW f \in Flows, Thread(f)
  PROVE  UNCHANGED <<mpc, starting, session, handle, down>>
BY DEF Thread, SendDown, DropCopy, ResetInput, StartCond, TestLoop, Read, Dqbuf,
       DqbufFails, WhileRun, FetchInput, FetchAndProcess, main, refs

\* A destructor changes no global and no copy.
LEMMA DestructorLeaves ==
  ASSUME NEW f \in Flows, Destructor(f)
  PROVE  UNCHANGED <<mpc, starting, session, handle, flows, next>>
BY DEF Destructor, StopAllThread, StreamOff, NotifyThread, Join, main, threads
-----------------------------------------------------------------------------
(***************************************************************************)
(* FlowGraph: the globals.                                                 *)
(***************************************************************************)
\* Every call finds the globals as the step before has left them.
LEMMA HandleStep ==
  ASSUME MainTypeOK, HandleInv, [GraphNext]_graphVars
  PROVE  MainTypeOK' /\ HandleInv'
<1> USE DEF MainTypeOK, HandleInv, Go, At, Have, Kinds
<1>0. MaxStarts \in Nat
  BY SizesAssumption
<1>1. CASE UNCHANGED <<mpc, starting, session, handle>>
  BY <1>1
<1>2. CASE CallInit
  BY <1>0, <1>2 DEF CallInit
<1>3. CASE CallDeinit
  BY <1>0, <1>3 DEF CallDeinit
<1>4. CASE UnlinkDump
  BY <1>0, <1>4 DEF UnlinkDump, RemoveDownFlow
<1>5. CASE UnlinkEnc
  BY <1>0, <1>5 DEF UnlinkEnc, RemoveDownFlow
<1>6. CASE UnlinkRtsp
  BY <1>0, <1>6 DEF UnlinkRtsp, RemoveDownFlow
<1>7. CASE ResetRtsp
  BY <1>0, <1>7 DEF ResetRtsp, ResetHandle
<1>8. CASE ResetEnc
  BY <1>0, <1>8 DEF ResetEnc, ResetHandle
<1>9. CASE ResetCap
  BY <1>0, <1>9 DEF ResetCap, ResetHandle
<1>10. CASE CreateCap
  BY <1>0, <1>10 DEF CreateCap
<1>11. CASE CreateEnc
  BY <1>0, <1>11 DEF CreateEnc
<1>12. CASE CreateDump
  BY <1>0, <1>12 DEF CreateDump
<1>13. CASE LinkRtsp
  BY <1>0, <1>13 DEF LinkRtsp, AddDownFlow
<1>14. CASE LinkEnc
  BY <1>0, <1>14 DEF LinkEnc, AddDownFlow
<1>15. CASE LinkDump
  BY <1>0, <1>15 DEF LinkDump, AddDownFlow
<1>16. ASSUME NEW f \in Flows, Thread(f)
       PROVE  UNCHANGED <<mpc, starting, session, handle>>
  BY <1>16, ThreadLeaves
<1>17. ASSUME NEW f \in Flows, Destructor(f)
       PROVE  UNCHANGED <<mpc, starting, session, handle>>
  BY <1>17, DestructorLeaves
<1>18. CASE UNCHANGED graphVars
  BY <1>18 DEF graphVars, main
<1> QED
  BY <1>1, <1>2, <1>3, <1>4, <1>5, <1>6, <1>7, <1>8, <1>9, <1>10, <1>11, <1>12,
     <1>13, <1>14, <1>15, <1>16, <1>17, <1>18
     DEF GraphNext, Run, InitOrDeinit
-----------------------------------------------------------------------------
(***************************************************************************)
(* FlowGraph: the lists.                                                   *)
(***************************************************************************)
\* A flow's upstream flow is one of the same session.
LEMMA UpstreamFlow ==
  ASSUME NEW f \in Flows
  PROVE  /\ Upstream(f) \in Flows /\ Session(Upstream(f)) = Session(f)
         /\ Kind(Upstream(f)) = IF Kind(f) = "rtsp" THEN "enc" ELSE "cap"
BY FlowPair, PairFlow DEF Upstream, Kinds

\* A global that is set names a flow.
LEMMA HandleFlow ==
  ASSUME MainTypeOK, NEW k \in Kinds, handle[k] # 0
  PROVE  /\ handle[k] \in Sessions /\ HandleOf(k) \in Flows
         /\ Kind(HandleOf(k)) = k /\ Session(HandleOf(k)) = handle[k]
<1>1. handle[k] \in Sessions
  BY SizesAssumption DEF MainTypeOK, Sessions
<1> QED
  BY <1>1, PairFlow DEF HandleOf

\* A flow that a list names is held by its global too.
LEMMA DownHeld ==
  ASSUME MainTypeOK, HandleInv, DownInv,
         NEW u \in Flows, NEW f \in Flows, f \in Range(down[u])
  PROVE  handle[Kind(f)] = Session(f)
<1>1. down[u] = ListOf(u)
  BY DEF DownInv
<1> DEFINE s == Session(u)
<1>2. s \in Sessions /\ s # 0
  BY FlowPair, SessionNumber
<1>3. /\ Range(<<>>) = {} /\ Range(<< <<"enc", s>> >>) = { <<"enc", s>> }
      /\ Range(<< <<"rtsp", s>> >>) = { <<"rtsp", s>> }
      /\ Range(<< <<"enc", s>>, <<"dump", s>> >>)
           = { <<"enc", s>>, <<"dump", s>> }
  BY RangeOfLists
<1>4. CASE Kind(u) = "cap" /\ handle["cap"] = s
  <2>1. /\ \/ f = <<"enc", s>>
           \/ f = <<"dump", s>> /\ mpc \in {"idle", "unlinkDump"}
        /\ mpc \in {"idle", "unlinkDump", "linkDump", "unlinkEnc"}
    BY <1>1, <1>3, <1>4 DEF ListOf
  <2>2. handle["enc"] = s
    BY <1>4, <2>1 DEF HandleInv
  <2>3. mpc \in {"idle", "unlinkDump"} => handle["dump"] = s
    BY <1>2, <1>4 DEF HandleInv, Kinds
  <2> QED
    BY <1>2, <2>1, <2>2, <2>3, PairFlow DEF Kinds
<1>5. CASE ~ (Kind(u) = "cap" /\ handle["cap"] = s)
  <2>1. /\ f = <<"rtsp", s>> /\ handle["enc"] = s
        /\ mpc \in {"linkEnc", "linkDump", "idle", "unlinkDump", "unlinkEnc",
                    "unlinkRtsp"}
    BY <1>1, <1>3, <1>5 DEF ListOf
  <2>2. handle["rtsp"] = s
    BY <1>2, <2>1 DEF HandleInv
  <2> QED
    BY <1>2, <2>1, <2>2, PairFlow DEF Kinds
<1> QED
  BY <1>4, <1>5

\* A copy names flows of the session, each only in its upstream flow's copy.
LEMMA CopyNames ==
  ASSUME CopyInv, NEW u \in Flows, NEW f \in Flows, f \in Range(flows[u])
  PROVE  /\ Session(f) = Session(u) /\ tpc[u] = "send"
         /\ \/ Kind(f) \in {"enc", "rtsp"} /\ u = Upstream(f)
            \/ Kind(f) = "dump" /\ Kind(u) = "cap"
<1> DEFINE s == Session(u)
<1>1. s \in Sessions /\ u = <<Kind(u), s>>
  BY FlowPair
<1>2. /\ Range(<<>>) = {} /\ Range(<< <<"enc", s>> >>) = { <<"enc", s>> }
      /\ Range(<< <<"rtsp", s>> >>) = { <<"rtsp", s>> }
      /\ Range(<< <<"enc", s>>, <<"dump", s>> >>)
           = { <<"enc", s>>, <<"dump", s>> }
  BY RangeOfLists
<1>3. tpc[u] = "send" /\ flows[u] \in CopiesOf(u)
  BY <1>2 DEF CopyInv
<1>4. CASE Kind(u) = "cap"
  <2>1. f = <<"enc", s>> \/ f = <<"dump", s>>
    BY <1>2, <1>3, <1>4 DEF CopiesOf
  <2> QED
    BY <1>1, <1>3, <1>4, <2>1, PairFlow DEF Kinds, Upstream
<1>5. CASE Kind(u) = "enc"
  <2>1. f = <<"rtsp", s>>
    BY <1>2, <1>3, <1>5 DEF CopiesOf
  <2> QED
    BY <1>1, <1>3, <1>5, <2>1, PairFlow DEF Kinds, Upstream
<1>6. CASE Kind(u) \notin {"cap", "enc"}
  BY <1>2, <1>3, <1>6 DEF CopiesOf
<1> QED
  BY <1>4, <1>5, <1>6

\* Away from the calls that link and unlink flows all lists are empty.
LEMMA NoLists ==
  ASSUME MainTypeOK, HandleInv, DownInv, NEW f \in Flows,
         \/ handle["cap"] = 0 /\ handle["enc"] = 0
         \/ mpc \in {"resetRtsp", "resetEnc", "resetCap", "createCap",
                     "createEnc", "createDump", "linkRtsp", "exit"}
  PROVE  ListOf(f) = <<>> /\ down[f] = <<>>
<1>1. Session(f) # 0
  BY FlowPair, SessionNumber
<1> QED
  BY <1>1 DEF ListOf, DownInv

\* The lists are what the calls so far have made them.
LEMMA DownStep ==
  ASSUME GraphInv, [GraphNext]_graphVars
  PROVE  DownInv'
<1>1. MainTypeOK /\ HandleInv /\ DownInv /\ HeldInv
  BY DEF GraphInv, GraphTypeOK
<1>2. \A f \in Flows : down[f] = ListOf(f)
  BY <1>1 DEF DownInv
<1>3. /\ \A f \in Flows : Session(f) # 0 /\ f = <<Kind(f), Session(f)>>
      /\ DOMAIN down = Flows
  BY <1>1, FlowPair, SessionNumber DEF DownInv
<1>4. CASE UNCHANGED <<mpc, handle, down>>
  BY <1>1, <1>4 DEF DownInv, ListOf
<1>5. CASE /\ UNCHANGED down /\ \A f \in Flows : ListOf(f)' = ListOf(f)
  BY <1>1, <1>5 DEF DownInv
<1>6. CASE CallInit \/ CallDeinit
  BY <1>5, <1>6 DEF CallInit, CallDeinit, refs, At, Go, ListOf
<1> DEFINE c == HandleOf("cap")
           e == HandleOf("enc")
           r == HandleOf("rtsp")
           d == HandleOf("dump")
<1>7. Have("cap") /\ Have("enc") /\ Have("rtsp") /\ Have("dump") =>
        /\ c \in Flows /\ e \in Flows /\ r \in Flows /\ d \in Flows
        /\ e # d /\ c # e
        /\ Kind(c) = "cap" /\ Session(c) = handle["cap"]
        /\ Kind(e) = "enc" /\ Session(e) = handle["enc"]
  <2>1. /\ "cap" \in Kinds /\ "enc" \in Kinds /\ "rtsp" \in Kinds
        /\ "dump" \in Kinds
    BY DEF Kinds
  <2> QED
    BY <1>1, <2>1, HandleFlow DEF Have
<1>8. e = <<"enc", handle["enc"]>> /\ r = <<"rtsp", handle["rtsp"]>>
      /\ d = <<"dump", handle["dump"]>>
  BY DEF HandleOf
<1> HIDE DEF c, e, r, d
<1>9. CASE UnlinkDump
  <2>1. /\ mpc = "unlinkDump" /\ mpc' = "unlinkEnc" /\ UNCHANGED handle
        /\ down' = IF Have("cap") /\ Have("dump")
                   THEN [down EXCEPT ![c] = RemoveFlow(@, d)] ELSE down
    BY <1>9 DEF UnlinkDump, RemoveDownFlow, At, Go, c, d
  <2>2. handle["enc"] = handle["cap"] /\ handle["rtsp"] = handle["cap"]
    BY <1>1, <2>1 DEF HandleInv
  <2>3. CASE handle["cap"] = 0
    BY <1>3, <1>5, <2>1, <2>2, <2>3 DEF ListOf, Have
  <2>4. CASE handle["cap"] # 0
    <3>1. handle["dump"] = handle["cap"]
      BY <1>1, <2>1, <2>4 DEF HandleInv, Kinds
    <3>2. /\ c \in Flows /\ Kind(c) = "cap" /\ Session(c) = handle["cap"]
          /\ e # d
      BY <1>7, <2>2, <2>4, <3>1 DEF Have
    <3>3. down[c] = <<e, d>>
      BY <1>2, <1>8, <2>1, <2>2, <3>1, <3>2 DEF ListOf
    <3>4. RemoveFlow(down[c], d) = <<e>>
      BY <3>2, <3>3, RemoveFromLists
    <3>5. down' = [down EXCEPT ![c] = <<e>>]
      BY <2>1, <2>4, <3>1, <3>4 DEF Have
    <3>6. \A f \in Flows : ListOf(f)' = IF f = c THEN <<e>> ELSE ListOf(f)
      BY <1>3, <1>8, <2>1, <2>2, <3>2 DEF ListOf
    <3> QED
      BY <1>2, <1>3, <3>5, <3>6 DEF DownInv
  <2> QED
    BY <2>3, <2>4
<1>10. CASE UnlinkEnc
  <2>1. /\ mpc = "unlinkEnc" /\ mpc' = "unlinkRtsp" /\ UNCHANGED handle
        /\ down' = IF Have("cap") /\ Have("enc")
                   THEN [down EXCEPT ![c] = RemoveFlow(@, e)] ELSE down
    BY <1>10 DEF UnlinkEnc, RemoveDownFlow, At, Go, c, e
  <2>2. handle["enc"] = handle["cap"] /\ handle["rtsp"] = handle["cap"]
    BY <1>1, <2>1 DEF HandleInv
  <2>3. CASE handle["cap"] = 0
    BY <1>3, <1>5, <2>1, <2>2, <2>3 DEF ListOf, Have
  <2>4. CASE handle["cap"] # 0
    <3>1. handle["dump"] = handle["cap"]
      BY <1>1, <2>1, <2>4 DEF HandleInv, Kinds
    <3>2. c \in Flows /\ Kind(c) = "cap" /\ Session(c) = handle["cap"]
      BY <1>7, <2>2, <2>4, <3>1 DEF Have
    <3>3. down[c] = <<e>>
      BY <1>2, <1>8, <2>1, <2>2, <3>2 DEF ListOf
    <3>4. RemoveFlow(down[c], e) = <<>>
      BY <1>8, <3>3, RemoveFromLists
    <3>5. down' = [down EXCEPT ![c] = <<>>]
      BY <2>1, <2>2, <2>4, <3>4 DEF Have
    <3>6. \A f \in Flows : ListOf(f)' = IF f = c THEN <<>> ELSE ListOf(f)
      BY <1>3, <2>1, <2>2, <3>2 DEF ListOf
    <3> QED
      BY <1>2, <1>3, <3>5, <3>6 DEF DownInv
  <2> QED
    BY <2>3, <2>4
<1>11. CASE UnlinkRtsp
  <2>1. /\ mpc = "unlinkRtsp" /\ mpc' = "resetRtsp" /\ UNCHANGED handle
        /\ down' = IF Have("enc") /\ Have("rtsp")
                   THEN [down EXCEPT ![e] = RemoveFlow(@, r)] ELSE down
    BY <1>11 DEF UnlinkRtsp, RemoveDownFlow, At, Go, r, e
  <2>2. handle["enc"] = handle["cap"] /\ handle["rtsp"] = handle["cap"]
    BY <1>1, <2>1 DEF HandleInv
  <2>3. CASE handle["cap"] = 0
    BY <1>3, <1>5, <2>1, <2>2, <2>3 DEF ListOf, Have
  <2>4. CASE handle["cap"] # 0
    <3>1. handle["dump"] = handle["cap"]
      BY <1>1, <2>1, <2>4 DEF HandleInv, Kinds
    <3>2. e \in Flows /\ Kind(e) = "enc" /\ Session(e) = handle["enc"]
      BY <1>7, <2>2, <2>4, <3>1 DEF Have
    <3>3. down[e] = <<r>>
      BY <1>2, <1>8, <2>1, <2>2, <3>2 DEF ListOf
    <3>4. RemoveFlow(down[e], r) = <<>>
      BY <1>8, <3>3, RemoveFromLists
    <3>5. down' = [down EXCEPT ![e] = <<>>]
      BY <2>1, <2>2, <2>4, <3>4 DEF Have
    <3>6. \A f \in Flows : ListOf(f)' = IF f = e THEN <<>> ELSE ListOf(f)
      BY <1>3, <2>1, <2>2, <3>2 DEF ListOf
    <3> QED
      BY <1>2, <1>3, <3>5, <3>6 DEF DownInv
  <2> QED
    BY <2>3, <2>4
<1>12. CASE /\ UNCHANGED down /\ \A f \in Flows : ListOf(f) = <<>>
            /\ \/ mpc' \in {"resetRtsp", "resetEnc", "resetCap", "createCap",
                            "createEnc", "createDump", "linkRtsp", "exit"}
               \/ mpc' = "idle" /\ handle'["cap"] = 0 /\ handle'["enc"] = 0
  <2>1. \A f \in Flows : ListOf(f)' = <<>>
    BY <1>3, <1>12 DEF ListOf
  <2> QED
    BY <1>5, <1>12, <2>1
<1>13. CASE ResetRtsp
  BY <1>1, <1>12, <1>13, NoLists DEF ResetRtsp, ResetHandle, At, Go
<1>14. CASE ResetEnc
  BY <1>1, <1>12, <1>14, NoLists DEF ResetEnc, ResetHandle, At, Go
<1>15. CASE ResetCap
  <2>1. /\ mpc = "resetCap" /\ UNCHANGED down
        /\ handle' = [handle EXCEPT !["cap"] = 0]
        /\ mpc' = IF starting THEN "createCap" ELSE "idle"
    BY <1>15 DEF ResetCap, ResetHandle, At, Go
  <2>2. handle'["cap"] = 0 /\ handle'["enc"] = 0
    BY <1>1, <2>1 DEF MainTypeOK, Kinds, HandleInv
  <2> QED
    BY <1>1, <1>12, <2>1, <2>2, NoLists
<1>16. CASE CreateCap
  BY <1>1, <1>12, <1>16, NoLists DEF CreateCap, At, Go, refs
<1>17. CASE CreateEnc
  BY <1>1, <1>12, <1>17, NoLists DEF CreateEnc, At, Go
<1>18. CASE CreateDump
  BY <1>1, <1>12, <1>18, NoLists DEF CreateDump, At, Go
<1>19. mpc \in {"linkRtsp", "linkEnc", "linkDump"} =>
         /\ handle["cap"] = session /\ handle["enc"] = session
         /\ handle["rtsp"] = session /\ handle["dump"] = session
         /\ session # 0
         /\ c \in Flows /\ Kind(c) = "cap" /\ Session(c) = session
         /\ e \in Flows /\ Kind(e) = "enc" /\ Session(e) = session
         /\ e # d /\ c # e
  <2>1. mpc \in {"linkRtsp", "linkEnc", "linkDump"} =>
          /\ handle["cap"] = session /\ handle["enc"] = session
          /\ handle["rtsp"] = session /\ handle["dump"] = session
          /\ session # 0
    BY <1>1 DEF HandleInv
  <2> QED
    BY <1>7, <2>1 DEF Have
<1>20. CASE LinkRtsp
  <2>1. /\ mpc = "linkRtsp" /\ mpc' = "linkEnc" /\ UNCHANGED handle
        /\ down' = [down EXCEPT ![e] = AddFlow(@, r)]
    BY <1>20 DEF LinkRtsp, AddDownFlow, At, Go, r, e
  <2>2. down[e] = <<>>
    BY <1>1, <1>19, <2>1, NoLists
  <2>3. AddFlow(down[e], r) = <<r>>
    BY <1>8, <2>2, AddToLists
  <2>4. down' = [down EXCEPT ![e] = <<r>>]
    BY <2>1, <2>3
  <2>5. \A f \in Flows : ListOf(f)' = IF f = e THEN <<r>> ELSE ListOf(f)
    BY <1>3, <1>8, <1>19, <2>1 DEF ListOf
  <2> QED
    BY <1>2, <1>3, <2>4, <2>5 DEF DownInv
<1>21. CASE LinkEnc
  <2>1. /\ mpc = "linkEnc" /\ mpc' = "linkDump" /\ UNCHANGED handle
        /\ down' = [down EXCEPT ![c] = AddFlow(@, e)]
    BY <1>21 DEF LinkEnc, AddDownFlow, At, Go, c, e
  <2>2. down[c] = <<>>
    BY <1>2, <1>19, <2>1 DEF ListOf
  <2>3. AddFlow(down[c], e) = <<e>>
    BY <1>8, <2>2, AddToLists
  <2>4. down' = [down EXCEPT ![c] = <<e>>]
    BY <2>1, <2>3
  <2>5. \A f \in Flows : ListOf(f)' = IF f = c THEN <<e>> ELSE ListOf(f)
    BY <1>3, <1>8, <1>19, <2>1 DEF ListOf
  <2> QED
    BY <1>2, <1>3, <2>4, <2>5 DEF DownInv
<1>22. CASE LinkDump
  <2>1. /\ mpc = "linkDump" /\ mpc' = "idle" /\ UNCHANGED handle
        /\ down' = [down EXCEPT ![c] = AddFlow(@, d)]
    BY <1>22 DEF LinkDump, AddDownFlow, At, Go, c, d
  <2>2. down[c] = <<e>>
    BY <1>2, <1>8, <1>19, <2>1 DEF ListOf
  <2>3. AddFlow(down[c], d) = <<e, d>>
    BY <1>19, <2>1, <2>2, AddToLists
  <2>4. down' = [down EXCEPT ![c] = <<e, d>>]
    BY <2>1, <2>3
  <2>5. \A f \in Flows : ListOf(f)' = IF f = c THEN <<e, d>> ELSE ListOf(f)
    BY <1>3, <1>8, <1>19, <2>1 DEF ListOf
  <2> QED
    BY <1>2, <1>3, <2>4, <2>5 DEF DownInv
<1>23. ASSUME NEW f \in Flows, Thread(f)
       PROVE  UNCHANGED <<mpc, handle, down>>
  BY <1>23, ThreadLeaves
<1>24. ASSUME NEW f \in Flows, Destructor(f), ~ Join(f)
       PROVE  UNCHANGED <<mpc, handle, down>>
  BY <1>24, DestructorLeaves DEF Destructor, StopAllThread, StreamOff, NotifyThread
<1>25. ASSUME NEW f \in Flows, Join(f)
       PROVE  DownInv'
  <2>1. UNCHANGED <<mpc, handle>> /\ down' = [down EXCEPT ![f] = <<>>]
    BY <1>25 DEF Join, main
  <2>2. handle[Kind(f)] # Session(f)
    <3>1. f \in Flows /\ life[f] # "alive"
      BY <1>25 DEF Join
    <3> QED
      BY <1>1, <1>3, <3>1, FlowPair DEF HeldInv, HandleOf
  <2>3. ListOf(f) = <<>>
    BY <1>25, <2>2 DEF ListOf
  <2>4. \A g \in Flows : ListOf(g)' = ListOf(g)
    BY <2>1 DEF ListOf
  <2> QED
    BY <1>2, <1>3, <1>25, <2>1, <2>3, <2>4 DEF DownInv
<1>26. CASE UNCHANGED graphVars
  BY <1>4, <1>26 DEF graphVars, main, refs
<1> QED
  BY <1>4, <1>6, <1>9, <1>10, <1>11, <1>13, <1>14, <1>15, <1>16, <1>17, <1>18,
     <1>20, <1>21, <1>22, <1>23, <1>24, <1>25, <1>26
     DEF GraphNext, Run, InitOrDeinit, Destructor
-----------------------------------------------------------------------------
(***************************************************************************)
(* FlowGraph: flows and their threads.                                     *)
(***************************************************************************)
\* What dropping pointers does to a flow: it is destroyed if it was alive and
\* nobody holds it, and left alone otherwise.
LEMMA Dropped ==
  ASSUME NEW t, NEW h, NEW d, NEW c, DropPointers(t, h, d, c), RefsTypeOK,
         NEW f \in Flows
  PROVE  /\ \/ life'[f] = life[f] /\ owner'[f] = owner[f]
            \/ /\ life[f] = "alive" /\ life'[f] = "stop" /\ owner'[f] = t
               /\ ~ Referenced(f, h, d, c)
         /\ life'[f] = "alive" => life[f] = "alive" /\ Referenced(f, h, d, c)
BY DEF DropPointers, RefsTypeOK

\* Once nobody in init_rtsp or deinit_rtsp is in a destructor any more and the
\* globals are reset, the three flows are gone, and not only dying: the capture
\* flow first, whose thread has then ended, and with it each flow below.
LEMMA AllGone ==
  ASSUME RefsTypeOK, MadeInv, CopyInv, HeldInv, ~ Busy(Main),
         handle["cap"] = 0, handle["enc"] = 0, handle["rtsp"] = 0,
         NEW f \in Flows, Kind(f) # "dump"
  PROVE  life[f] \in {"none", "dead"}
<1>1. ASSUME NEW g \in Flows, Kind(g) # "dump",
             Kind(g) \in {"enc", "rtsp"} => life[Upstream(g)] \in {"none", "dead"}
      PROVE  life[g] \in {"none", "dead"}
  <2>1. Kind(g) \in {"enc", "rtsp"} =>
          tpc[Upstream(g)] \in {"none", "done"} /\ flows[Upstream(g)] = <<>>
    BY <1>1, UpstreamFlow DEF MadeInv, CopyInv
  <2>2. ~ Copied(g)
    BY <2>1, RangeOfLists DEF Copied
  <2>3. handle[Kind(g)] # Session(g)
    BY <1>1, FlowPair, SessionNumber DEF Kinds
  <2>4. life[g] # "alive"
    BY <2>2, <2>3 DEF HeldInv
  <2>5. ~ Dying(g)
    BY <2>1 DEF HeldInv, Busy, Dying
  <2> QED
    BY <2>4, <2>5 DEF RefsTypeOK, Dying
<1>2. Kind(f) \in {"cap", "enc", "rtsp"}
  BY FlowPair DEF Kinds
<1>3. ASSUME NEW g \in Flows, Kind(g) = "cap"
      PROVE  life[g] \in {"none", "dead"}
  BY <1>1, <1>3
<1>4. ASSUME NEW g \in Flows, Kind(g) = "enc"
      PROVE  life[g] \in {"none", "dead"}
  BY <1>1, <1>3, <1>4, UpstreamFlow
<1> QED
  BY <1>1, <1>2, <1>3, <1>4, UpstreamFlow

\* Flows and threads come and go as init_rtsp and the destructors have it: when
\* a capture flow is made, those of the call before are gone.
LEMMA MadeStep ==
  ASSUME GraphInv, [GraphNext]_graphVars
  PROVE  MadeInv'
<1>1. /\ MainTypeOK /\ RefsTypeOK /\ ThreadsTypeOK
      /\ HandleInv /\ MadeInv /\ CopyInv /\ HeldInv
  BY DEF GraphInv, GraphTypeOK
<1>2. CASE UNCHANGED <<mpc, session, life, tpc>>
  BY <1>1, <1>2 DEF MadeInv, Made
<1>3. ASSUME UNCHANGED <<session, life>>,
             {mpc, mpc'} \cap {"createEnc", "createDump"} = {},
             \A g \in Flows : \/ tpc'[g] = tpc[g]
                              \/ tpc[g] = "waiting" /\ tpc'[g] = "test"
      PROVE  MadeInv'
  <2>1. \A g \in Flows : Made(g)' = Made(g)
    BY <1>3 DEF Made
  <2> QED
    BY <1>1, <1>3, <2>1 DEF MadeInv
<1>4. CASE CallInit
  BY <1>3, <1>4 DEF CallInit, refs, threads, At, Go
<1>5. CASE CallDeinit
  BY <1>3, <1>5 DEF CallDeinit, refs, threads, At, Go
<1>6. CASE UnlinkDump
  BY <1>3, <1>6 DEF UnlinkDump, RemoveDownFlow, At, Go
<1>7. CASE UnlinkEnc
  BY <1>3, <1>7 DEF UnlinkEnc, RemoveDownFlow, At, Go
<1>8. CASE UnlinkRtsp
  BY <1>3, <1>8 DEF UnlinkRtsp, RemoveDownFlow, At, Go
<1>9. ASSUME NEW k, NEW l, ResetHandle(k, l),
             {mpc, l} \cap {"createEnc", "createDump"} = {}
      PROVE  MadeInv'
  <2>1. UNCHANGED <<session, tpc>> /\ mpc' = l
    BY <1>9 DEF ResetHandle, threads, Go
  <2>2. \A g \in Flows : \/ life'[g] = life[g]
                         \/ life[g] = "alive" /\ life'[g] = "stop"
    BY <1>1, <1>9, Dropped DEF ResetHandle
  <2>3. \A g \in Flows : Made(g)' = Made(g)
    BY <1>9, <2>1 DEF Made
  <2> QED
    BY <1>1, <2>1, <2>2, <2>3 DEF MadeInv
<1>10. CASE ResetRtsp
  BY <1>9, <1>10 DEF ResetRtsp, At
<1>11. CASE ResetEnc
  BY <1>9, <1>11 DEF ResetEnc, At
<1>12. CASE ResetCap
  <2>1. ResetHandle("cap", "createCap") \/ ResetHandle("cap", "idle")
    BY <1>12 DEF ResetCap
  <2> QED
    BY <1>9, <1>12, <2>1 DEF ResetCap, At
<1>13. CASE CreateCap
  <2>1. CASE mpc' = "exit"
    BY <1>3, <1>13, <2>1 DEF CreateCap, refs, threads, At, Go
  <2>2. CASE mpc' # "exit"
    <3> DEFINE s == session + 1
               f == <<"cap", s>>
    <3>1. /\ mpc = "createCap" /\ ~ Busy(Main) /\ mpc' = "createEnc"
          /\ session' = s /\ life' = [life EXCEPT ![f] = "alive"]
          /\ tpc' = [tpc EXCEPT ![f] = "lock"]
      BY <1>13, <2>2 DEF CreateCap, At, Go
    <3>2. /\ s \in Sessions /\ session \in Int
          /\ handle["cap"] = 0 /\ handle["enc"] = 0 /\ handle["rtsp"] = 0
      BY <1>1, <3>1, SizesAssumption DEF MainTypeOK, HandleInv, Sessions
    <3>3. f \in Flows /\ Kind(f) = "cap" /\ Session(f) = s
      BY <3>2, PairFlow DEF Kinds
    <3>4. \A g \in Flows : Session(g) \in Int /\ g = <<Kind(g), Session(g)>>
      BY FlowPair, SessionNumber
    <3>5. \A g \in Flows : Session(g) <= session <=> Made(g)
      BY <3>1, <3>2, <3>4 DEF Made
    <3>6. \A g \in Flows : Made(g)' <=> Session(g) <= session \/ g = f
      BY <3>1, <3>2, <3>3, <3>4 DEF Made
    <3>7. \A g \in Flows : Session(g) <= session /\ Kind(g) # "dump" =>
            life[g] = "dead"
      BY <1>1, <3>1, <3>2, <3>5, AllGone DEF MadeInv
    <3> HIDE DEF s, f
    <3>8. \A g \in Flows : g # f => life'[g] = life[g] /\ tpc'[g] = tpc[g]
      BY <1>1, <3>1 DEF RefsTypeOK, ThreadsTypeOK
    <3>9. life'[f] = "alive" /\ tpc'[f] = "lock"
      BY <1>1, <3>1, <3>3 DEF RefsTypeOK, ThreadsTypeOK
    <3>10. \A g \in Flows : Session(g) < session' <=> Session(g) <= session
      BY <3>1, <3>2, <3>4 DEF s
    <3>11. \A g \in Flows : Session(g) <= session => g # f
      BY <3>2, <3>3 DEF s
    <3> QED
      BY <1>1, <3>3, <3>5, <3>6, <3>7, <3>8, <3>9, <3>10, <3>11 DEF MadeInv
  <2> QED
    BY <2>1, <2>2
<1>14. CASE CreateEnc
  <2> DEFINE new == {<<"enc", session>>, <<"rtsp", session>>}
  <2>1. /\ mpc = "createEnc" /\ mpc' = "createDump" /\ session' = session
        /\ life' = [f \in Flows |-> IF f \in new THEN "alive" ELSE life[f]]
        /\ tpc' = [f \in Flows |-> IF f \in new THEN "test" ELSE tpc[f]]
    BY <1>14 DEF CreateEnc, At, Go
  <2>2. \A g \in Flows :
          g \in new <=> Session(g) = session /\ Kind(g) \in {"enc", "rtsp"}
    BY FlowPair, PairFlow DEF Kinds
  <2> HIDE DEF new
  <2>3. \A g \in Flows : Made(g)' <=> Made(g) \/ g \in new
    BY <2>1, <2>2, FlowPair DEF Made, Kinds
  <2>4. \A g \in Flows : g \in new => ~ (Session(g) < session)
    BY <1>1, <2>2 DEF MainTypeOK
  <2> QED
    BY <1>1, <2>1, <2>3, <2>4 DEF MadeInv
<1>15. CASE CreateDump
  <2> DEFINE new == <<"dump", session>>
             old == HandleOf("dump")
  <2>1. /\ mpc = "createDump" /\ mpc' = "linkRtsp" /\ session' = session
        /\ life' = [f \in Flows |-> CASE f = new -> "alive"
                                      [] f = old -> "stop"
                                      [] OTHER -> life[f]]
        /\ tpc' = [tpc EXCEPT ![new] = "test"]
    BY <1>15 DEF CreateDump, At, Go
  <2>2. session \in Sessions /\ session \in Int /\ handle["dump"] = session - 1
    BY <1>1, <2>1, SizesAssumption DEF MainTypeOK, HandleInv, Sessions
  <2>3. \A g \in Flows : g = new <=> Session(g) = session /\ Kind(g) = "dump"
    BY <2>2, FlowPair, PairFlow DEF Kinds
  <2>4. new \in Flows
    BY <2>2, PairFlow DEF Kinds
  <2>5. \A g \in Flows : g = old =>
          life[g] = "alive" /\ Kind(g) = "dump" /\ g # new
    <3> SUFFICES ASSUME NEW g \in Flows, g = old
                 PROVE  life[g] = "alive" /\ Kind(g) = "dump" /\ g # new
      OBVIOUS
    <3>1. Kind(g) = "dump" /\ Session(g) = session - 1
      BY <2>2 DEF HandleOf, Kind, Session
    <3>2. handle["dump"] # 0
      BY <2>2, <3>1, FlowPair, SessionNumber
    <3>3. life[g] = "alive"
      BY <1>1, <3>2 DEF HeldInv, Kinds
    <3>4. g # new
      BY <2>2, <2>3, <3>1
    <3> QED
      BY <3>1, <3>3, <3>4
  <2> HIDE DEF new, old
  <2>6. \A g \in Flows : Made(g)' <=> Made(g) \/ g = new
    BY <2>1, <2>3 DEF Made
  <2>7. ~ (Session(new) < session)
    BY <2>2, <2>3, <2>4
  <2> QED
    BY <1>1, <2>1, <2>4, <2>5, <2>6, <2>7 DEF MadeInv, RefsTypeOK, ThreadsTypeOK
<1>16. CASE LinkRtsp
  BY <1>3, <1>16 DEF LinkRtsp, AddDownFlow, At, Go
<1>17. CASE LinkEnc
  BY <1>3, <1>17 DEF LinkEnc, AddDownFlow, At, Go
<1>18. CASE LinkDump
  BY <1>3, <1>18 DEF LinkDump, AddDownFlow, At, Go
<1>19. ASSUME UNCHANGED <<mpc, session, life>>, NEW f \in Flows, NEW l,
              l # "none", tpc[f] \notin {"none", "done"}, GoThread(f, l),
              l \in {"lock", "read", "dqbuf"} => Kind(f) = "cap"
       PROVE  MadeInv'
  <2>1. \A g \in Flows : Made(g)' = Made(g)
    BY <1>19 DEF Made
  <2>2. \A g \in Flows : tpc'[g] = IF g = f THEN l ELSE tpc[g]
    BY <1>1, <1>19 DEF GoThread, ThreadsTypeOK
  <2> QED
    BY <1>1, <1>19, <2>1, <2>2 DEF MadeInv
<1>20. ASSUME NEW f \in Flows, Thread(f)
       PROVE  MadeInv'
  <2>1. UNCHANGED <<mpc, session>>
    BY <1>20, ThreadLeaves
  <2>2. \A g \in Flows : Made(g)' = Made(g)
    BY <2>1 DEF Made
  <2>3. CASE SendDown(f)
    <3>1. UNCHANGED life
      BY <2>3 DEF SendDown, refs
    <3>2. \A g \in Flows : \/ tpc'[g] = tpc[g]
                           \/ tpc[g] = "waiting" /\ tpc'[g] = "take"
      BY <1>1, <2>3 DEF SendDown, ThreadsTypeOK
    <3> QED
      BY <1>1, <2>1, <2>2, <3>1, <3>2 DEF MadeInv
  <2>4. CASE DropCopy(f)
    <3>1. \A g \in Flows : \/ life'[g] = life[g]
                           \/ life[g] = "alive" /\ life'[g] = "stop"
      BY <1>1, <2>4, Dropped DEF DropCopy
    <3>2. /\ tpc[f] = "send"
          /\ \A g \in Flows : tpc'[g] = IF g = f THEN "reset" ELSE tpc[g]
      BY <1>1, <2>4 DEF DropCopy, Running, GoThread, ThreadsTypeOK
    <3> QED
      BY <1>1, <2>1, <2>2, <3>1, <3>2 DEF MadeInv
  <2>5. CASE ResetInput(f)
    BY <1>19, <2>1, <2>5 DEF ResetInput, Running, refs
  <2>6. CASE StartCond(f)
    BY <1>19, <2>1, <2>6 DEF StartCond, refs
  <2>7. CASE TestLoop(f)
    BY <1>19, <2>1, <2>7 DEF TestLoop, Running, refs
  <2>8. CASE Read(f)
    BY <1>1, <1>19, <2>1, <2>8 DEF Read, refs, MadeInv
  <2>9. CASE Dqbuf(f)
    BY <1>19, <2>1, <2>9 DEF Dqbuf, PassOn, refs
  <2>10. CASE DqbufFails(f)
    BY <1>19, <2>1, <2>10 DEF DqbufFails, PassOn, refs
  <2>11. CASE WhileRun(f)
    BY <1>19, <2>1, <2>11 DEF WhileRun, Running, refs
  <2>12. CASE FetchInput(f)
    BY <1>19, <2>1, <2>12 DEF FetchInput, refs
  <2>13. CASE FetchAndProcess(f)
    BY <1>19, <2>1, <2>13 DEF FetchAndProcess, refs
  <2> QED
    BY <1>20, <2>3, <2>4, <2>5, <2>6, <2>7, <2>8, <2>9, <2>10, <2>11, <2>12,
       <2>13 DEF Thread
<1>21. ASSUME NEW f \in Flows, Destructor(f)
       PROVE  MadeInv'
  <2>1. UNCHANGED <<mpc, session>>
    BY <1>21, DestructorLeaves
  <2>2. \A g \in Flows : Made(g)' = Made(g)
    BY <2>1 DEF Made
  <2>3. CASE StopAllThread(f)
    BY <1>1, <2>1, <2>2, <2>3
       DEF StopAllThread, Advance, threads, MadeInv, RefsTypeOK
  <2>4. CASE StreamOff(f)
    BY <1>1, <2>1, <2>2, <2>4
       DEF StreamOff, Advance, threads, MadeInv, RefsTypeOK
  <2>5. CASE NotifyThread(f)
    BY <1>1, <2>1, <2>2, <2>5
       DEF NotifyThread, Advance, MadeInv, RefsTypeOK, ThreadsTypeOK
  <2>6. CASE Join(f)
    BY <1>1, <2>1, <2>2, <2>6 DEF Join, Advance, threads, MadeInv, RefsTypeOK
  <2> QED
    BY <1>21, <2>3, <2>4, <2>5, <2>6 DEF Destructor
<1>22. CASE UNCHANGED graphVars
  BY <1>2, <1>22 DEF graphVars, main, refs, threads
<1> QED
  BY <1>4, <1>5, <1>6, <1>7, <1>8, <1>10, <1>11, <1>12, <1>13, <1>14, <1>15,
     <1>16, <1>17, <1>18, <1>20, <1>21, <1>22
     DEF GraphNext, Run, InitOrDeinit
-----------------------------------------------------------------------------
(***************************************************************************)
(* FlowGraph: the copy a thread sends from.                                *)
(***************************************************************************)
\* RunOnce may copy any list the flow has.
LEMMA ListIsCopy ==
  ASSUME DownInv, NEW f \in Flows
  PROVE  down[f] \in CopiesOf(f)
BY DEF DownInv, ListOf, CopiesOf

\* There is always an empty list to go back to.
LEMMA EmptyIsCopy ==
  ASSUME NEW f \in Flows
  PROVE  <<>> \in CopiesOf(f)
BY DEF CopiesOf

\* The actions of init_rtsp and deinit_rtsp change no copy ...
LEMMA MainLeaves ==
  ASSUME CallInit \/ CallDeinit \/ InitOrDeinit
  PROVE  UNCHANGED <<flows, next>>
BY DEF CallInit, CallDeinit, InitOrDeinit, UnlinkDump, UnlinkEnc, UnlinkRtsp,
       RemoveDownFlow, ResetRtsp, ResetEnc, ResetCap, ResetHandle, CreateCap,
       CreateEnc, CreateDump, LinkRtsp, LinkEnc, LinkDump, AddDownFlow, threads

\* ... and wake at most a thread that waits.
LEMMA MainWakes ==
  ASSUME MainTypeOK, ThreadsTypeOK, MadeInv,
         CallInit \/ CallDeinit \/ InitOrDeinit,
         NEW g \in Flows
  PROVE  /\ tpc'[g] \in {"send", "reset"} <=> tpc[g] \in {"send", "reset"}
         /\ tpc[g] \in {"send", "reset"} => tpc'[g] = tpc[g]
<1> USE DEF ThreadsTypeOK
<1>1. CASE UNCHANGED tpc
  BY <1>1
<1>2. CASE CallInit \/ CallDeinit
  BY <1>1, <1>2 DEF CallInit, CallDeinit, threads
<1>3. CASE UnlinkDump \/ UnlinkEnc \/ UnlinkRtsp
  BY <1>3 DEF UnlinkDump, UnlinkEnc, UnlinkRtsp, RemoveDownFlow
<1>4. CASE ResetRtsp \/ ResetEnc \/ ResetCap
  BY <1>1, <1>4 DEF ResetRtsp, ResetEnc, ResetCap, ResetHandle, threads
<1>5. CASE CreateCap
  <2>1. CASE mpc' = "exit"
    BY <1>1, <1>5, <2>1 DEF CreateCap, Go, threads
  <2>2. CASE mpc' # "exit"
    <3> DEFINE f == <<"cap", session + 1>>
    <3>1. /\ mpc = "createCap"
          /\ tpc' = [tpc EXCEPT ![f] = "lock"]
      BY <1>5, <2>2 DEF CreateCap, At, Go
    <3>2. g = f => tpc[g] = "none"
      <4>1. g = f => Session(g) = session + 1
        BY DEF Session
      <4>2. Session(g) = session + 1 => ~ Made(g)
        BY FlowPair, SessionNumber DEF Made, MainTypeOK
      <4> QED
        BY <4>1, <4>2 DEF MadeInv
    <3> HIDE DEF f
    <3> QED
      BY <3>1, <3>2
  <2> QED
    BY <2>1, <2>2
<1>6. CASE CreateEnc
  <2> DEFINE new == {<<"enc", session>>, <<"rtsp", session>>}
  <2>1. /\ mpc = "createEnc"
        /\ tpc' = [f \in Flows |-> IF f \in new THEN "test" ELSE tpc[f]]
    BY <1>6 DEF CreateEnc, At, Go
  <2>2. g \in new => tpc[g] = "none"
    <3>1. g \in new => Session(g) = session /\ Kind(g) # "cap"
      BY DEF Session, Kind
    <3>2. g \in new => ~ Made(g)
      BY <2>1, <3>1, FlowPair, SessionNumber DEF Made
    <3> QED
      BY <3>2 DEF MadeInv
  <2> HIDE DEF new
  <2> QED
    BY <2>1, <2>2
<1>7. CASE CreateDump
  <2> DEFINE new == <<"dump", session>>
  <2>1. /\ mpc = "createDump"
        /\ tpc' = [tpc EXCEPT ![new] = "test"]
    BY <1>7 DEF CreateDump, At, Go
  <2>2. g = new => tpc[g] = "none"
    <3>1. g = new => Session(g) = session /\ Kind(g) = "dump"
      BY DEF Session, Kind
    <3>2. g = new => ~ Made(g)
      BY <2>1, <3>1, FlowPair, SessionNumber DEF Made
    <3> QED
      BY <3>2 DEF MadeInv
  <2> HIDE DEF new
  <2> QED
    BY <2>1, <2>2
<1>8. CASE LinkRtsp \/ LinkEnc \/ LinkDump
  BY <1>8 DEF LinkRtsp, LinkEnc, LinkDump, AddDownFlow
<1> QED
  BY <1>2, <1>3, <1>4, <1>5, <1>6, <1>7, <1>8 DEF InitOrDeinit

\* Neither do the destructors.
LEMMA DestructorWakes ==
  ASSUME ThreadsTypeOK, NEW f \in Flows, Destructor(f), NEW g \in Flows
  PROVE  /\ tpc'[g] \in {"send", "reset"} <=> tpc[g] \in {"send", "reset"}
         /\ tpc[g] \in {"send", "reset"} => tpc'[g] = tpc[g]
BY DEF Destructor, StopAllThread, StreamOff, NotifyThread, Join, threads,
       ThreadsTypeOK

\* A thread that has tested, read or waited goes on by itself, holding nothing.
LEMMA ThreadGoes ==
  ASSUME ThreadsTypeOK, NEW f \in Flows,
         \/ StartCond(f) \/ TestLoop(f) \/ Read(f) \/ WhileRun(f) \/ FetchInput(f)
         \/ ResetInput(f)
  PROVE  /\ UNCHANGED <<mpc, session, handle, life, owner, down, flows, next>>
         /\ tpc[f] # "send" /\ tpc'[f] \notin {"send", "reset"}
         /\ tpc[f] = "reset" => ResetInput(f)
         /\ \A g \in Flows : g # f => tpc'[g] = tpc[g]
BY DEF StartCond, TestLoop, Read, WhileRun, FetchInput, ResetInput, Running,
       GoThread, main, refs, ThreadsTypeOK

\* A thread that has something to pass on, or nothing to wait for any more, gets
\* a copy of the list; it had none.
LEMMA ThreadCopies ==
  ASSUME ThreadsTypeOK, NEW f \in Flows,
         Dqbuf(f) \/ DqbufFails(f) \/ FetchAndProcess(f)
  PROVE  /\ UNCHANGED <<mpc, session, handle, life, owner, down>>
         /\ tpc[f] \in {"dqbuf", "take"}
         /\ \/ UNCHANGED flows /\ tpc'[f] # "send"
            \/ flows' = [flows EXCEPT ![f] = down[f]] /\ tpc'[f] = "send"
         /\ \A g \in Flows : g # f => tpc'[g] = tpc[g]
<1>1. CASE Dqbuf(f) \/ DqbufFails(f)
  BY <1>1 DEF Dqbuf, DqbufFails, PassOn, CopyFlows, GoThread, main, refs,
              ThreadsTypeOK
<1>2. CASE FetchAndProcess(f)
  BY <1>2 DEF FetchAndProcess, CopyFlows, GoThread, main, refs, ThreadsTypeOK
<1> QED
  BY <1>1, <1>2

\* The copy is filled where RunOnce begins and emptied where it ends.
LEMMA CopyStep ==
  ASSUME GraphInv, [GraphNext]_graphVars
  PROVE  CopyInv'
<1>1. MainTypeOK /\ ThreadsTypeOK /\ MadeInv /\ DownInv /\ CopyInv
  BY DEF GraphInv, GraphTypeOK
<1>2. ASSUME UNCHANGED flows,
             \A g \in Flows : tpc[g] = "send" => tpc'[g] = "send"
      PROVE  CopyInv'
  BY <1>1, <1>2 DEF CopyInv, CopiesOf
<1>3. CASE CallInit \/ CallDeinit \/ InitOrDeinit
  BY <1>1, <1>2, <1>3, MainLeaves, MainWakes
<1>4. ASSUME NEW f \in Flows, Destructor(f)
      PROVE  CopyInv'
  BY <1>1, <1>2, <1>4, DestructorLeaves, DestructorWakes
<1>5. ASSUME NEW f \in Flows, Thread(f)
      PROVE  CopyInv'
  <2>1. CASE SendDown(f)
    BY <1>1, <1>2, <2>1 DEF SendDown, ThreadsTypeOK
  <2>2. CASE DropCopy(f)
    <3>1. /\ flows' = [flows EXCEPT ![f] = <<>>]
          /\ \A g \in Flows : g # f => tpc'[g] = tpc[g]
      BY <1>1, <2>2 DEF DropCopy, GoThread, ThreadsTypeOK
    <3> QED
      BY <1>1, <3>1, EmptyIsCopy DEF CopyInv, CopiesOf, ThreadsTypeOK
  <2>3. CASE \/ StartCond(f) \/ TestLoop(f) \/ Read(f) \/ WhileRun(f)
             \/ FetchInput(f) \/ ResetInput(f)
    BY <1>1, <1>2, <2>3, ThreadGoes
  <2>4. CASE Dqbuf(f) \/ DqbufFails(f) \/ FetchAndProcess(f)
    <3>1. /\ tpc[f] \in {"dqbuf", "take"}
          /\ \/ UNCHANGED flows /\ tpc'[f] # "send"
             \/ flows' = [flows EXCEPT ![f] = down[f]] /\ tpc'[f] = "send"
          /\ \A g \in Flows : g # f => tpc'[g] = tpc[g]
      BY <1>1, <2>4, ThreadCopies
    <3> QED
      BY <1>1, <1>2, <3>1, ListIsCopy DEF CopyInv, CopiesOf, ThreadsTypeOK
  <2> QED
    BY <1>5, <2>1, <2>2, <2>3, <2>4 DEF Thread
<1>6. CASE UNCHANGED graphVars
  BY <1>2, <1>6 DEF graphVars, threads
<1> QED
  BY <1>3, <1>4, <1>5, <1>6 DEF GraphNext, Run
-----------------------------------------------------------------------------
(***************************************************************************)
(* FlowGraph: who holds a flow.                                            *)
(***************************************************************************)
\* A capture or dump flow is held by its global alone.
LEMMA OnlyHandle ==
  ASSUME HeldInv, NEW f \in Flows, life[f] = "alive",
         Kind(f) \notin {"enc", "rtsp"}
  PROVE  handle[Kind(f)] = Session(f)
BY DEF HeldInv, Copied

\* A flow that is held by anything is held by its global or by its upstream
\* flow's copy.
LEMMA Holders ==
  ASSUME MainTypeOK, HandleInv, DownInv, CopyInv, HeldInv,
         NEW f \in Flows, life[f] = "alive", Referenced(f, handle, down, flows)
  PROVE  handle[Kind(f)] = Session(f) \/ Copied(f)
BY DEF HeldInv

\* Who holds a flow keeps it alive, and who drops the last pointer stays where
\* it is until the destructor has run.
LEMMA HeldStep ==
  ASSUME GraphInv, [GraphNext]_graphVars
  PROVE  HeldInv'
<1>1. /\ MainTypeOK /\ RefsTypeOK /\ ThreadsTypeOK
      /\ HandleInv /\ DownInv /\ MadeInv /\ CopyInv /\ HeldInv
  BY DEF GraphInv, GraphTypeOK
<1>2. ASSUME UNCHANGED <<handle, life, owner, flows>>,
             \A g \in Flows : tpc[g] = "reset" => tpc'[g] = "reset"
      PROVE  HeldInv'
  BY <1>1, <1>2, UpstreamFlow DEF HeldInv, Copied, Dying, HandleOf
<1>3. ASSUME CallInit \/ CallDeinit \/ InitOrDeinit,
             UNCHANGED <<handle, life, owner>>
      PROVE  HeldInv'
  BY <1>1, <1>2, <1>3, MainLeaves, MainWakes
<1>4. CASE CallInit \/ CallDeinit
  BY <1>3, <1>4 DEF CallInit, CallDeinit, refs
<1>5. CASE UnlinkDump \/ UnlinkEnc \/ UnlinkRtsp
  BY <1>3, <1>5 DEF UnlinkDump, UnlinkEnc, UnlinkRtsp, RemoveDownFlow, InitOrDeinit
<1>6. CASE LinkRtsp \/ LinkEnc \/ LinkDump
  BY <1>3, <1>6 DEF LinkRtsp, LinkEnc, LinkDump, AddDownFlow, InitOrDeinit
<1>7. ASSUME NEW k \in {"rtsp", "enc", "cap"}, NEW l, ResetHandle(k, l),
             mpc \in {"resetRtsp", "resetEnc", "resetCap"}
      PROVE  HeldInv'
  <2>1. /\ handle' = [handle EXCEPT ![k] = 0]
        /\ DropPointers(Main, handle', down, flows)
        /\ UNCHANGED <<tpc, flows>>
    BY <1>7 DEF ResetHandle, threads
  <2>2. \A g \in Flows : down[g] = <<>>
    BY <1>1, <1>7, NoLists
  <2>3. \A g \in Flows :
          /\ \/ life'[g] = life[g] /\ owner'[g] = owner[g]
             \/ /\ life[g] = "alive" /\ life'[g] = "stop" /\ owner'[g] = Main
                /\ ~ Referenced(g, handle', down, flows)
          /\ life'[g] = "alive" =>
               life[g] = "alive" /\ Referenced(g, handle', down, flows)
    BY <1>1, <2>1, Dropped
  <2>4. \A g \in Flows : Referenced(g, handle', down, flows) <=>
          handle'[Kind(g)] = Session(g) \/ \E u \in Flows : g \in Range(flows[u])
    BY <2>2, RangeOfLists DEF Referenced
  <2>5. \A j \in Kinds : handle'[j] = IF j = k THEN 0 ELSE handle[j]
    BY <1>1, <2>1 DEF MainTypeOK
  <2>6. ASSUME NEW j \in Kinds, handle'[j] # 0
        PROVE  life'[HandleOf(j)'] = "alive"
    <3>1. /\ HandleOf(j)' = HandleOf(j) /\ HandleOf(j) \in Flows
          /\ Kind(HandleOf(j)) = j /\ Session(HandleOf(j)) = handle'[j]
          /\ life[HandleOf(j)] = "alive"
      BY <1>1, <2>5, <2>6, HandleFlow DEF HandleOf, HeldInv
    <3> QED
      BY <2>3, <2>4, <3>1
  <2>7. ASSUME NEW u \in Flows, NEW g \in Flows, g \in Range(flows[u])
        PROVE  life'[g] = "alive"
    BY <1>1, <2>3, <2>4, <2>7 DEF HeldInv
  <2>8. ASSUME NEW g \in Flows, life'[g] = "alive"
        PROVE  handle'[Kind(g)] = Session(g) \/ Copied(g)
    <3>1. life[g] = "alive"
      BY <2>3, <2>8
    <3>2. CASE Kind(g) = "dump"
      BY <1>1, <2>5, <3>1, <3>2, OnlyHandle DEF Kinds
    <3>3. ASSUME Kind(g) # "dump", NEW u \in Flows, g \in Range(flows[u])
          PROVE  Copied(g)
      BY <1>1, <3>3, CopyNames DEF Copied
    <3> QED
      BY <2>3, <2>4, <2>8, <3>2, <3>3
  <2>9. \A g \in Flows : Copied(g)' = Copied(g)
    BY <2>1 DEF Copied
  <2>10. ASSUME NEW g \in Flows, Dying(g)'
         PROVE  \/ owner'[g] = Main
                \/ /\ Kind(g) \in {"enc", "rtsp"} /\ owner'[g] = Upstream(g)
                   /\ tpc'[Upstream(g)] = "reset"
    BY <1>1, <2>1, <2>3, <2>10 DEF HeldInv, Dying
  <2> QED
    BY <2>1, <2>6, <2>7, <2>8, <2>9, <2>10 DEF HeldInv
<1>8. CASE ResetRtsp \/ ResetEnc \/ ResetCap
  <2>1. mpc \in {"resetRtsp", "resetEnc", "resetCap"}
    BY <1>8 DEF ResetRtsp, ResetEnc, ResetCap, At
  <2>2. \E l : ResetHandle("rtsp", l) \/ ResetHandle("enc", l) \/ ResetHandle("cap", l)
    BY <1>8 DEF ResetRtsp, ResetEnc, ResetCap
  <2> QED
    BY <1>7, <2>1, <2>2
<1>9. CASE CreateCap
  <2>1. CASE mpc' = "exit"
    BY <1>3, <1>9, <2>1 DEF CreateCap, refs, Go, InitOrDeinit
  <2>2. CASE mpc' # "exit"
    <3> DEFINE s == session + 1
               f == <<"cap", s>>
    <3>1. /\ mpc = "createCap" /\ handle' = [handle EXCEPT !["cap"] = s]
          /\ life' = [life EXCEPT ![f] = "alive"]
          /\ tpc' = [tpc EXCEPT ![f] = "lock"]
          /\ UNCHANGED <<owner, flows>>
      BY <1>9, <2>2 DEF CreateCap, At, Go
    <3>2. s \in Sessions /\ handle["cap"] = 0
      BY <1>1, <3>1, SizesAssumption DEF MainTypeOK, HandleInv, Sessions
    <3>3. f \in Flows /\ Kind(f) = "cap" /\ Session(f) = s
      BY <3>2, PairFlow DEF Kinds
    <3>4. life[f] = "none" /\ tpc[f] = "none"
      BY <1>1, <3>3 DEF MadeInv, Made, MainTypeOK
    <3> HIDE DEF s, f
    <3>5. \A g \in Flows : life'[g] = IF g = f THEN "alive" ELSE life[g]
      BY <1>1, <3>1 DEF RefsTypeOK
    <3>6. \A g \in Flows : tpc[g] = "reset" => tpc'[g] = "reset"
      BY <1>1, <3>1, <3>4 DEF ThreadsTypeOK
    <3>7. \A k \in Kinds : handle'[k] = IF k = "cap" THEN s ELSE handle[k]
      BY <1>1, <3>1 DEF MainTypeOK
    <3>8. \A k \in Kinds : k # "cap" => HandleOf(k)' = HandleOf(k)
      BY <3>7 DEF HandleOf
    <3>9. HandleOf("cap")' = f
      BY <3>3, <3>7, FlowPair DEF HandleOf, Kinds
    <3>10. ASSUME NEW k \in Kinds, handle'[k] # 0
           PROVE  life'[HandleOf(k)'] = "alive"
      <4>1. CASE k = "cap"
        BY <3>3, <3>5, <3>9, <4>1
      <4>2. CASE k # "cap"
        BY <1>1, <3>5, <3>7, <3>8, <3>10, <4>2, HandleFlow DEF HeldInv
      <4> QED
        BY <4>1, <4>2
    <3>11. \A g \in Flows : Copied(g)' = Copied(g)
      BY <3>1 DEF Copied
    <3>12. ASSUME NEW g \in Flows, life'[g] = "alive"
           PROVE  handle'[Kind(g)] = Session(g) \/ Copied(g)
      BY <1>1, <3>2, <3>3, <3>4, <3>5, <3>7, <3>12, FlowPair, SessionNumber
         DEF HeldInv
    <3>13. ASSUME NEW g \in Flows, Dying(g)'
           PROVE  \/ owner'[g] = Main
                  \/ /\ Kind(g) \in {"enc", "rtsp"} /\ owner'[g] = Upstream(g)
                     /\ tpc'[Upstream(g)] = "reset"
      BY <1>1, <3>1, <3>5, <3>6, <3>13, UpstreamFlow DEF HeldInv, Dying
    <3>14. ASSUME NEW u \in Flows, NEW g \in Flows, g \in Range(flows[u])
           PROVE  life'[g] = "alive"
      BY <1>1, <3>5, <3>14 DEF HeldInv
    <3> QED
      BY <3>1, <3>10, <3>11, <3>12, <3>13, <3>14 DEF HeldInv
  <2> QED
    BY <2>1, <2>2
<1>10. CASE CreateEnc
  <2> DEFINE new == {<<"enc", session>>, <<"rtsp", session>>}
  <2>1. /\ mpc = "createEnc"
        /\ life' = [f \in Flows |-> IF f \in new THEN "alive" ELSE life[f]]
        /\ tpc' = [f \in Flows |-> IF f \in new THEN "test" ELSE tpc[f]]
        /\ handle' = [handle EXCEPT !["enc"] = session, !["rtsp"] = session]
        /\ UNCHANGED <<owner, flows>>
    BY <1>10 DEF CreateEnc, At, Go
  <2>2. session \in Sessions /\ handle["enc"] = 0 /\ handle["rtsp"] = 0
    BY <1>1, <2>1, SizesAssumption DEF MainTypeOK, HandleInv, Sessions
  <2>3. \A g \in Flows :
          g \in new <=> Session(g) = session /\ Kind(g) \in {"enc", "rtsp"}
    BY <2>2, FlowPair, PairFlow DEF Kinds
  <2>4. <<"enc", session>> \in Flows /\ <<"rtsp", session>> \in Flows
    BY <2>2, PairFlow DEF Kinds
  <2>5. \A g \in Flows : g \in new => life[g] = "none" /\ tpc[g] = "none"
    BY <1>1, <2>1, <2>2, <2>3, SessionNumber DEF MadeInv, Made
  <2>6. \A k \in Kinds : handle'[k] = IF k \in {"enc", "rtsp"} THEN session
                                      ELSE handle[k]
    BY <1>1, <2>1 DEF MainTypeOK
  <2>7. ASSUME NEW k \in Kinds, handle'[k] # 0
        PROVE  life'[HandleOf(k)'] = "alive"
    <3>1. CASE k \in {"enc", "rtsp"}
      <4>1. HandleOf(k)' \in new /\ HandleOf(k)' \in Flows
        BY <2>4, <2>6, <3>1 DEF HandleOf, Kinds
      <4> QED
        BY <2>1, <4>1
    <3>2. CASE k \notin {"enc", "rtsp"}
      <4>1. HandleOf(k)' = HandleOf(k) /\ handle[k] # 0
        BY <2>6, <2>7, <3>2 DEF HandleOf
      <4> HIDE DEF new
      <4> QED
        BY <1>1, <2>1, <4>1, HandleFlow DEF HeldInv
    <3> QED
      BY <3>1, <3>2
  <2> HIDE DEF new
  <2>8. \A g \in Flows : Copied(g)' = Copied(g)
    BY <2>1 DEF Copied
  <2>9. ASSUME NEW g \in Flows, life'[g] = "alive"
        PROVE  handle'[Kind(g)] = Session(g) \/ Copied(g)
    <3>1. CASE g \in new
      BY <2>3, <2>6, <3>1, FlowPair
    <3>2. CASE g \notin new
      <4>1. life[g] = "alive"
        BY <2>1, <2>9, <3>2
      <4>2. Session(g) # 0 /\ Kind(g) \in Kinds
        BY FlowPair, SessionNumber
      <4>3. handle[Kind(g)] = Session(g) \/ Copied(g)
        BY <1>1, <4>1 DEF HeldInv
      <4> QED
        BY <2>2, <2>6, <4>2, <4>3
    <3> QED
      BY <3>1, <3>2
  <2>10. ASSUME NEW g \in Flows, Dying(g)'
         PROVE  \/ owner'[g] = Main
                \/ /\ Kind(g) \in {"enc", "rtsp"} /\ owner'[g] = Upstream(g)
                   /\ tpc'[Upstream(g)] = "reset"
    <3>1. Dying(g) /\ owner'[g] = owner[g]
      BY <2>1, <2>10 DEF Dying
    <3>2. tpc[Upstream(g)] = "reset" => tpc'[Upstream(g)] = "reset"
      BY <2>1, <2>5, UpstreamFlow
    <3> QED
      BY <1>1, <3>1, <3>2 DEF HeldInv
  <2>11. ASSUME NEW u \in Flows, NEW g \in Flows, g \in Range(flows[u])
         PROVE  life'[g] = "alive"
    BY <1>1, <2>1, <2>11 DEF HeldInv
  <2> QED
    BY <2>1, <2>7, <2>8, <2>9, <2>10, <2>11 DEF HeldInv
<1>11. CASE CreateDump
  <2> DEFINE new == <<"dump", session>>
             old == HandleOf("dump")
  <2>1. /\ mpc = "createDump"
        /\ life' = [f \in Flows |-> CASE f = new -> "alive"
                                      [] f = old -> "stop"
                                      [] OTHER -> life[f]]
        /\ owner' = [f \in Flows |-> IF f = old THEN Main ELSE owner[f]]
        /\ tpc' = [tpc EXCEPT ![new] = "test"]
        /\ handle' = [handle EXCEPT !["dump"] = session]
        /\ UNCHANGED flows
    BY <1>11 DEF CreateDump, At, Go
  <2>2. session \in Sessions /\ session \in Int /\ handle["dump"] = session - 1
    BY <1>1, <2>1, SizesAssumption DEF MainTypeOK, HandleInv, Sessions
  <2>3. new \in Flows /\ Kind(new) = "dump" /\ Session(new) = session
    BY <2>2, PairFlow DEF Kinds
  <2>4. life[new] = "none" /\ tpc[new] = "none"
    BY <1>1, <2>1, <2>2, <2>3, SessionNumber DEF MadeInv, Made
  <2>5. \A g \in Flows :
          g = old <=> Kind(g) = "dump" /\ Session(g) = session - 1
    <3>1. old = <<"dump", session - 1>>
      BY <2>2 DEF HandleOf
    <3> QED
      BY <3>1, FlowPair DEF Kind, Session
  <2>6. HandleOf("dump")' = new
    BY <1>1, <2>1 DEF HandleOf, MainTypeOK, Kinds
  <2> HIDE DEF new, old
  <2>7. new # old
    BY <2>2, <2>3, <2>5
  <2>8. \A g \in Flows : life'[g] = IF g = new THEN "alive"
                                    ELSE IF g = old THEN "stop" ELSE life[g]
    BY <2>1, <2>7
  <2>9. \A k \in Kinds : handle'[k] = IF k = "dump" THEN session ELSE handle[k]
    BY <1>1, <2>1 DEF MainTypeOK
  <2>10. ASSUME NEW k \in Kinds, handle'[k] # 0
         PROVE  life'[HandleOf(k)'] = "alive"
    <3>1. CASE k = "dump"
      BY <2>3, <2>6, <2>8, <3>1
    <3>2. CASE k # "dump"
      <4>1. HandleOf(k)' = HandleOf(k) /\ handle[k] # 0
        BY <2>9, <2>10, <3>2 DEF HandleOf
      <4>2. HandleOf(k) # old
        BY <1>1, <2>5, <3>2, <4>1, HandleFlow
      <4> QED
        BY <1>1, <2>8, <4>1, <4>2, HandleFlow DEF HeldInv
    <3> QED
      BY <3>1, <3>2
  <2>11. \A g \in Flows : Copied(g)' = Copied(g)
    BY <2>1 DEF Copied
  <2>12. ASSUME NEW g \in Flows, life'[g] = "alive"
         PROVE  handle'[Kind(g)] = Session(g) \/ Copied(g)
    <3>1. CASE g = new
      BY <2>3, <2>9, <3>1, FlowPair
    <3>2. CASE g # new
      <4>1. life[g] = "alive" /\ g # old
        BY <2>8, <2>12, <3>2
      <4>2. Kind(g) # "dump"
        BY <1>1, <2>2, <2>5, <4>1, OnlyHandle
      <4> QED
        BY <1>1, <2>9, <4>1, <4>2, FlowPair DEF HeldInv
    <3> QED
      BY <3>1, <3>2
  <2>13. ASSUME NEW g \in Flows, Dying(g)'
         PROVE  \/ owner'[g] = Main
                \/ /\ Kind(g) \in {"enc", "rtsp"} /\ owner'[g] = Upstream(g)
                   /\ tpc'[Upstream(g)] = "reset"
    <3>1. \/ owner'[g] = Main
          \/ Dying(g) /\ owner'[g] = owner[g]
      BY <2>1, <2>8, <2>13 DEF Dying
    <3>2. tpc[Upstream(g)] = "reset" => tpc'[Upstream(g)] = "reset"
      BY <1>1, <2>1, <2>4, UpstreamFlow DEF ThreadsTypeOK
    <3> QED
      BY <1>1, <3>1, <3>2 DEF HeldInv
  <2>14. ASSUME NEW u \in Flows, NEW g \in Flows, g \in Range(flows[u])
         PROVE  life'[g] = "alive"
    <3>1. life[g] = "alive"
      BY <1>1, <2>14 DEF HeldInv
    <3>2. g # old
      <4> SUFFICES ASSUME g = old PROVE FALSE
        OBVIOUS
      <4>1. Kind(u) = "cap" /\ Session(u) = session - 1 /\ tpc[u] = "send"
        BY <1>1, <2>5, <2>14, CopyNames
      <4>2. life[u] = "dead"
        BY <1>1, <2>2, <4>1 DEF MadeInv
      <4> QED
        BY <1>1, <4>1, <4>2 DEF MadeInv
    <3> QED
      BY <2>8, <3>1, <3>2
  <2> QED
    BY <2>1, <2>10, <2>11, <2>12, <2>13, <2>14 DEF HeldInv
<1>12. ASSUME NEW f \in Flows, Thread(f)
       PROVE  HeldInv'
  <2>1. CASE SendDown(f)
    BY <1>1, <1>2, <2>1 DEF SendDown, main, refs, ThreadsTypeOK
  <2>2. CASE DropCopy(f)
    <3>1. /\ flows' = [flows EXCEPT ![f] = <<>>]
          /\ DropPointers(f, handle, down, flows')
          /\ tpc' = [tpc EXCEPT ![f] = "reset"] /\ tpc[f] = "send"
          /\ UNCHANGED <<handle, down>>
      BY <2>2 DEF DropCopy, GoThread, Running, main
    <3>2. \A g \in Flows :
            /\ \/ life'[g] = life[g] /\ owner'[g] = owner[g]
               \/ /\ life[g] = "alive" /\ life'[g] = "stop" /\ owner'[g] = f
                  /\ ~ Referenced(g, handle, down, flows')
            /\ life'[g] = "alive" =>
                 life[g] = "alive" /\ Referenced(g, handle, down, flows')
      BY <1>1, <3>1, Dropped
    <3>3. \A g \in Flows : flows'[g] = IF g = f THEN <<>> ELSE flows[g]
      BY <1>1, <3>1 DEF ThreadsTypeOK
    <3>4. \A g \in Flows : tpc'[g] = IF g = f THEN "reset" ELSE tpc[g]
      BY <1>1, <3>1 DEF ThreadsTypeOK
    <3>5. ASSUME NEW k \in Kinds, handle'[k] # 0
          PROVE  life'[HandleOf(k)'] = "alive"
      <4>1. /\ HandleOf(k)' = HandleOf(k) /\ HandleOf(k) \in Flows
            /\ life[HandleOf(k)] = "alive"
        BY <1>1, <3>1, <3>5, HandleFlow DEF HandleOf, HeldInv
      <4>2. Referenced(HandleOf(k), handle, down, flows')
        BY <1>1, <3>1, <3>5, HandleFlow DEF Referenced
      <4> QED
        BY <3>2, <4>1, <4>2
    <3>6. ASSUME NEW u \in Flows, NEW g \in Flows, g \in Range(flows'[u])
          PROVE  life'[g] = "alive"
      <4>1. g \in Range(flows[u])
        BY <3>3, <3>6, RangeOfLists
      <4>2. Referenced(g, handle, down, flows')
        BY <3>6 DEF Referenced
      <4> QED
        BY <1>1, <3>2, <4>1, <4>2 DEF HeldInv
    <3>7. ASSUME NEW g \in Flows, life'[g] = "alive"
          PROVE  handle[Kind(g)] = Session(g) \/ Copied(g)'
      <4>1. life[g] = "alive" /\ Referenced(g, handle, down, flows')
        BY <3>2, <3>7
      <4>2. ASSUME NEW u \in Flows, g \in Range(down[u])
            PROVE  handle[Kind(g)] = Session(g)
        BY <1>1, <4>2, DownHeld
      <4>3. CASE Kind(g) \notin {"enc", "rtsp"}
        BY <1>1, <4>1, <4>3, OnlyHandle
      <4>4. ASSUME Kind(g) \in {"enc", "rtsp"},
                   NEW u \in Flows, g \in Range(flows'[u])
            PROVE  Copied(g)'
        <5>1. g \in Range(flows[u])
          BY <3>3, <4>4, RangeOfLists
        <5>2. u = Upstream(g)
          BY <1>1, <4>4, <5>1, CopyNames
        <5> QED
          BY <4>4, <5>2 DEF Copied
      <4> QED
        BY <4>1, <4>2, <4>3, <4>4 DEF Referenced
    <3>8. ASSUME NEW g \in Flows, Dying(g)'
          PROVE  \/ owner'[g] = Main
                 \/ /\ Kind(g) \in {"enc", "rtsp"} /\ owner'[g] = Upstream(g)
                    /\ tpc'[Upstream(g)] = "reset"
      <4>1. CASE life'[g] = life[g] /\ owner'[g] = owner[g]
        BY <1>1, <3>4, <3>8, <4>1, UpstreamFlow DEF HeldInv, Dying
      <4>2. CASE /\ life[g] = "alive" /\ owner'[g] = f
                 /\ ~ Referenced(g, handle, down, flows')
        <5>1. Copied(g)
          BY <1>1, <4>2 DEF HeldInv, Referenced
        <5>2. Upstream(g) = f
          BY <3>3, <4>2, <5>1, UpstreamFlow DEF Copied, Referenced
        <5> QED
          BY <3>4, <4>2, <5>1, <5>2 DEF Copied
      <4> QED
        BY <3>2, <4>1, <4>2
    <3> QED
      BY <3>1, <3>5, <3>6, <3>7, <3>8 DEF HeldInv
  <2>3. CASE \/ StartCond(f) \/ TestLoop(f) \/ Read(f) \/ WhileRun(f)
             \/ FetchInput(f)
    <3>1. tpc[f] # "reset"
      BY <2>3 DEF StartCond, TestLoop, Read, WhileRun, FetchInput, Running
    <3> QED
      BY <1>1, <1>2, <2>3, <3>1, ThreadGoes
  <2>4. CASE ResetInput(f)
    <3>1. /\ UNCHANGED <<handle, life, owner, flows>> /\ ~ Busy(f)
          /\ \A g \in Flows : g # f => tpc'[g] = tpc[g]
      BY <1>1, <2>4, ThreadGoes DEF ResetInput, Running
    <3>2. \A g \in Flows : Dying(g) => owner[g] # f
      BY <3>1 DEF Busy, Dying
    <3>3. ASSUME NEW g \in Flows, Dying(g)
          PROVE  \/ owner[g] = Main
                 \/ /\ Kind(g) \in {"enc", "rtsp"} /\ owner[g] = Upstream(g)
                    /\ tpc'[Upstream(g)] = "reset"
      BY <1>1, <3>1, <3>2, <3>3, UpstreamFlow DEF HeldInv
    <3> QED
      BY <1>1, <3>1, <3>3 DEF HeldInv, Copied, Dying, HandleOf
  <2>5. CASE Dqbuf(f) \/ DqbufFails(f) \/ FetchAndProcess(f)
    <3>1. /\ UNCHANGED <<handle, life, owner>>
          /\ tpc[f] \in {"dqbuf", "take"}
          /\ \/ UNCHANGED flows
             \/ flows' = [flows EXCEPT ![f] = down[f]]
          /\ \A g \in Flows : g # f => tpc'[g] = tpc[g]
      BY <1>1, <2>5, ThreadCopies
    <3>2. \A g \in Flows : tpc[g] = "reset" => tpc'[g] = "reset"
      BY <3>1
    <3>3. CASE UNCHANGED flows
      BY <1>2, <3>1, <3>2, <3>3
    <3>4. CASE flows' = [flows EXCEPT ![f] = down[f]]
      <4>1. \A g \in Flows : flows'[g] = IF g = f THEN down[f] ELSE flows[g]
        BY <1>1, <3>4 DEF ThreadsTypeOK
      <4>2. flows[f] = <<>>
        BY <1>1, <3>1 DEF CopyInv
      <4>3. ASSUME NEW u \in Flows, NEW g \in Flows, g \in Range(flows'[u])
            PROVE  life[g] = "alive"
        <5>1. CASE u = f
          <6>1. handle[Kind(g)] = Session(g)
            BY <1>1, <4>1, <4>3, <5>1, DownHeld
          <6> QED
            BY <1>1, <6>1, FlowPair, SessionNumber DEF HeldInv, HandleOf
        <5>2. CASE u # f
          BY <1>1, <4>1, <4>3, <5>2 DEF HeldInv
        <5> QED
          BY <5>1, <5>2
      <4>4. \A g \in Flows : Copied(g) => Copied(g)'
        BY <4>1, <4>2, RangeOfLists, UpstreamFlow DEF Copied
      <4>5. ASSUME NEW g \in Flows, Dying(g)
            PROVE  \/ owner[g] = Main
                   \/ /\ Kind(g) \in {"enc", "rtsp"} /\ owner[g] = Upstream(g)
                      /\ tpc'[Upstream(g)] = "reset"
        BY <1>1, <3>2, <4>5, UpstreamFlow DEF HeldInv
      <4> QED
        BY <1>1, <3>1, <4>3, <4>4, <4>5 DEF HeldInv, Dying, HandleOf
    <3> QED
      BY <3>1, <3>3, <3>4
  <2> QED
    BY <1>12, <2>1, <2>2, <2>3, <2>4, <2>5 DEF Thread
<1>13. ASSUME NEW f \in Flows, Destructor(f)
       PROVE  HeldInv'
  <2>1. /\ UNCHANGED <<handle, flows>>
        /\ \A g \in Flows : tpc[g] = "reset" => tpc'[g] = "reset"
    BY <1>1, <1>13, DestructorLeaves, DestructorWakes
  <2>2. /\ life[f] \in {"stop", "off", "notify", "join"}
        /\ \A g \in Flows : g # f => life'[g] = life[g] /\ owner'[g] = owner[g]
        /\ life'[f] \in {"off", "notify", "join", "dead"}
        /\ life'[f] # "dead" => owner'[f] = owner[f]
    BY <1>1, <1>13 DEF Destructor, StopAllThread, StreamOff, NotifyThread, Join,
                       Advance, RefsTypeOK
  <2>3. \A g \in Flows : life[g] = "alive" <=> life'[g] = "alive"
    BY <2>2
  <2>4. ASSUME NEW k \in Kinds, handle'[k] # 0
        PROVE  life'[HandleOf(k)'] = "alive"
    BY <1>1, <2>1, <2>3, <2>4, HandleFlow DEF HeldInv, HandleOf
  <2>5. ASSUME NEW g \in Flows, Dying(g)'
        PROVE  \/ owner'[g] = Main
               \/ /\ Kind(g) \in {"enc", "rtsp"} /\ owner'[g] = Upstream(g)
                  /\ tpc'[Upstream(g)] = "reset"
    <3>1. Dying(g) /\ owner'[g] = owner[g]
      BY <2>2, <2>5 DEF Dying
    <3> QED
      BY <1>1, <2>1, <3>1, UpstreamFlow DEF HeldInv
  <2>6. \A g \in Flows : Copied(g)' = Copied(g)
    BY <2>1 DEF Copied
  <2> QED
    BY <1>1, <2>1, <2>3, <2>4, <2>5, <2>6 DEF HeldInv
<1>14. CASE UNCHANGED graphVars
  BY <1>2, <1>14 DEF graphVars, main, refs, threads
<1> QED
  BY <1>4, <1>5, <1>6, <1>8, <1>9, <1>10, <1>11, <1>12, <1>13, <1>14
     DEF GraphNext, Run, InitOrDeinit
-----------------------------------------------------------------------------
(***************************************************************************)
(* FlowGraph: types.                                                       *)
(***************************************************************************)
\* The lists of the pipeline are lists of flows.
LEMMA ListTypes ==
  ASSUME NEW s \in Sessions
  PROVE  /\ <<>> \in Seq(Flows) /\ << <<"enc", s>> >> \in Seq(Flows)
         /\ << <<"rtsp", s>> >> \in Seq(Flows)
         /\ << <<"enc", s>>, <<"dump", s>> >> \in Seq(Flows)
<1>1. /\ <<"enc", s>> \in Flows /\ <<"dump", s>> \in Flows
      /\ <<"rtsp", s>> \in Flows
  BY PairFlow DEF Kinds
<1> QED
  BY <1>1

\* Destructors begin and end with whoever drops the last pointer.
LEMMA RefsTypes ==
  ASSUME GraphInv, [GraphNext]_graphVars
  PROVE  RefsTypeOK'
<1>1. RefsTypeOK /\ MainTypeOK
  BY DEF GraphInv, GraphTypeOK
<1>2. down' \in [Flows -> Seq(Flows)]
  <2>1. \A f \in Flows : ListOf(f)' \in Seq(Flows)
    BY FlowPair, ListTypes DEF ListOf
  <2> QED
    BY <2>1, DownStep DEF DownInv
<1> USE DEF RefsTypeOK
<1>3. CASE UNCHANGED <<life, owner>>
  BY <1>1, <1>2, <1>3
<1>4. ASSUME NEW t \in Flows \cup {Main}, NEW h, NEW d, NEW c,
             DropPointers(t, h, d, c)
      PROVE  RefsTypeOK'
  BY <1>1, <1>2, <1>4 DEF DropPointers
<1>5. CASE CallInit \/ CallDeinit
  BY <1>3, <1>5 DEF CallInit, CallDeinit, refs
<1>6. CASE UnlinkDump \/ UnlinkEnc \/ UnlinkRtsp
  BY <1>3, <1>6 DEF UnlinkDump, UnlinkEnc, UnlinkRtsp, RemoveDownFlow
<1>7. CASE ResetRtsp \/ ResetEnc \/ ResetCap
  BY <1>4, <1>7 DEF ResetRtsp, ResetEnc, ResetCap, ResetHandle
<1>8. CASE CreateCap
  <2>1. owner' = owner
    BY <1>8 DEF CreateCap, refs
  <2>2. life' = life \/ \E f : life' = [life EXCEPT ![f] = "alive"]
    BY <1>8 DEF CreateCap, refs
  <2> QED
    BY <1>1, <1>2, <2>1, <2>2
<1>9. CASE CreateEnc
  BY <1>1, <1>2, <1>9 DEF CreateEnc
<1>10. CASE CreateDump
  BY <1>1, <1>2, <1>10 DEF CreateDump
<1>11. CASE LinkRtsp \/ LinkEnc \/ LinkDump
  BY <1>3, <1>11 DEF LinkRtsp, LinkEnc, LinkDump, AddDownFlow
<1>12. ASSUME NEW f \in Flows, Thread(f)
       PROVE  RefsTypeOK'
  <2>1. CASE DropCopy(f)
    BY <1>4, <2>1 DEF DropCopy
  <2>2. CASE ~ DropCopy(f)
    BY <1>3, <1>12, <2>2
       DEF Thread, SendDown, ResetInput, StartCond, TestLoop, Read, Dqbuf,
           DqbufFails, WhileRun, FetchInput, FetchAndProcess, refs
  <2> QED
    BY <2>1, <2>2
<1>13. ASSUME NEW f \in Flows, Destructor(f)
       PROVE  RefsTypeOK'
  BY <1>1, <1>2, <1>13
     DEF Destructor, StopAllThread, StreamOff, NotifyThread, Join, Advance
<1>14. CASE UNCHANGED graphVars
  BY <1>3, <1>14 DEF graphVars, refs
<1> QED
  BY <1>5, <1>6, <1>7, <1>8, <1>9, <1>10, <1>11, <1>12, <1>13, <1>14
     DEF GraphNext, Run, InitOrDeinit

\* Threads go from label to label, and from one flow of a copy to the next.
LEMMA ThreadTypes ==
  ASSUME GraphInv, [GraphNext]_graphVars
  PROVE  ThreadsTypeOK'
<1>1. ThreadsTypeOK /\ RefsTypeOK
  BY DEF GraphInv, GraphTypeOK
<1> USE DEF ThreadsTypeOK
<1>2. CASE UNCHANGED threads
  BY <1>1, <1>2 DEF threads
<1>3. CASE CallInit \/ CallDeinit
  BY <1>2, <1>3 DEF CallInit, CallDeinit
<1>4. CASE UnlinkDump \/ UnlinkEnc \/ UnlinkRtsp
  BY <1>1, <1>4 DEF UnlinkDump, UnlinkEnc, UnlinkRtsp, RemoveDownFlow
<1>5. CASE ResetRtsp \/ ResetEnc \/ ResetCap
  BY <1>2, <1>5 DEF ResetRtsp, ResetEnc, ResetCap, ResetHandle
<1>6. CASE CreateCap
  <2>1. UNCHANGED <<flows, next>>
    BY <1>6 DEF CreateCap, threads
  <2>2. tpc' = tpc \/ \E f : tpc' = [tpc EXCEPT ![f] = "lock"]
    BY <1>6 DEF CreateCap, threads
  <2> QED
    BY <1>1, <2>1, <2>2
<1>7. CASE CreateEnc
  BY <1>1, <1>7 DEF CreateEnc
<1>8. CASE CreateDump
  BY <1>1, <1>8 DEF CreateDump
<1>9. CASE LinkRtsp \/ LinkEnc \/ LinkDump
  BY <1>1, <1>9 DEF LinkRtsp, LinkEnc, LinkDump, AddDownFlow
<1>10. ASSUME NEW f \in Flows, NEW l, GoThread(f, l),
              l \in {"test", "dqbuf", "read", "done", "waiting", "send", "fetch",
                     "take", "reset"}
       PROVE  tpc' \in [Flows -> {"none", "lock", "waiting", "test", "read",
                                  "dqbuf", "fetch", "take", "send", "reset",
                                  "done"}]
  BY <1>1, <1>10 DEF GoThread
<1>11. ASSUME NEW f \in Flows, Thread(f)
       PROVE  ThreadsTypeOK'
  <2>1. CASE SendDown(f)
    <3>1. UNCHANGED flows /\ next' = [next EXCEPT ![f] = @ + 1]
      BY <2>1 DEF SendDown
    <3>2. tpc' = tpc \/ \E d : tpc' = [tpc EXCEPT ![d] = "take"]
      BY <2>1 DEF SendDown
    <3>3. next[f] + 1 \in Nat \ {0}
      BY <1>1, <1>11
    <3>4. next' \in [Flows -> Nat \ {0}]
      BY <1>1, <3>1, <3>3
    <3> QED
      BY <1>1, <3>1, <3>2, <3>4
  <2>2. CASE DropCopy(f)
    BY <1>1, <1>10, <2>2 DEF DropCopy
  <2>3. CASE \/ StartCond(f) \/ TestLoop(f) \/ Read(f) \/ WhileRun(f)
             \/ FetchInput(f) \/ ResetInput(f)
    <3>1. UNCHANGED <<flows, next>>
      BY <1>1, <2>3, ThreadGoes
    <3>2. CASE StartCond(f)
      BY <1>1, <1>10, <3>1, <3>2 DEF StartCond
    <3>3. CASE TestLoop(f)
      BY <1>1, <1>10, <3>1, <3>3 DEF TestLoop
    <3>4. CASE Read(f)
      BY <1>1, <1>10, <3>1, <3>4 DEF Read
    <3>5. CASE WhileRun(f)
      BY <1>1, <1>10, <3>1, <3>5 DEF WhileRun
    <3>6. CASE FetchInput(f)
      BY <1>1, <1>10, <3>1, <3>6 DEF FetchInput
    <3>7. CASE ResetInput(f)
      BY <1>1, <1>10, <3>1, <3>7 DEF ResetInput
    <3> QED
      BY <2>3, <3>2, <3>3, <3>4, <3>5, <3>6, <3>7
  <2>4. ASSUME NEW b, PassOn(f, b), UNCHANGED next
        PROVE  ThreadsTypeOK'
    <3>1. flows' \in [Flows -> Seq(Flows)]
      BY <1>1, <2>4 DEF PassOn, CopyFlows, RefsTypeOK
    <3> QED
      BY <1>1, <1>10, <2>4, <3>1 DEF PassOn
  <2>5. CASE Dqbuf(f)
    BY <2>4, <2>5 DEF Dqbuf
  <2>6. CASE DqbufFails(f)
    BY <2>4, <2>6 DEF DqbufFails
  <2>7. CASE FetchAndProcess(f)
    <3>1. next' \in {next, [next EXCEPT ![f] = Len(down[f]) + 1]}
      BY <2>7 DEF FetchAndProcess
    <3>2. Len(down[f]) + 1 \in Nat \ {0}
      <4>1. down[f] \in Seq(Flows)
        BY <1>1 DEF RefsTypeOK
      <4> QED
        BY <4>1, LenProperties
    <3>3. next' \in [Flows -> Nat \ {0}]
      BY <1>1, <3>1, <3>2
    <3>4. flows' = flows \/ flows' = [flows EXCEPT ![f] = down[f]]
      BY <2>7 DEF FetchAndProcess, CopyFlows
    <3>5. flows' \in [Flows -> Seq(Flows)]
      BY <1>1, <3>4 DEF RefsTypeOK
    <3> QED
      BY <1>1, <1>10, <2>7, <3>3, <3>5 DEF FetchAndProcess
  <2> QED
    BY <1>11, <2>1, <2>2, <2>3, <2>5, <2>6, <2>7 DEF Thread
<1>12. ASSUME NEW f \in Flows, Destructor(f)
       PROVE  ThreadsTypeOK'
  BY <1>1, <1>12
     DEF Destructor, StopAllThread, StreamOff, NotifyThread, Join, threads
<1>13. CASE UNCHANGED graphVars
  BY <1>2, <1>13 DEF graphVars
<1> QED
  BY <1>3, <1>4, <1>5, <1>6, <1>7, <1>8, <1>9, <1>11, <1>12, <1>13
     DEF GraphNext, Run, InitOrDeinit
-----------------------------------------------------------------------------
(***************************************************************************)
(* FlowGraph: frames and the camera.                                       *)
(***************************************************************************)
\* The flow a thread sends to is alive, and of its own session.
LEMMA TargetFound ==
  ASSUME ThreadsTypeOK, CopyInv, HeldInv,
         NEW f \in Flows, NEW i \in Nat \ {0}, i <= Len(flows[f])
  PROVE  /\ flows[f][i] \in Flows /\ life[flows[f][i]] = "alive"
         /\ Session(flows[f][i]) = Session(f)
<1>1. flows[f] \in Seq(Flows)
  BY DEF ThreadsTypeOK
<1>2. i \in DOMAIN flows[f]
  BY <1>1, LenProperties
<1>3. flows[f][i] \in Flows /\ flows[f][i] \in Range(flows[f])
  BY <1>1, <1>2, LenProperties DEF Range
<1> QED
  BY <1>3, CopyNames DEF HeldInv

\* A push puts one frame, or none, into the queue of a flow that is alive, and
\* the frame is of the flow's session.
LEMMA Sent ==
  ASSUME GraphInv, NEW f \in Flows, SendDown(f)
  PROVE  /\ hand' = hand /\ cached' \in [Flows -> Seq(Items)]
         /\ \E d \in Flows, b \in Items :
              /\ life[d] = "alive" /\ (b # NoFrame => Session(b) = Session(d))
              /\ \A g \in Flows : g # d => cached'[g] = cached[g]
              /\ Range(cached'[d]) \subseteq Range(cached[d]) \cup {b}
<1>1. /\ RefsTypeOK /\ ThreadsTypeOK /\ FramesTypeOK /\ CopyInv /\ HeldInv
      /\ CameraInv
  BY DEF GraphInv, GraphTypeOK
<1> DEFINE d == flows[f][next[f]]
           b == ToSend(f)
<1>2. next[f] \in Nat \ {0} /\ next[f] <= Len(flows[f])
  BY <1>1 DEF SendDown, ThreadsTypeOK
<1>3. d \in Flows /\ life[d] = "alive" /\ Session(d) = Session(f)
  BY <1>1, <1>2, TargetFound
<1>4. ~ Stopped(d)
  BY <1>3 DEF Stopped
<1>5. cached' = Pushed(d, b) /\ hand' = hand
  BY <1>4 DEF SendDown, DropFrames
<1>6. b \in Items /\ (b # NoFrame => Session(b) = Session(d))
  BY <1>1, <1>3 DEF ToSend, FramesTypeOK, CameraInv, Items
<1> HIDE DEF d, b
<1> DEFINE q == cached[d]
<1>7. q \in Seq(Items)
  BY <1>1, <1>3 DEF FramesTypeOK
<1>8. CASE Kind(d) = "enc" /\ Len(q) >= EncCache
  <2>1. cached' = [cached EXCEPT ![d] = Append(Tail(q), b)]
    BY <1>5, <1>8 DEF Pushed
  <2>2. q # <<>>
    <3>1. Len(q) # 0
      BY <1>8, SizesAssumption
    <3> QED
      BY <3>1
  <2> HIDE DEF q
  <2>3. Tail(q) \in Seq(Items) /\ Range(Tail(q)) \subseteq Range(q)
    BY <1>7, <2>2, RangeOfTail, HeadTailProperties
  <2>4. /\ Append(Tail(q), b) \in Seq(Items)
        /\ Range(Append(Tail(q), b)) \subseteq Range(q) \cup {b}
    <3> DEFINE t == Tail(q)
    <3>1. t \in Seq(Items) /\ Range(t) \subseteq Range(q)
      BY <2>3
    <3> HIDE DEF t
    <3>2. Append(t, b) \in Seq(Items) /\ Range(Append(t, b)) = Range(t) \cup {b}
      BY <1>6, <3>1, RangeOfAppend, AppendProperties
    <3>3. /\ Append(t, b) \in Seq(Items)
          /\ Range(Append(t, b)) \subseteq Range(q) \cup {b}
      BY <3>1, <3>2
    <3> QED
      BY <3>3 DEF t
  <2>5. /\ cached' \in [Flows -> Seq(Items)]
        /\ \A g \in Flows : g # d => cached'[g] = cached[g]
        /\ Range(cached'[d]) \subseteq Range(q) \cup {b}
    BY <1>1, <1>3, <2>1, <2>4 DEF FramesTypeOK
  <2> QED
    BY <1>3, <1>5, <1>6, <2>5 DEF q
<1>9. CASE ~ (Kind(d) = "enc" /\ Len(q) >= EncCache)
  <2>1. cached' = [cached EXCEPT ![d] = Append(q, b)]
    BY <1>5, <1>9 DEF Pushed
  <2> HIDE DEF q
  <2>2. /\ Append(q, b) \in Seq(Items)
        /\ Range(Append(q, b)) \subseteq Range(q) \cup {b}
    BY <1>6, <1>7, RangeOfAppend, AppendProperties
  <2>3. /\ cached' \in [Flows -> Seq(Items)]
        /\ \A g \in Flows : g # d => cached'[g] = cached[g]
        /\ Range(cached'[d]) \subseteq Range(q) \cup {b}
    BY <1>1, <1>3, <2>1, <2>2 DEF FramesTypeOK
  <2> QED
    BY <1>3, <1>5, <1>6, <2>3 DEF q
<1> QED
  BY <1>8, <1>9

\* A pop moves the front of the queue into the in_vector.
LEMMA Taken ==
  ASSUME FramesTypeOK, NEW f \in Flows, FetchAndProcess(f),
         cached[f] # <<>>, ~ Stopped(f)
  PROVE  /\ FramesTypeOK'
         /\ \A g \in Flows :
              g # f => cached'[g] = cached[g] /\ hand'[g] = hand[g]
         /\ Range(cached'[f]) \cup {hand'[f]} \subseteq Range(cached[f])
<1>1. /\ cached' = [cached EXCEPT ![f] = Tail(@)]
      /\ hand' = [hand EXCEPT ![f] = Head(cached[f])]
  BY DEF FetchAndProcess, DropFrames
<1>2. cached[f] \in Seq(Items)
  BY DEF FramesTypeOK
<1>3. /\ Tail(cached[f]) \in Seq(Items) /\ Head(cached[f]) \in Items
      /\ Head(cached[f]) \in Range(cached[f])
      /\ Range(Tail(cached[f])) \subseteq Range(cached[f])
  BY <1>2, RangeOfTail, HeadTailProperties
<1> QED
  BY <1>1, <1>3 DEF FramesTypeOK

\* What the thread of a capture flow reads: a frame of its session that is in
\* the driver, or none.  The flow holds no frame but that.
LEMMA Passed ==
  ASSUME FramesTypeOK, ThreadsTypeOK, MadeInv, NEW f \in Flows,
         Dqbuf(f) \/ DqbufFails(f)
  PROVE  /\ Kind(f) = "cap" /\ life[f] # "dead" /\ life[f] # "none"
         /\ UNCHANGED <<cached, device>>
         /\ \E b \in Items :
              /\ b # NoFrame => Session(b) = Session(f)
              /\ hand' = hand \/ hand' = [hand EXCEPT ![f] = b]
<1>1. tpc[f] = "dqbuf" /\ UNCHANGED <<cached, device>>
  BY DEF Dqbuf, DqbufFails, camera
<1>2. Kind(f) = "cap" /\ life[f] # "dead" /\ life[f] # "none"
  BY <1>1 DEF MadeInv
<1>3. ASSUME NEW b, PassOn(f, b)
      PROVE  hand' = hand \/ hand' = [hand EXCEPT ![f] = b]
  BY <1>3 DEF PassOn
<1>4. CASE Dqbuf(f)
  <2> DEFINE D == InDriver(Session(f))
             c == CHOOSE b \in D : TRUE
  <2>1. D # {} /\ (PassOn(f, c) \/ PassOn(f, NoFrame))
    BY <1>4 DEF Dqbuf
  <2>2. c \in D
    BY <2>1
  <2>3. c \in Items /\ Session(c) = Session(f)
    BY <2>2 DEF InDriver, Items
  <2>4. NoFrame \in Items
    BY DEF Items
  <2> HIDE DEF c, D
  <2> QED
    BY <1>1, <1>2, <1>3, <2>1, <2>3, <2>4
<1>5. CASE DqbufFails(f)
  <2>1. PassOn(f, NoFrame) /\ NoFrame \in Items
    BY <1>5 DEF DqbufFails, Items
  <2> QED
    BY <1>1, <1>2, <1>3, <2>1
<1> QED
  BY <1>4, <1>5

\* All other steps but these leave frames, queues and the device alone.
LEMMA FramesStay ==
  ASSUME [GraphNext]_graphVars,
         ~ (\E f \in Flows :
              \/ SendDown(f) \/ ResetInput(f) \/ Dqbuf(f) \/ DqbufFails(f)
              \/ FetchAndProcess(f) \/ Join(f))
  PROVE  UNCHANGED <<cached, hand>> /\ (CreateCap \/ UNCHANGED device)
<1>1. CASE CallInit \/ CallDeinit
  BY <1>1 DEF CallInit, CallDeinit, camera
<1>2. CASE InitOrDeinit
  BY <1>2 DEF InitOrDeinit, UnlinkDump, UnlinkEnc, UnlinkRtsp, RemoveDownFlow,
       ResetRtsp, ResetEnc, ResetCap, ResetHandle, CreateCap, CreateEnc,
       CreateDump, LinkRtsp, LinkEnc, LinkDump, AddDownFlow, camera
<1>3. ASSUME NEW f \in Flows, Thread(f)
      PROVE  UNCHANGED <<cached, hand, device>>
  BY <1>3 DEF Thread, DropCopy, StartCond, TestLoop, Read, WhileRun, FetchInput,
              camera
<1>4. ASSUME NEW f \in Flows, Destructor(f)
      PROVE  UNCHANGED <<cached, hand, device>>
  BY <1>4 DEF Destructor, StopAllThread, StreamOff, NotifyThread, camera
<1>5. CASE UNCHANGED graphVars
  BY <1>5 DEF graphVars, camera
<1> QED
  BY <1>1, <1>2, <1>3, <1>4, <1>5 DEF GraphNext, Run

\* Frames go from the camera through the queues and back.
LEMMA FrameTypes ==
  ASSUME GraphInv, [GraphNext]_graphVars
  PROVE  FramesTypeOK'
<1>1. FramesTypeOK /\ ThreadsTypeOK /\ MadeInv
  BY DEF GraphInv, GraphTypeOK
<1>2. CASE UNCHANGED <<cached, hand>>
  BY <1>1, <1>2 DEF FramesTypeOK
<1>3. NoFrame \in Items
  BY DEF Items
<1>4. ASSUME NEW f \in Flows, SendDown(f)
      PROVE  FramesTypeOK'
  BY <1>1, <1>4, Sent DEF FramesTypeOK
<1>5. ASSUME NEW f \in Flows, ResetInput(f)
      PROVE  FramesTypeOK'
  BY <1>1, <1>3, <1>5 DEF ResetInput, DropFrames, FramesTypeOK
<1>6. ASSUME NEW f \in Flows, Dqbuf(f) \/ DqbufFails(f)
      PROVE  FramesTypeOK'
  BY <1>1, <1>6, Passed DEF FramesTypeOK
<1>7. ASSUME NEW f \in Flows, FetchAndProcess(f)
      PROVE  FramesTypeOK'
  <2>1. CASE cached[f] # <<>> /\ ~ Stopped(f)
    BY <1>1, <1>7, <2>1, Taken
  <2>2. CASE cached[f] = <<>> \/ Stopped(f)
    BY <1>2, <1>7, <2>2 DEF FetchAndProcess
  <2> QED
    BY <2>1, <2>2
<1>8. ASSUME NEW f \in Flows, Join(f)
      PROVE  FramesTypeOK'
  <2>1. /\ cached' = [cached EXCEPT ![f] = <<>>]
        /\ hand' = [hand EXCEPT ![f] = NoFrame]
    BY <1>8 DEF Join, DropFrames
  <2>2. <<>> \in Seq(Items)
    OBVIOUS
  <2> QED
    BY <1>1, <1>3, <2>1, <2>2 DEF FramesTypeOK
<1> QED
  BY <1>2, <1>4, <1>5, <1>6, <1>7, <1>8, FramesStay

\* The device of a session is opened once and closed once.
LEMMA DeviceTypes ==
  ASSUME GraphInv, [GraphNext]_graphVars
  PROVE  device' \in [Sessions -> {"none", "open", "closed"}]
<1>1. device \in [Sessions -> {"none", "open", "closed"}]
  BY DEF GraphInv, GraphTypeOK, CameraTypeOK
<1>2. ASSUME NEW q, NEW i, NEW l, DropFrames(q, i, l)
      PROVE  device' \in [Sessions -> {"none", "open", "closed"}]
  BY <1>1, <1>2 DEF DropFrames
<1>3. ASSUME NEW f \in Flows,
             \/ SendDown(f) \/ ResetInput(f) \/ Dqbuf(f) \/ DqbufFails(f)
             \/ FetchAndProcess(f) \/ Join(f)
      PROVE  device' \in [Sessions -> {"none", "open", "closed"}]
  BY <1>1, <1>2, <1>3
     DEF SendDown, ResetInput, Dqbuf, DqbufFails, FetchAndProcess, Join, camera
<1>4. CASE CreateCap
  <2>1. device' = device \/ \E s : device' = [device EXCEPT ![s] = "open"]
    BY <1>4 DEF CreateCap, camera
  <2> QED
    BY <1>1, <2>1
<1> QED
  BY <1>1, <1>3, <1>4, FramesStay

\* The rest of the camera's state.
LEMMA CameraTypes ==
  ASSUME GraphInv, [GraphNext]_graphVars
  PROVE  CameraTypeOK'
<1>1. CameraTypeOK /\ MainTypeOK /\ HandleInv
  BY DEF GraphInv, GraphTypeOK
<1>2. device' \in [Sessions -> {"none", "open", "closed"}]
  BY DeviceTypes
<1> USE DEF CameraTypeOK
<1>3. CASE UNCHANGED <<streaming, started, frames, late>>
  BY <1>1, <1>2, <1>3
<1>4. CASE CallInit \/ CallDeinit
  BY <1>3, <1>4 DEF CallInit, CallDeinit, camera
<1>5. CASE InitOrDeinit /\ ~ CreateCap
  BY <1>3, <1>5 DEF InitOrDeinit, UnlinkDump, UnlinkEnc, UnlinkRtsp,
       RemoveDownFlow, ResetRtsp, ResetEnc, ResetCap, ResetHandle, CreateEnc,
       CreateDump, LinkRtsp, LinkEnc, LinkDump, AddDownFlow, camera
<1>6. CASE CreateCap
  <2>1. CASE mpc' = "exit"
    BY <1>3, <1>6, <2>1 DEF CreateCap, camera, Go
  <2>2. CASE mpc' # "exit"
    <3> DEFINE s == session + 1
    <3>1. /\ mpc = "createCap" /\ UNCHANGED <<streaming, started, late>>
          /\ \E n \in {0, MaxFrames[s]} : frames' = [frames EXCEPT ![s] = n]
      BY <1>6, <2>2 DEF CreateCap, At, Go
    <3>2. s \in Sessions
      BY <1>1, <3>1, SizesAssumption DEF MainTypeOK, HandleInv, Sessions
    <3>3. MaxFrames[s] \in Nat
      BY <3>2, SizesAssumption DEF Sessions
    <3> HIDE DEF s
    <3>4. frames' \in [Sessions -> Nat]
      <4>1. PICK n \in {0, MaxFrames[s]} : frames' = [frames EXCEPT ![s] = n]
        BY <3>1
      <4>2. n \in Nat
        BY <3>3
      <4> QED
        BY <1>1, <4>1, <4>2
    <3> QED
      BY <1>1, <1>2, <3>1, <3>4
  <2> QED
    BY <2>1, <2>2
<1>7. ASSUME NEW f \in Flows, Thread(f)
      PROVE  CameraTypeOK'
  <2>1. CASE Read(f)
    BY <1>1, <1>2, <1>7, <2>1 DEF Read
  <2>2. CASE Dqbuf(f)
    <3>1. /\ UNCHANGED <<streaming, started, late>> /\ frames[Session(f)] > 0
          /\ frames' = [frames EXCEPT ![Session(f)] = @ - 1]
      BY <2>2 DEF Dqbuf
    <3>2. frames[Session(f)] - 1 \in Nat
      BY <1>1, <1>7, <3>1, FlowPair
    <3>3. frames' \in [Sessions -> Nat]
      BY <1>1, <3>1, <3>2
    <3> QED
      BY <1>1, <1>2, <3>1, <3>3
  <2>3. CASE FetchInput(f)
    BY <1>1, <1>2, <1>7, <2>3 DEF FetchInput
  <2>4. CASE ~ (Read(f) \/ Dqbuf(f) \/ FetchInput(f))
    BY <1>3, <1>7, <2>4
       DEF Thread, SendDown, DropCopy, ResetInput, StartCond, TestLoop,
           DqbufFails, WhileRun, FetchAndProcess, camera
  <2> QED
    BY <2>1, <2>2, <2>3, <2>4
<1>8. ASSUME NEW f \in Flows, Destructor(f)
      PROVE  CameraTypeOK'
  <2>1. CASE StopAllThread(f) \/ NotifyThread(f)
    BY <1>3, <2>1 DEF StopAllThread, NotifyThread, camera
  <2>2. CASE StreamOff(f)
    BY <1>1, <1>2, <2>2 DEF StreamOff
  <2>3. CASE Join(f)
    <3>1. late' \subseteq Flows
      BY <1>1, <2>3 DEF Join
    <3>2. CASE Kind(f) = "cap"
      <4>1. /\ streaming' = [streaming EXCEPT ![Session(f)] = FALSE]
            /\ started' = [started EXCEPT ![Session(f)] = FALSE]
            /\ frames' = [frames EXCEPT ![Session(f)] = 0]
        BY <2>3, <3>2 DEF Join
      <4> QED
        BY <1>1, <1>2, <3>1, <4>1
    <3>3. CASE Kind(f) # "cap"
      <4>1. UNCHANGED <<streaming, started, frames>>
        BY <2>3, <3>3 DEF Join
      <4> QED
        BY <1>1, <1>2, <3>1, <4>1
    <3> QED
      BY <3>2, <3>3
  <2> QED
    BY <1>8, <2>1, <2>2, <2>3 DEF Destructor
<1>9. CASE UNCHANGED graphVars
  BY <1>3, <1>9 DEF graphVars, camera
<1> QED
  BY <1>4, <1>5, <1>6, <1>7, <1>8, <1>9 DEF GraphNext, Run, InitOrDeinit

\* Only Join ends a flow, and none is unmade.
LEMMA LifeStays ==
  ASSUME GraphInv, [GraphNext]_graphVars, NEW g \in Flows,
         life'[g] \in {"none", "dead"}, ~ Join(g)
  PROVE  life[g] = life'[g]
<1>1. RefsTypeOK /\ MadeInv
  BY DEF GraphInv, GraphTypeOK
<1>2. CASE UNCHANGED life
  BY <1>2
<1>3. ASSUME NEW t, NEW h, NEW d, NEW c, DropPointers(t, h, d, c)
      PROVE  life[g] = life'[g]
  BY <1>1, <1>3, Dropped
<1>4. CASE CallInit \/ CallDeinit
  BY <1>2, <1>4 DEF CallInit, CallDeinit, refs
<1>5. CASE UnlinkDump \/ UnlinkEnc \/ UnlinkRtsp \/ LinkRtsp \/ LinkEnc \/ LinkDump
  BY <1>2, <1>5 DEF UnlinkDump, UnlinkEnc, UnlinkRtsp, RemoveDownFlow,
                    LinkRtsp, LinkEnc, LinkDump, AddDownFlow
<1>6. CASE ResetRtsp \/ ResetEnc \/ ResetCap
  BY <1>3, <1>6 DEF ResetRtsp, ResetEnc, ResetCap, ResetHandle
<1>7. CASE CreateCap
  <2>1. life' = life \/ \E f : life' = [life EXCEPT ![f] = "alive"]
    BY <1>7 DEF CreateCap, refs
  <2> QED
    BY <1>1, <2>1 DEF RefsTypeOK
<1>8. CASE CreateEnc
  BY <1>1, <1>8 DEF CreateEnc
<1>9. CASE CreateDump
  BY <1>1, <1>9 DEF CreateDump
<1>10. ASSUME NEW f \in Flows, Thread(f)
       PROVE  life[g] = life'[g]
  <2>1. CASE DropCopy(f)
    BY <1>3, <2>1 DEF DropCopy
  <2>2. CASE ~ DropCopy(f)
    BY <1>2, <1>10, <2>2
       DEF Thread, SendDown, ResetInput, StartCond, TestLoop, Read, Dqbuf,
           DqbufFails, WhileRun, FetchInput, FetchAndProcess, refs
  <2> QED
    BY <2>1, <2>2
<1>11. ASSUME NEW f \in Flows, Destructor(f)
       PROVE  life[g] = life'[g]
  BY <1>1, <1>11
     DEF Destructor, StopAllThread, StreamOff, NotifyThread, Join, Advance,
         RefsTypeOK
<1>12. CASE UNCHANGED graphVars
  BY <1>2, <1>12 DEF graphVars, refs
<1> QED
  BY <1>4, <1>5, <1>6, <1>7, <1>8, <1>9, <1>10, <1>11, <1>12
     DEF GraphNext, Run, InitOrDeinit

\* A device that DropFrames leaves open although its capture flow is gone is
\* that of a frame.
LEMMA LeftOpen ==
  ASSUME NEW q, NEW i, NEW l, DropFrames(q, i, l), NEW s \in Sessions,
         device'[s] = "open", l[<<"cap", s>>] = "dead"
  PROVE  /\ device[s] = "open"
         /\ \E b \in Frames : Session(b) = s /\ Held(b, cached', hand')
BY DEF DropFrames

\* Nobody makes a device be there again.
LEMMA DeviceStays ==
  ASSUME NEW q, NEW i, NEW l, DropFrames(q, i, l), NEW s \in Sessions,
         device'[s] # "none"
  PROVE  device[s] # "none"
BY DEF DropFrames

\* Calls are counted, and only up.
LEMMA SessionGrows ==
  ASSUME MainTypeOK, [GraphNext]_graphVars
  PROVE  session' \in Int /\ session \in Int /\ session <= session'
<1>1. session \in Int
  BY DEF MainTypeOK
<1>2. CASE UNCHANGED session
  BY <1>1, <1>2
<1>3. CASE CreateCap
  BY <1>1, <1>3 DEF CreateCap
<1>4. CASE CallInit \/ CallDeinit \/ (InitOrDeinit /\ ~ CreateCap)
  BY <1>2, <1>4 DEF CallInit, CallDeinit, InitOrDeinit, UnlinkDump, UnlinkEnc,
       UnlinkRtsp, RemoveDownFlow, ResetRtsp, ResetEnc, ResetCap, ResetHandle,
       CreateEnc, CreateDump, LinkRtsp, LinkEnc, LinkDump, AddDownFlow
<1>5. ASSUME NEW f \in Flows, Thread(f) \/ Destructor(f)
      PROVE  UNCHANGED session
  BY <1>5, ThreadLeaves, DestructorLeaves
<1>6. CASE UNCHANGED graphVars
  BY <1>2, <1>6 DEF graphVars, main
<1> QED
  BY <1>2, <1>3, <1>4, <1>5, <1>6 DEF GraphNext, Run

\* Frames stay with the flows of their session, and a camera that is left open
\* with a frame.
LEMMA CameraStep ==
  ASSUME GraphInv, [GraphNext]_graphVars
  PROVE  CameraInv'
<1>1. /\ MainTypeOK /\ RefsTypeOK /\ ThreadsTypeOK /\ FramesTypeOK
      /\ CameraTypeOK /\ HandleInv /\ MadeInv /\ CopyInv /\ HeldInv /\ CameraInv
  BY DEF GraphInv, GraphTypeOK
<1>2. session' \in Int /\ session \in Int /\ session <= session'
  BY <1>1, SessionGrows
<1>3. ASSUME NEW s \in Sessions PROVE <<"cap", s>> \in Flows
  BY PairFlow DEF Kinds
<1>14. \A s \in Sessions : s <= session => s <= session'
  <2>1. ASSUME NEW s \in Sessions PROVE s \in Int
    BY SessionNumber
  <2> QED
    BY <1>2, <2>1
<1>4. \A g \in Flows : life'[g] \in {"none", "dead"} =>
        life[g] = life'[g] \/ Join(g)
  BY LifeStays
<1>5. Range(<<>>) = {}
  BY RangeOfLists
<1>6. ASSUME UNCHANGED <<cached, hand, device>>, ~ \E g \in Flows : Join(g)
      PROVE  CameraInv'
  BY <1>1, <1>3, <1>4, <1>6, <1>14 DEF CameraInv
<1>7. ASSUME NEW q, NEW i, NEW l, DropFrames(q, i, l), life' = l,
             \A g \in Flows : \A b \in Range(cached'[g]) \cup {hand'[g]} :
               b # NoFrame => Session(b) = Session(g),
             \A g \in Flows : life'[g] \in {"none", "dead"} =>
               cached'[g] = <<>> /\ hand'[g] = NoFrame
      PROVE  CameraInv'
  <2>1. \A s \in Sessions : device'[s] # "none" => s <= session'
    BY <1>1, <1>7, <1>14, DeviceStays DEF CameraInv
  <2>2. \A s \in Sessions : device'[s] = "open" /\ life'[<<"cap", s>>] = "dead" =>
          \E b \in Frames : Session(b) = s /\ Held(b, cached', hand')
    BY <1>7, LeftOpen
  <2> QED
    BY <1>7, <2>1, <2>2 DEF CameraInv
<1>8. ASSUME NEW f \in Flows, SendDown(f)
      PROVE  CameraInv'
  <2>1. /\ life' = life
        /\ DropFrames(IF Stopped(flows[f][next[f]]) THEN cached
                      ELSE Pushed(flows[f][next[f]], ToSend(f)), hand, life)
    BY <1>8 DEF SendDown, refs
  <2>2. PICK d \in Flows, b \in Items :
          /\ life[d] = "alive" /\ (b # NoFrame => Session(b) = Session(d))
          /\ \A g \in Flows : g # d => cached'[g] = cached[g]
          /\ Range(cached'[d]) \subseteq Range(cached[d]) \cup {b}
    BY <1>8, Sent
  <2>3. hand' = hand
    BY <1>8, Sent
  <2>4. ASSUME NEW g \in Flows, NEW e \in Range(cached'[g]) \cup {hand'[g]},
               e # NoFrame
        PROVE  Session(e) = Session(g)
    BY <1>1, <2>2, <2>3, <2>4 DEF CameraInv
  <2>5. ASSUME NEW g \in Flows, life'[g] \in {"none", "dead"}
        PROVE  cached'[g] = <<>> /\ hand'[g] = NoFrame
    BY <1>1, <2>1, <2>2, <2>3, <2>5 DEF CameraInv
  <2> QED
    BY <1>7, <2>1, <2>4, <2>5
<1>9. ASSUME NEW f \in Flows, ResetInput(f)
      PROVE  CameraInv'
  <2>1. /\ life' = life
        /\ DropFrames(cached, [hand EXCEPT ![f] = NoFrame], life)
    BY <1>9 DEF ResetInput, refs
  <2>2. /\ cached' = cached
        /\ \A g \in Flows : hand'[g] = hand[g] \/ hand'[g] = NoFrame
    BY <1>1, <2>1 DEF DropFrames, FramesTypeOK
  <2>3. ASSUME NEW g \in Flows, NEW e \in Range(cached'[g]) \cup {hand'[g]},
               e # NoFrame
        PROVE  Session(e) = Session(g)
    BY <1>1, <2>2, <2>3 DEF CameraInv
  <2>4. ASSUME NEW g \in Flows, life'[g] \in {"none", "dead"}
        PROVE  cached'[g] = <<>> /\ hand'[g] = NoFrame
    BY <1>1, <2>1, <2>2, <2>4 DEF CameraInv
  <2> QED
    BY <1>7, <2>1, <2>3, <2>4
<1>10. ASSUME NEW f \in Flows, Dqbuf(f) \/ DqbufFails(f)
       PROVE  CameraInv'
  <2>1. /\ Kind(f) = "cap" /\ life[f] # "dead" /\ life[f] # "none"
        /\ UNCHANGED <<cached, device>>
    BY <1>1, <1>10, Passed
  <2>2. PICK b \in Items :
          /\ b # NoFrame => Session(b) = Session(f)
          /\ hand' = hand \/ hand' = [hand EXCEPT ![f] = b]
    BY <1>1, <1>10, Passed
  <2>3. life' = life
    BY <1>10 DEF Dqbuf, DqbufFails, refs
  <2>4. \A g \in Flows : g # f => hand'[g] = hand[g]
    BY <1>1, <2>2 DEF FramesTypeOK
  <2>5. hand'[f] = hand[f] \/ hand'[f] = b
    BY <1>1, <2>2 DEF FramesTypeOK
  <2>6. ASSUME NEW g \in Flows, NEW e \in Range(cached'[g]) \cup {hand'[g]},
               e # NoFrame
        PROVE  Session(e) = Session(g)
    BY <1>1, <2>1, <2>2, <2>4, <2>5, <2>6 DEF CameraInv
  <2>7. ASSUME NEW g \in Flows, life'[g] \in {"none", "dead"}
        PROVE  cached'[g] = <<>> /\ hand'[g] = NoFrame
    BY <1>1, <2>1, <2>3, <2>4, <2>7 DEF CameraInv
  <2>8. \A s \in Sessions : device'[s] # "none" => s <= session'
    BY <1>1, <1>14, <2>1 DEF CameraInv
  <2>9. ASSUME NEW s \in Sessions, device'[s] = "open",
               life'[<<"cap", s>>] = "dead"
        PROVE  \E e \in Frames : Session(e) = s /\ Held(e, cached', hand')
    <3>1. PICK e \in Frames : Session(e) = s /\ Held(e, cached, hand)
      BY <1>1, <2>1, <2>3, <2>9 DEF CameraInv
    <3>2. PICK g \in Flows : e \in Range(cached[g]) \cup {hand[g]}
      BY <3>1 DEF Held
    <3>3. Session(f) # s
      BY <2>1, <2>3, <2>9, FlowPair
    <3>4. g # f
      BY <1>1, <3>1, <3>2, <3>3, NoFrameAssumption DEF CameraInv
    <3> QED
      BY <2>1, <2>4, <3>1, <3>2, <3>4 DEF Held
  <2> QED
    BY <2>6, <2>7, <2>8, <2>9 DEF CameraInv
<1>11. ASSUME NEW f \in Flows, FetchAndProcess(f)
       PROVE  CameraInv'
  <2>1. life' = life /\ tpc[f] = "take"
    BY <1>11 DEF FetchAndProcess, refs
  <2>2. CASE cached[f] = <<>> \/ Stopped(f)
    <3>1. UNCHANGED <<cached, hand, device>>
      BY <1>11, <2>2 DEF FetchAndProcess
    <3> QED
      BY <1>1, <1>3, <1>14, <2>1, <3>1 DEF CameraInv
  <2>3. CASE cached[f] # <<>> /\ ~ Stopped(f)
    <3>1. DropFrames([cached EXCEPT ![f] = Tail(@)],
                     [hand EXCEPT ![f] = Head(cached[f])], life)
      BY <1>11, <2>3 DEF FetchAndProcess
    <3>2. /\ \A g \in Flows :
               g # f => cached'[g] = cached[g] /\ hand'[g] = hand[g]
          /\ Range(cached'[f]) \cup {hand'[f]} \subseteq Range(cached[f])
      BY <1>1, <1>11, <2>3, Taken
    <3>3. life[f] \notin {"none", "dead"}
      BY <1>1, <1>11, <2>1 DEF MadeInv
    <3>4. ASSUME NEW g \in Flows, NEW e \in Range(cached'[g]) \cup {hand'[g]},
                 e # NoFrame
          PROVE  Session(e) = Session(g)
      BY <1>1, <3>2, <3>4 DEF CameraInv
    <3>5. ASSUME NEW g \in Flows, life'[g] \in {"none", "dead"}
          PROVE  cached'[g] = <<>> /\ hand'[g] = NoFrame
      BY <1>1, <2>1, <3>2, <3>3, <3>5 DEF CameraInv
    <3> QED
      BY <1>7, <2>1, <3>1, <3>4, <3>5
  <2> QED
    BY <2>2, <2>3
<1>12. ASSUME NEW f \in Flows, Join(f)
       PROVE  CameraInv'
  <2>1. /\ life' = [life EXCEPT ![f] = "dead"]
        /\ DropFrames([cached EXCEPT ![f] = <<>>],
                      [hand EXCEPT ![f] = NoFrame], life')
    BY <1>12 DEF Join, Advance
  <2>2. \A g \in Flows :
          /\ cached'[g] = IF g = f THEN <<>> ELSE cached[g]
          /\ hand'[g] = IF g = f THEN NoFrame ELSE hand[g]
    BY <1>1, <2>1 DEF DropFrames, FramesTypeOK
  <2>3. ASSUME NEW g \in Flows, NEW e \in Range(cached'[g]) \cup {hand'[g]},
               e # NoFrame
        PROVE  Session(e) = Session(g)
    BY <1>1, <1>5, <2>2, <2>3 DEF CameraInv
  <2>4. ASSUME NEW g \in Flows, life'[g] \in {"none", "dead"}
        PROVE  cached'[g] = <<>> /\ hand'[g] = NoFrame
    BY <1>1, <2>1, <2>2, <2>4 DEF CameraInv, RefsTypeOK
  <2> QED
    BY <1>7, <2>1, <2>3, <2>4
<1>13. CASE CreateCap
  <2>1. CASE mpc' = "exit"
    <3>1. UNCHANGED <<cached, hand, device, session, life>>
      BY <1>13, <2>1 DEF CreateCap, camera, refs, Go
    <3> QED
      BY <1>1, <3>1 DEF CameraInv
  <2>2. CASE mpc' # "exit"
    <3> DEFINE s == session + 1
               f == <<"cap", s>>
    <3>1. /\ mpc = "createCap" /\ UNCHANGED <<cached, hand>> /\ session' = s
          /\ life' = [life EXCEPT ![f] = "alive"]
          /\ device' = [device EXCEPT ![s] = "open"]
      BY <1>13, <2>2 DEF CreateCap, At, Go
    <3>2. s \in Sessions /\ f \in Flows
      BY <1>1, <1>3, <3>1, SizesAssumption DEF MainTypeOK, HandleInv, Sessions
    <3>3. \A g \in Flows : life'[g] \in {"none", "dead"} => life[g] = life'[g]
      BY <1>1, <3>1 DEF RefsTypeOK
    <3>4. life'[f] = "alive"
      BY <1>1, <3>1, <3>2 DEF RefsTypeOK
    <3>5. \A r \in Sessions : r # s => device'[r] = device[r]
      BY <1>1, <3>1 DEF CameraTypeOK
    <3>6. \A r \in Sessions : device'[r] # "none" => r <= session'
      BY <1>1, <1>2, <1>14, <3>1, <3>5 DEF CameraInv
    <3>7. ASSUME NEW r \in Sessions, device'[r] = "open",
                 life'[<<"cap", r>>] = "dead"
          PROVE  \E e \in Frames : Session(e) = r /\ Held(e, cached', hand')
      <4>1. r # s
        BY <3>4, <3>7
      <4>2. device[r] = "open" /\ life[<<"cap", r>>] = "dead"
        BY <1>3, <3>3, <3>5, <3>7, <4>1
      <4> QED
        BY <1>1, <3>1, <4>2 DEF CameraInv
    <3> QED
      BY <1>1, <3>1, <3>3, <3>6, <3>7 DEF CameraInv
  <2> QED
    BY <2>1, <2>2
<1> QED
  BY <1>6, <1>8, <1>9, <1>10, <1>11, <1>12, <1>13, FramesStay
-----------------------------------------------------------------------------
(***************************************************************************)
(* FlowGraph: what it promises.                                            *)
(***************************************************************************)
\* Before the first call there is nothing.
LEMMA GraphInitial == GraphInit => GraphInv
<1> SUFFICES ASSUME GraphInit PROVE GraphInv
  OBVIOUS
<1> USE DEF GraphInit
<1>1. MaxStarts \in Nat
  BY SizesAssumption
<1>2. MainTypeOK /\ HandleInv
  <2>1. \A k \in Kinds : handle[k] = 0
    OBVIOUS
  <2>2. MainTypeOK
    <3>1. 0 \in 0 .. MaxStarts
      BY <1>1
    <3>2. handle \in [Kinds -> 0 .. MaxStarts]
      BY <3>1
    <3> QED
      BY <3>1, <3>2 DEF MainTypeOK
  <2>3. HandleInv
    BY <2>1 DEF HandleInv, Kinds
  <2> QED
    BY <2>2, <2>3
<1>3. \A f \in Flows : Session(f) # 0 /\ Session(f) \in 1 .. MaxStarts
  BY FlowPair, SessionNumber
<1>4. <<>> \in Seq(Flows) /\ <<>> \in Seq(Items) /\ NoFrame \in Items
  BY DEF Items
<1>5. RefsTypeOK /\ ThreadsTypeOK /\ FramesTypeOK /\ CameraTypeOK
  BY <1>4 DEF RefsTypeOK, ThreadsTypeOK, FramesTypeOK, CameraTypeOK
<1>6. DownInv
  BY <1>3 DEF DownInv, ListOf, Kinds
<1>7. MadeInv
  BY <1>1, <1>3 DEF MadeInv, Made
<1>8. CopyInv
  BY EmptyIsCopy DEF CopyInv
<1>9. Range(<<>>) = {}
  BY RangeOfLists
<1>10. HeldInv
  BY <1>9 DEF HeldInv, Dying
<1>11. CameraInv
  BY <1>9 DEF CameraInv
<1> QED
  BY <1>2, <1>5, <1>6, <1>7, <1>8, <1>10, <1>11 DEF GraphInv, GraphTypeOK

\* The invariant is inductive.
LEMMA GraphStep ==
  ASSUME GraphInv, [GraphNext]_graphVars
  PROVE  GraphInv'
<1>1. MainTypeOK /\ HandleInv
  BY DEF GraphInv, GraphTypeOK
<1>2. MainTypeOK' /\ HandleInv'
  BY <1>1, HandleStep
<1>3. DownInv' /\ MadeInv' /\ CopyInv' /\ HeldInv' /\ CameraInv'
  BY DownStep, MadeStep, CopyStep, HeldStep, CameraStep
<1>4. RefsTypeOK' /\ ThreadsTypeOK' /\ FramesTypeOK' /\ CameraTypeOK'
  BY RefsTypes, ThreadTypes, FrameTypes, CameraTypes
<1> QED
  BY <1>2, <1>3, <1>4 DEF GraphInv, GraphTypeOK

\* The pipeline, its threads and the camera always are in a state of the
\* invariant.
THEOREM GraphInvariant == GraphSpec => []GraphInv
BY GraphInitial, GraphStep, PTL DEF GraphSpec

\* Every variable of the pipeline keeps its type.
THEOREM GraphTypeCorrect == GraphSpec => []GraphTypeOK
<1>1. GraphInv => GraphTypeOK
  BY DEF GraphInv
<1> QED
  BY <1>1, GraphInvariant, PTL

\* RunOnce (flow.cc) sends through a copy of the list of pointers: as long as
\* the copy still names a flow, its destructor has not begun, whatever
\* RemoveDownFlow and reset of the globals have done to it meanwhile.
THEOREM TargetAliveCorrect == GraphSpec => []TargetAlive
<1>1. GraphInv => TargetAlive
  <2> SUFFICES ASSUME GraphInv, NEW f \in Flows,
                      NEW i \in next[f] .. Len(flows[f])
               PROVE  life[flows[f][i]] = "alive"
    BY DEF TargetAlive
  <2>1. ThreadsTypeOK /\ CopyInv /\ HeldInv
    BY DEF GraphInv, GraphTypeOK
  <2>2. next[f] \in Nat \ {0} /\ Len(flows[f]) \in Nat
    BY <2>1, LenProperties DEF ThreadsTypeOK
  <2>3. i \in Nat \ {0} /\ i <= Len(flows[f])
    BY <2>2
  <2> QED
    BY <2>1, <2>3, TargetFound
<1> QED
  BY <1>1, GraphInvariant, PTL

\* deinit_rtsp (rtsp_server.cpp) returns only when the capture, encoder and RTSP
\* flows and their threads have ended, although it may be another flow's thread
\* that drops the last pointer to one of them and destroys it.
THEOREM PipelineGoneCorrect == GraphSpec => []PipelineGone
<1>1. GraphInv => PipelineGone
  <2> SUFFICES ASSUME GraphInv, At("idle"), ~ starting,
                      NEW f \in Flows, Kind(f) # "dump"
               PROVE  life[f] \in {"none", "dead"}
    BY DEF PipelineGone
  <2>1. RefsTypeOK /\ HandleInv /\ MadeInv /\ CopyInv /\ HeldInv
    BY DEF GraphInv, GraphTypeOK
  <2>2. handle["cap"] = 0 /\ handle["enc"] = 0 /\ handle["rtsp"] = 0
    BY <2>1 DEF HandleInv, At
  <2> QED
    BY <2>1, <2>2, AllGone DEF At
<1> QED
  BY <1>1, GraphInvariant, PTL

\* When init_rtsp finds a device still open and exits, it is because of frames
\* in the dump flow: those of every other flow have gone back to the driver.
THEOREM BusyOnlyForDumpCorrect == GraphSpec => []BusyOnlyForDump
<1>1. GraphInv => BusyOnlyForDump
  <2> SUFFICES ASSUME GraphInv, At("createCap") \/ At("exit"),
                      NEW s \in Sessions, device[s] = "open"
               PROVE  \E b \in Frames :
                        /\ Session(b) = s
                        /\ \E f \in Flows :
                             /\ Kind(f) = "dump"
                             /\ b \in Range(cached[f]) \cup {hand[f]}
    BY DEF BusyOnlyForDump
  <2>1. /\ MainTypeOK /\ RefsTypeOK /\ HandleInv /\ MadeInv /\ CopyInv
        /\ HeldInv /\ CameraInv
    BY DEF GraphInv, GraphTypeOK
  <2>2. /\ mpc \in {"createCap", "exit"} /\ ~ Busy(Main)
        /\ handle["cap"] = 0 /\ handle["enc"] = 0 /\ handle["rtsp"] = 0
    BY <2>1 DEF HandleInv, At
  <2>3. \A f \in Flows : Kind(f) # "dump" => life[f] \in {"none", "dead"}
    BY <2>1, <2>2, AllGone
  <2> DEFINE c == <<"cap", s>>
  <2>4. c \in Flows /\ Kind(c) = "cap" /\ Session(c) = s
    BY PairFlow DEF Kinds
  <2>5. life[c] = "dead"
    <3>1. s <= session /\ s \in Int /\ session \in Int
      BY <2>1, SessionNumber DEF CameraInv, MainTypeOK
    <3>2. Made(c)
      BY <2>2, <2>4, <3>1 DEF Made
    <3> QED
      BY <2>1, <2>3, <2>4, <3>2 DEF MadeInv
  <2>6. PICK b \in Frames : Session(b) = s /\ Held(b, cached, hand)
    BY <2>1, <2>5 DEF CameraInv
  <2>7. PICK f \in Flows : b \in Range(cached[f]) \cup {hand[f]}
    BY <2>6 DEF Held
  <2>8. Kind(f) = "dump"
    BY <2>1, <2>3, <2>6, <2>7, RangeOfLists, NoFrameAssumption DEF CameraInv
  <2> QED
    BY <2>6, <2>7, <2>8
<1> QED
  BY <1>1, GraphInvariant, PTL

(* A destructor joins the flow's thread, so that a thread must never be    *)
(* the one to destroy its own flow, nor two wait for each other.           *)
JoinsDownwards ==
  \A f \in Flows : Dying(f) =>
    \/ owner[f] = Main
    \/ Kind(f) \in {"enc", "rtsp"} /\ owner[f] = Upstream(f)

\* Flow::StopAllThread and the join after it run in the thread of init_rtsp or
\* deinit_rtsp, or in that of the flow upstream: joins go down the pipeline.
THEOREM JoinsDownwardsCorrect == GraphSpec => []JoinsDownwards
<1>1. GraphInv => JoinsDownwards
  BY DEF GraphInv, HeldInv, JoinsDownwards
<1> QED
  BY <1>1, GraphInvariant, PTL

(* The members of a flow that is destroyed hold no flow further down.      *)
EmptyWhenDying == \A f \in Flows : Dying(f) => down[f] = <<>>

\* By the time Flow::~Flow runs the flow has no downstream flow left, so that
\* its member FlowMap drops no pointer, and Join destroys nothing but the flow.
THEOREM EmptyWhenDyingCorrect == GraphSpec => []EmptyWhenDying
<1>1. GraphInv => EmptyWhenDying
  <2> SUFFICES ASSUME GraphInv, NEW f \in Flows, Dying(f)
               PROVE  down[f] = <<>>
    BY DEF EmptyWhenDying
  <2>1. MainTypeOK /\ DownInv /\ HeldInv
    BY DEF GraphInv, GraphTypeOK
  <2>2. life[f] # "alive" /\ Session(f) # 0 /\ f = <<Kind(f), Session(f)>>
        /\ Kind(f) \in Kinds
    BY FlowPair, SessionNumber DEF Dying
  <2>3. handle[Kind(f)] # Session(f)
    BY <2>1, <2>2 DEF HeldInv, HandleOf
  <2>4. ListOf(f) = <<>>
    BY <2>3 DEF ListOf
  <2> QED
    BY <2>1, <2>4 DEF DownInv
<1> QED
  BY <1>1, GraphInvariant, PTL
=============================================================================
