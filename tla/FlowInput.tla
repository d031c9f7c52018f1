------------------------------ MODULE FlowInput ------------------------------
(***************************************************************************)
(* The asynchronous input of a media flow (flow.cc, Model::ASYNCCOMMON):   *)
(* upstream flows push buffers into bounded slots, the flow's coroutine    *)
(* takes them out, and the destructor stops the coroutine.                 *)
(*                                                                         *)
(* Each slot has a mutex (Input::mtx), the flow one condition variable     *)
(* with its mutex (cond_mtx).  The code reads a slot's size without the    *)
(* slot's mutex in three places; those reads are steps of their own, and   *)
(* so are the two halves of DROPFRONT, which a reader can see.             *)
(***************************************************************************)
EXTENDS Integers, Sequences, FiniteSets

CONSTANTS
  Producers,    \* threads of the upstream flows, each linked to one slot
  NumSlots,     \* input slots of the coroutine
  Target,       \* the slot each producer sends to
  MaxCache,     \* input_maxcachenum; 0: no limit
  InputModes,   \* what mode_when_full may be
  NoBuffer,     \* nullptr
  MaxSend,      \* buffers a producer sends (bound)
  MayDisable,   \* whether somebody calls SetDisable
  MayStop       \* whether the flow is destroyed

Slots == 1 .. NumSlots

ASSUME ProducersAssumption == IsFiniteSet(Producers)
ASSUME SlotsAssumption ==
  NumSlots \in Nat \ {0} /\ Target \in [Producers -> Slots]
ASSUME CacheAssumption ==
  /\ MaxCache \in Nat /\ MaxSend \in Nat
  /\ InputModes \subseteq {"BLOCKING", "DROPFRONT", "DROPCURRENT"}
ASSUME NoBufferAssumption == NoBuffer \notin Producers \X Nat
ASSUME FreeAssumption == "free" \notin Producers

VARIABLES
  mode,             \* Input::mode_when_full, set once by InstallSlotMap
  enable, quit,     \* Flow::enable, Flow::quit
  queue,            \* cached_buffers of each slot
  mtx,              \* holder of each slot's mutex
  cond,             \* holder of cond_mtx
  ppc, sent,        \* producers
  cpc, ci, empty,   \* the coroutine, its loop index and local
  in_vector,
  spc,              \* the thread in the destructor
  got               \* history: buffers the process function got, per slot

prod == <<ppc, sent>>
cor  == <<cpc, ci, empty, in_vector>>
vars == <<mode, enable, quit, queue, mtx, cond, prod, cor, spc, got>>

Free == "free"
Coroutine == "coroutine"
Buffers == Producers \X Nat

InputTypeOK ==
  /\ mode \in InputModes
  /\ enable \in BOOLEAN /\ quit \in BOOLEAN
  /\ queue \in [Slots -> Seq(Buffers)]
  /\ mtx \in [Slots -> Producers \cup {Free}]
  /\ cond \in {Coroutine, Free}
  /\ in_vector \in [Slots -> Buffers \cup {NoBuffer}]
  /\ got \in [Slots -> Seq(Buffers)]

ThreadTypeOK ==
  /\ ppc \in [Producers -> {"idle", "lock", "drop", "sleep", "room", "again",
                            "push", "notify"}]
  /\ sent \in [Producers -> Nat]
  /\ cpc \in {"test", "lock", "check", "waiting", "woken", "fetch", "pop",
              "process", "done"}
  /\ ci \in 1 .. NumSlots + 1
  /\ empty \in BOOLEAN
  /\ spc \in {"none", "quit", "notify", "join", "stopped"}

TypeOK == InputTypeOK /\ ThreadTypeOK

Init ==
  /\ mode \in InputModes
  /\ enable = TRUE /\ quit = FALSE
  /\ queue = [s \in Slots |-> <<>>]
  /\ mtx = [s \in Slots |-> Free]
  /\ cond = Free
  /\ ppc = [p \in Producers |-> "idle"]
  /\ sent = [p \in Producers |-> 0]
  /\ cpc = "test" /\ ci = 1 /\ empty = TRUE
  /\ in_vector = [s \in Slots |-> NoBuffer]
  /\ spc = "none"
  /\ got = [s \in Slots |-> <<>>]

Full(s) == MaxCache > 0 /\ MaxCache <= Len(queue[s])
GoProducer(p, l) == ppc' = [ppc EXCEPT ![p] = l]
-----------------------------------------------------------------------------
(* A producer: Flow::SendInput and Input::ASyncSendInputCommonBehavior.    *)

\* The upstream flow holds a reference, so the destructor has not begun.
SendInput(p) ==
  /\ ppc[p] = "idle" /\ spc = "none" /\ sent[p] < MaxSend
  /\ sent' = [sent EXCEPT ![p] = @ + 1]
  /\ GoProducer(p, IF enable THEN "lock" ELSE "idle")
  /\ UNCHANGED <<mode, enable, quit, queue, mtx, cond, cor, spc, got>>

\* The mutex is held only on the way to a push or a pop; the other outcomes
\* give it back in the same step.
LockInput(p) ==
  LET s == Target[p] IN
  /\ ppc[p] = "lock" /\ mtx[s] = Free
  /\ \/ /\ ~ Full(s)
        /\ mtx' = [mtx EXCEPT ![s] = p]
        /\ GoProducer(p, "push")
     \/ /\ Full(s) /\ mode = "DROPFRONT"
        /\ mtx' = [mtx EXCEPT ![s] = p]
        /\ GoProducer(p, "drop")
     \/ /\ Full(s) /\ mode = "DROPCURRENT"
        /\ GoProducer(p, "idle")
        /\ UNCHANGED mtx
     \/ /\ Full(s) /\ mode = "BLOCKING"
        /\ GoProducer(p, "sleep")
        /\ UNCHANGED mtx
  /\ UNCHANGED <<mode, enable, quit, queue, cond, sent, cor, spc, got>>

\* Variant: the mutex is given back between the drop and the push.
DropFrontUnlocks(p) ==
  /\ ppc[p] = "drop"
  /\ queue' = [queue EXCEPT ![Target[p]] = Tail(@)]
  /\ mtx' = [mtx EXCEPT ![Target[p]] = Free]
  /\ GoProducer(p, "push")
  /\ UNCHANGED <<mode, enable, quit, cond, sent, cor, spc, got>>

DropFront(p) ==
  /\ ppc[p] = "drop"
  /\ queue' = [queue EXCEPT ![Target[p]] = Tail(@)]
  /\ GoProducer(p, "push")
  /\ UNCHANGED <<mode, enable, quit, mtx, cond, sent, cor, spc, got>>

\* Variant: an off-by-one in the unprotected test.
PollSizeOffByOne(p) ==
  /\ ppc[p] = "sleep"
  /\ GoProducer(p, IF MaxCache >= Len(queue[Target[p]])
                     THEN "room" ELSE "again")
  /\ UNCHANGED <<mode, enable, quit, queue, mtx, cond, sent, cor, spc, got>>

\* After msleep(5): the size is read without the mutex.
PollSize(p) ==
  /\ ppc[p] = "sleep"
  /\ GoProducer(p, IF MaxCache > Len(queue[Target[p]]) THEN "room" ELSE "again")
  /\ UNCHANGED <<mode, enable, quit, queue, mtx, cond, sent, cor, spc, got>>

\* There was room: the buffer is pushed without another look, unless the flow
\* was disabled meanwhile.
EndBlocking(p) ==
  LET s == Target[p] IN
  /\ ppc[p] = "room" /\ mtx[s] = Free
  /\ \/ /\ enable
        /\ mtx' = [mtx EXCEPT ![s] = p]
        /\ GoProducer(p, "push")
     \/ /\ ~ enable
        /\ GoProducer(p, "idle")
        /\ UNCHANGED mtx
  /\ UNCHANGED <<mode, enable, quit, queue, cond, sent, cor, spc, got>>

\* Variant: the loop does not look at the predicate.
KeepBlockingForever(p) ==
  /\ ppc[p] = "again" /\ mtx[Target[p]] = Free
  /\ GoProducer(p, "sleep")
  /\ UNCHANGED <<mode, enable, quit, queue, mtx, cond, sent, cor, spc, got>>

KeepBlocking(p) ==
  /\ ppc[p] = "again" /\ mtx[Target[p]] = Free
  /\ GoProducer(p, IF enable THEN "sleep" ELSE "idle")
  /\ UNCHANGED <<mode, enable, quit, queue, mtx, cond, sent, cor, spc, got>>

Push(p) ==
  LET s == Target[p] IN
  /\ ppc[p] = "push"
  /\ queue' = [queue EXCEPT ![s] = Append(@, <<p, sent[p]>>)]
  /\ mtx' = [mtx EXCEPT ![s] = Free]
  /\ GoProducer(p, "notify")
  /\ UNCHANGED <<mode, enable, quit, cond, sent, cor, spc, got>>

WakeCoroutine == cpc' = IF cpc = "waiting" THEN "woken" ELSE cpc

\* Variant: notify without cond_mtx.
NotifyUnlocked(p) ==
  /\ ppc[p] = "notify"
  /\ WakeCoroutine
  /\ GoProducer(p, "idle")
  /\ UNCHANGED <<mode, enable, quit, queue, mtx, cond, sent, ci, empty,
                 in_vector, spc, got>>

Notify(p) ==
  /\ ppc[p] = "notify" /\ cond = Free
  /\ WakeCoroutine
  /\ GoProducer(p, "idle")
  /\ UNCHANGED <<mode, enable, quit, queue, mtx, cond, sent, ci, empty,
                 in_vector, spc, got>>
-----------------------------------------------------------------------------
(* The coroutine: WhileRun, RunOnce and ASyncFetchInputCommon.             *)

TestQuit ==
  /\ cpc = "test"
  /\ cpc' = IF quit THEN "done" ELSE "lock"
  /\ UNCHANGED <<mode, enable, quit, queue, mtx, cond, prod, ci, empty,
                 in_vector, spc, got>>

LockCond ==
  /\ cpc = "lock" /\ cond = Free
  /\ cond' = Coroutine
  /\ cpc' = "check" /\ ci' = 1 /\ empty' = TRUE
  /\ UNCHANGED <<mode, enable, quit, queue, mtx, prod, in_vector, spc, got>>

\* The loop over the slots, and after the last one wait() or unlock().
CheckSlot ==
  /\ cpc = "check"
  /\ empty' = (empty /\ queue[ci] = <<>>)
  /\ IF ci < NumSlots
       THEN ci' = ci + 1 /\ UNCHANGED <<cpc, cond>>
       ELSE /\ ci' = 1
            /\ cpc' = IF empty' THEN "waiting" ELSE "fetch"
            /\ cond' = Free
  /\ UNCHANGED <<mode, enable, quit, queue, mtx, prod, in_vector, spc, got>>

\* A condition variable may wake without a notification.
SpuriousWakeup ==
  /\ cpc = "waiting"
  /\ cpc' = "woken"
  /\ UNCHANGED <<mode, enable, quit, queue, mtx, cond, prod, ci, empty,
                 in_vector, spc, got>>

\* wait() returns with the mutex, which is then given back: it is not repeated.
EndWait ==
  /\ cpc = "woken" /\ cond = Free
  /\ cpc' = "fetch"
  /\ UNCHANGED <<mode, enable, quit, queue, mtx, cond, prod, ci, empty,
                 in_vector, spc, got>>

\* v.empty() without the mutex, then the test of enable.
FetchSlot ==
  /\ cpc = "fetch" /\ ci <= NumSlots
  /\ \/ /\ queue[ci] = <<>>
        /\ ci' = ci + 1
        /\ UNCHANGED <<cpc, in_vector>>
     \/ /\ queue[ci] # <<>> /\ ~ enable
        /\ in_vector' = [s \in Slots |-> NoBuffer]
        /\ cpc' = "process"
        /\ UNCHANGED ci
     \/ /\ queue[ci] # <<>> /\ enable
        /\ cpc' = "pop"
        /\ UNCHANGED <<ci, in_vector>>
  /\ UNCHANGED <<mode, enable, quit, queue, mtx, cond, prod, empty, spc, got>>

EndFetch ==
  /\ cpc = "fetch" /\ ci > NumSlots
  /\ cpc' = "process"
  /\ UNCHANGED <<mode, enable, quit, queue, mtx, cond, prod, ci, empty,
                 in_vector, spc, got>>

\* assert(!v.empty()), front(), pop_front() under the slot's mutex.
Pop ==
  /\ cpc = "pop" /\ mtx[ci] = Free
  /\ in_vector' = [in_vector EXCEPT ![ci] = Head(queue[ci])]
  /\ queue' = [queue EXCEPT ![ci] = Tail(@)]
  /\ cpc' = "fetch" /\ ci' = ci + 1
  /\ UNCHANGED <<mode, enable, quit, mtx, cond, prod, empty, spc, got>>

\* th_run, the buffers sent down, and in_vector reset.
Process ==
  /\ cpc = "process"
  /\ got' = [s \in Slots |-> IF in_vector[s] = NoBuffer THEN got[s]
                             ELSE Append(got[s], in_vector[s])]
  /\ in_vector' = [s \in Slots |-> NoBuffer]
  /\ cpc' = "test" /\ ci' = 1
  /\ UNCHANGED <<mode, enable, quit, queue, mtx, cond, prod, empty, spc>>
-----------------------------------------------------------------------------
(* The outside: SetDisable, and StopAllThread as a destructor calls it.    *)

SetDisable ==
  /\ MayDisable /\ enable
  /\ enable' = FALSE
  /\ UNCHANGED <<mode, quit, queue, mtx, cond, prod, cor, spc, got>>

\* The last reference is gone: no producer is in SendInput.
StopDisable ==
  /\ MayStop /\ spc = "none" /\ \A p \in Producers : ppc[p] = "idle"
  /\ enable' = FALSE
  /\ spc' = "quit"
  /\ UNCHANGED <<mode, quit, queue, mtx, cond, prod, cor, got>>

StopQuit ==
  /\ spc = "quit"
  /\ quit' = TRUE
  /\ spc' = "notify"
  /\ UNCHANGED <<mode, enable, queue, mtx, cond, prod, cor, got>>

StopNotify ==
  /\ spc = "notify" /\ cond = Free
  /\ WakeCoroutine
  /\ spc' = "join"
  /\ UNCHANGED <<mode, enable, quit, queue, mtx, cond, prod, ci, empty,
                 in_vector, got>>

\* coroutine.reset() joins the thread.
StopJoin ==
  /\ spc = "join" /\ cpc = "done"
  /\ spc' = "stopped"
  /\ UNCHANGED <<mode, enable, quit, queue, mtx, cond, prod, cor, got>>
-----------------------------------------------------------------------------
Producer(p) ==
  \/ LockInput(p) \/ DropFront(p) \/ PollSize(p) \/ EndBlocking(p)
  \/ KeepBlocking(p) \/ Push(p) \/ Notify(p)

RunCoroutine ==
  \/ TestQuit \/ LockCond \/ CheckSlot \/ EndWait \/ FetchSlot \/ EndFetch
  \/ Pop \/ Process

Stopper == StopQuit \/ StopNotify \/ StopJoin

Next ==
  \/ \E p \in Producers : SendInput(p) \/ Producer(p)
  \/ RunCoroutine \/ SpuriousWakeup
  \/ SetDisable \/ StopDisable \/ Stopper

Spec == Init /\ [][Next]_vars

\* Threads that can run do, and a mutex given back again and again is had in
\* the end; nothing makes a producer send or a condition variable wake by itself.
Fairness ==
  /\ \A p \in Producers : SF_vars(Producer(p))
  /\ SF_vars(RunCoroutine)
  /\ WF_vars(Stopper)

FairSpec == Spec /\ Fairness
-----------------------------------------------------------------------------
(* Properties.                                                             *)

\* The assertion in ASyncFetchInputCommon: the test for a buffer is made
\* without the mutex, yet when the coroutine has the mutex there still is one,
\* although DROPFRONT takes buffers out in between.
PopFindsBuffer == cpc = "pop" /\ mtx[ci] = Free => queue[ci] # <<>>

\* A blocked producer tests the size without the mutex, so each other producer
\* of the slot may push one buffer too many.
Slack == [s \in Slots |-> Cardinality({p \in Producers : Target[p] = s}) - 1]

\* The input implements the queue its upstream flows count on: order kept,
\* nothing twice, buffers refused or dropped only when full or disabled, and
\* never more than MaxCache of them but for the blocked producers' slack.
Q == INSTANCE FlowQueue WITH
       enabled <- enable,
       last <- [p \in Producers |-> IF ppc[p] \in {"idle", "notify"}
                                      THEN sent[p] ELSE sent[p] - 1],
       hand <- in_vector
ImplementsQueue == Q!Spec

\* As long as the flow is enabled, a buffer that was put in a slot is taken out:
\* no interleaving of push, notify, the checks and the wait loses a wakeup.
Drained ==
  \A s \in Slots : queue[s] # <<>> ~> queue[s] = <<>> \/ ~ enable

\* A producer in the blocking loop comes out of it, also when SetDisable is
\* what ends it.
Unblocked == \A p \in Producers : ppc[p] = "sleep" ~> ppc[p] = "idle"
=============================================================================
