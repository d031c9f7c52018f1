------------------------------ MODULE FlowQueue ------------------------------
(***************************************************************************)
(* What a flow with an asynchronous input promises its upstream flows: per *)
(* slot a queue that keeps each upstream's buffers in the order they were  *)
(* sent, is bounded, refuses or drops a buffer only for a reason, and      *)
(* hands every buffer it keeps to the process function once.               *)
(***************************************************************************)
EXTENDS Integers, Sequences

CONSTANTS
  Producers,    \* upstream flows
  NumSlots,     \* input slots, all of one coroutine
  Target,       \* the slot each upstream flow is linked to
  MaxCache,     \* input_maxcachenum; 0: no limit
  InputModes,   \* what may happen at a full slot
  Slack,        \* buffers beyond MaxCache that a BLOCKING slot may get
  NoBuffer      \* the null buffer

VARIABLES
  mode,         \* what happens at a full slot
  enabled,      \* the flow takes buffers
  last,         \* number of the last buffer each producer is done with
  queue,        \* what waits in each slot
  hand,         \* what the process function gets next, per slot
  got           \* history: what it got

vars == <<mode, enabled, last, queue, hand, got>>

Slots == 1 .. NumSlots
Full(s) == MaxCache > 0 /\ Len(queue[s]) >= MaxCache

Init ==
  /\ mode \in InputModes
  /\ enabled = TRUE
  /\ last = [p \in Producers |-> 0]
  /\ queue = [s \in Slots |-> <<>>]
  /\ hand = [s \in Slots |-> NoBuffer]
  /\ got = [s \in Slots |-> <<>>]

Put(p) ==
  LET s == Target[p] IN
  /\ MaxCache > 0 =>
       Len(queue[s]) < MaxCache + (IF mode = "BLOCKING" THEN Slack[s] ELSE 0)
  /\ last' = [last EXCEPT ![p] = @ + 1]
  /\ queue' = [queue EXCEPT ![s] = Append(@, <<p, last[p] + 1>>)]
  /\ UNCHANGED <<mode, enabled, hand, got>>

Refuse(p) ==
  /\ ~ enabled \/ (mode = "DROPCURRENT" /\ Full(Target[p]))
  /\ last' = [last EXCEPT ![p] = @ + 1]
  /\ UNCHANGED <<mode, enabled, queue, hand, got>>

DropOldest(s) ==
  /\ mode = "DROPFRONT" /\ Full(s)
  /\ queue' = [queue EXCEPT ![s] = Tail(@)]
  /\ UNCHANGED <<mode, enabled, last, hand, got>>

Take(s) ==
  /\ queue[s] # <<>> /\ hand[s] = NoBuffer
  /\ hand' = [hand EXCEPT ![s] = Head(queue[s])]
  /\ queue' = [queue EXCEPT ![s] = Tail(@)]
  /\ UNCHANGED <<mode, enabled, last, got>>

\* The process function gets the buffers in hand, all of them at once.
Process ==
  /\ got' = [s \in Slots |-> IF hand[s] = NoBuffer THEN got[s]
                                                   ELSE Append(got[s], hand[s])]
  /\ hand' = [s \in Slots |-> NoBuffer]
  /\ UNCHANGED <<mode, enabled, last, queue>>

Discard ==
  /\ ~ enabled
  /\ hand' = [s \in Slots |-> NoBuffer]
  /\ UNCHANGED <<mode, enabled, last, queue, got>>

Disable == enabled' = FALSE /\ UNCHANGED <<mode, last, queue, hand, got>>

Next ==
  \/ \E p \in Producers : Put(p) \/ Refuse(p)
  \/ \E s \in Slots : DropOldest(s) \/ Take(s)
  \/ Process \/ Discard \/ Disable

Spec == Init /\ [][Next]_vars
=============================================================================
