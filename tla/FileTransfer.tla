---------------------------- MODULE FileTransfer ----------------------------
(***************************************************************************)
(* A file sent by a PC (HandlerReceiveFile, rkaiq_protocol.cpp): one       *)
(* packet of PacketSize bytes - header, data, hash of the data -, followed *)
(* by bytes of the PC's next message.  Recvieve has read the first ones,   *)
(* as many as TCP gave it; the handler reads the others in a loop, checks  *)
(* the data's size and hash and saves the data.                            *)
(*                                                                         *)
(* Byte k of the PC's stream is the number k, so a byte in its place is    *)
(* its index.  recv() waits for Interval seconds at most (SO_RCVTIMEO, set *)
(* by Recvieve) and then returns -1, which the loop subtracts like a       *)
(* length; the loop gives up Limit seconds after it began.  Nothing        *)
(* compares how many bytes came first with the header or the packet:       *)
(* fields that did not come are what an earlier message left in Recvieve's *)
(* buffer, and bytes behind the packet are copied like the others.  The    *)
(* header's texts are left out.                                            *)
(***************************************************************************)
EXTENDS Integers

CONSTANTS
  PacketSize,   \* bytes of the packet the PC sends
  SizeEnd,      \* bytes up to the end of the packetSize field: 16
  Header,       \* bytes before the data, dataSize is the last field: 424
  Stale,        \* packet sizes that an earlier message may have left in the buffer
  Extra,        \* bytes the PC sends after the packet, without waiting for an answer
  MaxPacket,    \* MAX_PACKET_SIZE
  U64,          \* 2^64
  Interval,     \* SO_RCVTIMEO: 3 seconds
  Limit,        \* 20 seconds
  Margin        \* more timeouts of recv() than Limit leaves room for

ASSUME SizesAssumption ==
  /\ {PacketSize, SizeEnd, Header, Extra, MaxPacket, U64} \subseteq Nat
  /\ SizeEnd <= Header /\ PacketSize + Extra < U64 /\ 0 < MaxPacket
  /\ Stale \subseteq 0 .. U64 - 1
ASSUME TimesAssumption ==
  /\ {Interval, Limit, Margin} \subseteq Nat \ {0}
  /\ Limit + Interval <= Margin * Interval
VARIABLES
  pc,
  clock,            \* seconds since the loop began
  first,            \* bytes the first recv() returned, 0 before
  packetSize,       \* as read from the first bytes
  sized,            \* dataSize, as read from the first bytes, is the PC's
  remain_size,
  receivedPacket,   \* what came to the PC's places in it
  stray,            \* history: a byte was written outside receivedPacket
  next,             \* bytes of the stream read so far
  peer,             \* the PC's end of the connection
  damaged,          \* the hash in the packet is not that of its data
  result,           \* the answer
  file              \* the target file: as it was, or what was written

begun == <<first, packetSize, sized>>
vars == <<pc, clock, begun, remain_size, receivedPacket, stray, next, peer,
          damaged, result, file>>

Places == 0 .. PacketSize - 1
Unset == -1

TypeOK ==
  /\ pc \in {"wait", "loop", "save", "done", "crashed"}
  /\ clock \in 0 .. Limit + Interval
  /\ first \in 0 .. PacketSize + Extra
  /\ packetSize \in 0 .. U64 - 1
  /\ {sized, stray} \subseteq BOOLEAN
  /\ remain_size \in 0 .. U64 - 1
  /\ receivedPacket \in [Places -> {Unset} \cup 0 .. PacketSize + Extra - 1]
  /\ next \in 0 .. PacketSize + Extra
  /\ peer \in {"up", "reset", "closed"}
  /\ damaged \in BOOLEAN
  /\ result \in {"none", "TransferError", "Timeout", "DataSizeError",
                 "HashCheckFail", "DirError", "FileSaveError", "Success"}
  /\ file \in {"old", "sent", "other", "short"}

Init ==
  /\ pc = "wait"
  /\ clock = 0
  /\ first = 0 /\ packetSize = 0 /\ sized = TRUE
  /\ remain_size = 0
  /\ stray = FALSE
  /\ receivedPacket = [i \in Places |-> Unset]
  /\ next = 0
  /\ peer = "up"
  /\ damaged \in BOOLEAN
  /\ result = "none"
  /\ file = "old"

Answer(r) == result' = r /\ pc' = "done"

\* The PC closes the connection, or its system resets it.
PeerLeaves ==
  /\ pc = "loop" /\ peer = "up"
  /\ peer' \in {"reset", "closed"}
  /\ UNCHANGED <<pc, clock, begun, remain_size, receivedPacket, stray, next,
                 damaged, result, file>>

\* packetSize and dataSize do not fit together.
TransferError ==
  /\ pc = "wait"
  /\ Answer("TransferError")
  /\ UNCHANGED <<clock, begun, remain_size, receivedPacket, stray, next, peer,
                 damaged, file>>

\* Recvieve's recv() returned size bytes: part of the header, part of the packet,
\* or all of it and what follows it.
StartTransfer ==
  /\ pc = "wait"
  /\ \E size \in 1 .. PacketSize + Extra :
       /\ first' = size
       /\ packetSize' \in IF size < SizeEnd THEN Stale ELSE {PacketSize}
       /\ sized' \in IF size < Header THEN BOOLEAN ELSE {TRUE}
       /\ receivedPacket' = [i \in Places |->
            IF i < size /\ i < packetSize' THEN i ELSE Unset]
       /\ stray' = (size > packetSize')
       /\ remain_size' = (packetSize' - size) % U64
       /\ next' = size
  /\ packetSize' > 0 /\ pc' = "loop"
  /\ UNCHANGED <<clock, peer, damaged, result, file>>

\* The header is the one sent, so that dataSize in it is the PC's.
HeaderRead == \A i \in Places : i < Header => receivedPacket[i] = i

\* The fields, the data and the hash are read within receivedPacket.
Readable == HeaderRead /\ PacketSize <= packetSize

Complete == pc = "loop" /\ remain_size = 0

\* What is behind the buffer was overwritten, or is read for want of a whole header
\* and whole data: the process may not survive it.
Crash ==
  /\ pc \in {"loop", "save"}
  /\ stray \/ (Complete /\ ~ Readable)
  /\ pc' = "crashed"
  /\ UNCHANGED <<clock, begun, remain_size, receivedPacket, stray, next, peer,
                 damaged, result, file>>
-----------------------------------------------------------------------------
\* Time passes; what is later than Limit + Interval looks alike.
Later(d) == IF clock + d > Limit + Interval THEN Limit + Interval ELSE clock + d

\* Mutant: the loop waits for the rest however long it takes.
OverdueNever == FALSE

Overdue == clock >= Limit

GiveUp ==
  /\ pc = "loop" /\ remain_size > 0 /\ Overdue
  /\ Answer("Timeout")
  /\ UNCHANGED <<clock, begun, remain_size, receivedPacket, stray, next, peer,
                 damaged, file>>

Receiving == pc = "loop" /\ remain_size > 0 /\ ~ Overdue

Offset == (packetSize - remain_size) % U64

\* Mutant: a whole chunk is asked for, whatever remains.
TargetSizeWhole == MaxPacket

TargetSize == IF remain_size > MaxPacket THEN MaxPacket ELSE remain_size

\* How far place i is from Offset.
Ahead(i) == (i - Offset) % U64

\* recv() returns n bytes: they go to Offset.
RecvData ==
  /\ Receiving
  /\ \E n \in 1 .. TargetSize, d \in 0 .. Interval :
       /\ next + n <= PacketSize + Extra
       /\ receivedPacket' = [i \in Places |->
            IF i < packetSize /\ Ahead(i) < n THEN next + Ahead(i)
                                             ELSE receivedPacket[i]]
       /\ stray' = (stray \/ \E k \in 0 .. n - 1 : (Offset + k) % U64 >= packetSize)
       /\ remain_size' = (remain_size - n) % U64
       /\ next' = next + n
       /\ clock' = Later(d)
  /\ UNCHANGED <<pc, begun, peer, damaged, result, file>>

\* recv() returns -1 after Interval seconds without data: one byte more remains.
RecvTimeout ==
  /\ Receiving /\ peer = "up"
  /\ remain_size' = (remain_size + 1) % U64
  /\ clock' = Later(Interval)
  /\ UNCHANGED <<pc, begun, receivedPacket, stray, next, peer, damaged, result,
                 file>>

\* A reset is reported once, at once, as another -1.
RecvReset ==
  /\ Receiving /\ peer = "reset"
  /\ remain_size' = (remain_size + 1) % U64
  /\ peer' = "closed"
  /\ UNCHANGED <<pc, clock, begun, receivedPacket, stray, next, damaged, result,
                 file>>

\* From the end of the connection recv() returns 0, and the loop spins; a step
\* stands for a second of that.
RecvEnd ==
  /\ Receiving /\ peer = "closed"
  /\ clock' = Later(1)
  /\ UNCHANGED <<pc, begun, remain_size, receivedPacket, stray, next, peer,
                 damaged, result, file>>
-----------------------------------------------------------------------------
\* The data are the ones sent.
Intact == \A i \in Places : i >= Header => receivedPacket[i] = i

\* Mutant: what is hashed is not what was received.
HashAgreesUnread == ~ damaged

\* MurMurHash of the data against the hash that came with them; other data are
\* taken to have another hash.
HashAgrees == Intact /\ ~ damaged

\* The packet's dataSize against the one read first; either is any number if
\* something else is in its place.
DataSizeError ==
  /\ Complete
  /\ ~ HeaderRead \/ ~ sized
  /\ Answer("DataSizeError")
  /\ UNCHANGED <<clock, begun, remain_size, receivedPacket, stray, next, peer,
                 damaged, file>>

HashCheck ==
  /\ Complete
  /\ ~ HeaderRead \/ sized
  /\ IF HashAgrees THEN pc' = "save" /\ UNCHANGED result
                   ELSE Answer("HashCheckFail")
  /\ UNCHANGED <<clock, begun, remain_size, receivedPacket, stray, next, peer,
                 damaged, file>>

\* The directory is missing, or the file cannot be created.
SaveError ==
  /\ pc = "save"
  /\ Answer("DirError") \/ Answer("FileSaveError")
  /\ UNCHANGED <<clock, begun, remain_size, receivedPacket, stray, next, peer,
                 damaged, file>>

\* fopen() has emptied the file; what fwrite() returns is not looked at.
Save ==
  /\ pc = "save"
  /\ Answer("Success")
  /\ file' \in {"short", IF Intact THEN "sent" ELSE "other"}
  /\ UNCHANGED <<clock, begun, remain_size, receivedPacket, stray, next, peer,
                 damaged>>
-----------------------------------------------------------------------------
HandlerReceiveFile ==
  \/ TransferError \/ StartTransfer
  \/ GiveUp \/ RecvData \/ RecvTimeout \/ RecvReset \/ RecvEnd
  \/ DataSizeError \/ HashCheck \/ SaveError \/ Save

Next == HandlerReceiveFile \/ PeerLeaves \/ Crash

Spec == Init /\ [][Next]_vars

\* The thread runs, and each recv() returns in the end.
FairSpec == Spec /\ WF_vars(HandlerReceiveFile)
-----------------------------------------------------------------------------
(* Properties.                                                             *)

\* The first part holds the header and so much more that Margin times -1 do not lead
\* back into it, and nothing of the next message.
WellBegun == first \in Header + Margin .. PacketSize

\* No byte is written outside receivedPacket, although each -1 moves the place that
\* recv() writes to one back, if the first part was Margin bytes long and fits in;
\* and if it was well begun, neither is a byte of the header overwritten, nor does
\* the process crash.
InBounds ==
  /\ first \in Margin .. packetSize => ~ stray
  /\ WellBegun => /\ pc # "crashed"
                  /\ pc = "loop" => Header <= Offset /\ Offset <= PacketSize

\* What is saved is never a shifted or damaged file, whatever part of the packet
\* came first, and also when bytes of the PC's next message were taken for the
\* packet's.
SavedIsSent == file # "other" /\ (file = "sent" => ~ damaged)

\* The PC is answered, whether it stops sending, leaves or goes on, unless the
\* process crashed.
Answered == pc = "loop" ~> pc \in {"done", "crashed"}
=============================================================================
