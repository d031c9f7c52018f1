------------------------- MODULE FileTransferProofs -------------------------
(***************************************************************************)
(* Theorems about FileTransfer for every packet, first part, chunk and     *)
(* time limit: its types, where recv() writes, and that no shifted or      *)
(* damaged file is saved.                                                  *)
(***************************************************************************)
EXTENDS FileTransfer, TLAPS

\* How many times recv() returned -1: the bytes read are that many ahead of Offset.
Fails == next - Offset

Resets == IF peer = "closed" THEN 1 ELSE 0

\* The first part is as long as -1 may move Offset back, and not longer than the buffer.
Fits == first \in Margin .. packetSize

ClockInv ==
  /\ pc = "wait" => clock = 0 /\ peer = "up" /\ first = 0
  /\ pc = "loop" => clock < Limit + Interval

\* Each -1 but the one of a reset took Interval seconds, and the loop is never
\* entered once Limit is over.
LoopInv ==
  pc = "loop" /\ Fits =>
    /\ remain_size <= packetSize
    /\ first <= next
    /\ 0 <= Fails
    /\ Interval * (Fails - Resets) <= clock

\* The header came first, and nothing is written into it.
HeaderInv ==
  WellBegun =>
    /\ packetSize = PacketSize
    /\ pc = "loop" => HeaderRead

StrayInv ==
  /\ Fits => ~ stray
  /\ WellBegun => pc # "crashed"

Inv == TypeOK /\ ClockInv /\ LoopInv /\ HeaderInv /\ StrayInv
-----------------------------------------------------------------------------
\* Multiplication by a natural number is monotonic.
LEMMA Monotonic ==
  ASSUME NEW a \in Nat, NEW x \in Int, NEW y \in Int, x <= y
  PROVE  a * x <= a * y
  OBVIOUS

\* Margin timeouts take longer than the loop lasts.
LEMMA FewTimeouts ==
  ASSUME NEW f \in Int, NEW t \in Int, t < Limit + Interval, Interval * f <= t
  PROVE  f < Margin
<1>1. SUFFICES ASSUME f >= Margin PROVE FALSE
  BY TimesAssumption
<1>2. Interval * Margin <= Interval * f
  BY <1>1, Monotonic, TimesAssumption
<1>3. Interval * Margin = Margin * Interval
  BY TimesAssumption
<1> QED
  BY <1>2, <1>3, TimesAssumption

\* A number below 2^64 is stored as it is.
LEMMA NoWrap ==
  ASSUME NEW n \in Nat, n < U64 PROVE n % U64 = n
  BY SizesAssumption

\* What is stored lies below 2^64.
LEMMA Wraps ==
  ASSUME NEW n \in Int PROVE n % U64 \in 0 .. U64 - 1
<1>1. U64 \in Nat /\ U64 > 0
  BY SizesAssumption
<1> QED
  BY <1>1

\* A well begun packet fits.
LEMMA BegunFits == Inv /\ WellBegun => Fits
  BY SizesAssumption, TimesAssumption DEF Inv, HeaderInv, TypeOK, WellBegun, Fits

\* While the first part fits, Offset is what is written so far less the failures.
LEMMA PlainOffset ==
  ASSUME TypeOK, remain_size <= packetSize
  PROVE  Offset = packetSize - remain_size
<1>1. /\ packetSize \in Nat /\ remain_size \in Nat /\ packetSize < U64
  BY SizesAssumption DEF TypeOK
<1>2. packetSize - remain_size \in Nat /\ packetSize - remain_size < U64
  BY <1>1, SizesAssumption
<1> QED
  BY <1>2, NoWrap DEF Offset

\* The arguments of the induction in numbers.
LEMMA FitsNumbers ==
  ASSUME Inv, pc = "loop", Fits
  PROVE  /\ clock \in Nat /\ next \in Nat /\ remain_size \in Nat /\ packetSize \in Nat
         /\ first \in Nat /\ packetSize < U64 /\ clock < Limit + Interval
         /\ remain_size <= packetSize /\ first <= next /\ Margin <= first
         /\ Offset = packetSize - remain_size /\ Offset \in Nat
         /\ Fails \in Int /\ 0 <= Fails /\ Resets \in {0, 1}
         /\ Interval * (Fails - Resets) <= clock
<1> USE SizesAssumption, TimesAssumption
<1>1. /\ clock \in Nat /\ next \in Nat /\ remain_size \in Nat /\ packetSize \in Nat
      /\ first \in Nat /\ packetSize < U64 /\ clock < Limit + Interval
      /\ remain_size <= packetSize /\ first <= next /\ Margin <= first
      /\ 0 <= Fails /\ Resets \in {0, 1}
      /\ Interval * (Fails - Resets) <= clock
  BY DEF Inv, TypeOK, ClockInv, LoopInv, Resets, Fits
<1>2. Offset = packetSize - remain_size
  BY PlainOffset, <1>1 DEF Inv
<1> QED
  BY <1>1, <1>2 DEF Fails

\* With the step of a -1 still to come, there is room for it.
LEMMA RoomForOne ==
  ASSUME Inv, pc = "loop", Fits, peer # "closed"
  PROVE  /\ clock < Limit => Interval * (Fails + 1) <= clock + Interval
         /\ remain_size + 1 <= packetSize
<1> USE SizesAssumption, TimesAssumption
<1>1. /\ clock \in Nat /\ next \in Nat /\ remain_size \in Nat /\ packetSize \in Nat
      /\ first \in Nat /\ clock < Limit + Interval /\ first <= next /\ Margin <= first
      /\ Offset = packetSize - remain_size
      /\ Fails \in Int /\ Resets = 0 /\ Interval * (Fails - Resets) <= clock
  BY FitsNumbers DEF Resets
<1>2. Interval * Fails <= clock
  BY <1>1
<1>3. Fails < Margin
  BY <1>1, <1>2, FewTimeouts
<1>4. Interval * (Fails + 1) = Interval * Fails + Interval
  BY <1>1
<1>5. Interval * Fails \in Int
  BY <1>1
<1>6. Interval * (Fails + 1) <= clock + Interval
  BY <1>1, <1>2, <1>4, <1>5
<1> QED
  BY <1>1, <1>3, <1>6 DEF Fails

\* A well begun packet is written to behind its header.
LEMMA BehindHeader ==
  ASSUME Inv, pc = "loop", WellBegun
  PROVE  Header <= Offset /\ Offset <= PacketSize
<1> USE SizesAssumption, TimesAssumption
<1>1. Fits
  BY BegunFits
<1>2. /\ clock \in Nat /\ next \in Nat /\ remain_size \in Nat /\ packetSize \in Nat
      /\ first \in Nat /\ clock < Limit + Interval /\ first <= next
      /\ Offset = packetSize - remain_size
      /\ Fails \in Int /\ Resets \in {0, 1} /\ Interval * (Fails - Resets) <= clock
  BY <1>1, FitsNumbers
<1>3. Fails - Resets < Margin
  BY <1>2, FewTimeouts
<1>4. Header + Margin <= first /\ packetSize = PacketSize
  BY DEF WellBegun, Inv, HeaderInv
<1> QED
  BY <1>2, <1>3, <1>4 DEF Fails

LEMMA InitInv == Init => Inv
<1> SUFFICES ASSUME Init PROVE Inv
  OBVIOUS
<1> USE SizesAssumption, TimesAssumption
<1>1. TypeOK
  <2>1. /\ packetSize \in 0 .. U64 - 1 /\ remain_size \in 0 .. U64 - 1
        /\ first \in 0 .. PacketSize + Extra /\ next \in 0 .. PacketSize + Extra
        /\ clock \in 0 .. Limit + Interval
    BY DEF Init
  <2>2. receivedPacket \in [Places -> {Unset} \cup 0 .. PacketSize + Extra - 1]
    BY DEF Init
  <2> QED
    BY <2>1, <2>2 DEF Init, TypeOK
<1>2. ClockInv /\ LoopInv /\ HeaderInv /\ StrayInv
  BY DEF Init, ClockInv, LoopInv, HeaderInv, StrayInv, Fits, WellBegun
<1> QED
  BY <1>1, <1>2 DEF Inv

\* The first part, of whatever size.
LEMMA StartStep == ASSUME Inv, StartTransfer PROVE Inv'
<1> USE SizesAssumption, TimesAssumption
<1>1. PICK size \in 1 .. PacketSize + Extra :
        /\ first' = size
        /\ packetSize' \in IF size < SizeEnd THEN Stale ELSE {PacketSize}
        /\ sized' \in IF size < Header THEN BOOLEAN ELSE {TRUE}
        /\ receivedPacket' = [i \in Places |->
             IF i < size /\ i < packetSize' THEN i ELSE Unset]
        /\ stray' = (size > packetSize')
        /\ remain_size' = (packetSize' - size) % U64
        /\ next' = size
  BY DEF StartTransfer
<1>2. /\ pc = "wait" /\ pc' = "loop" /\ clock' = 0 /\ peer' = "up" /\ clock = 0
      /\ peer = "up" /\ damaged' = damaged /\ result' = result /\ file' = file
  BY DEF StartTransfer, Inv, ClockInv
<1>3. /\ size \in Nat /\ 1 <= size /\ size <= PacketSize + Extra
      /\ packetSize' \in 0 .. U64 - 1
  BY <1>1
<1>4. receivedPacket' \in [Places -> {Unset} \cup 0 .. PacketSize + Extra - 1]
  <2> SUFFICES ASSUME NEW i \in Places
               PROVE  (IF i < size /\ i < packetSize' THEN i ELSE Unset)
                        \in {Unset} \cup 0 .. PacketSize + Extra - 1
    BY <1>1
  <2>1. i \in 0 .. PacketSize + Extra - 1
    BY DEF Places
  <2> QED
    BY <2>1
<1>5. remain_size' \in 0 .. U64 - 1
  <2>1. packetSize' - size \in Int
    BY <1>3
  <2>2. (packetSize' - size) % U64 \in 0 .. U64 - 1
    BY <2>1, Wraps
  <2>3. remain_size' = (packetSize' - size) % U64
    BY <1>1
  <2> QED
    BY <2>2, <2>3
<1>6. sized' \in BOOLEAN /\ stray' \in BOOLEAN
  <2>1. sized' \in BOOLEAN
    BY <1>1
  <2>2. stray' = (size > packetSize')
    BY <1>1
  <2>3. (size > packetSize') \in BOOLEAN
    BY <1>3
  <2> QED
    BY <2>1, <2>2, <2>3, Zenon
<1>7. TypeOK'
  BY <1>1, <1>2, <1>3, <1>4, <1>5, <1>6 DEF Inv, TypeOK
<1>8. ClockInv'
  BY <1>2 DEF ClockInv
<1>9. Fits' => LoopInv'
  <2> SUFFICES ASSUME Fits' PROVE LoopInv'
    OBVIOUS
  <2>1. size <= packetSize'
    BY <1>1 DEF Fits
  <2>2. remain_size' = packetSize' - size
    BY <1>1, <1>3, <2>1, NoWrap
  <2>3. (packetSize' - remain_size') % U64 = size
    BY <1>3, <2>1, <2>2, NoWrap
  <2>4. Fails' = 0 /\ Resets' = 0
    BY <1>1, <1>2, <1>3, <2>3 DEF Fails, Offset, Resets
  <2>5. Interval * (Fails' - Resets') = 0
    BY <2>4
  <2> QED
    BY <1>1, <1>2, <1>3, <2>1, <2>2, <2>4, <2>5 DEF LoopInv
<1>10. ASSUME WellBegun' PROVE packetSize' = PacketSize /\ HeaderRead'
  <2>1. Header + Margin <= size /\ size <= PacketSize
    BY <1>1, <1>10 DEF WellBegun
  <2>2. packetSize' = PacketSize
    BY <1>1, <1>3, <2>1
  <2>3. ASSUME NEW i \in Places, i < Header PROVE receivedPacket'[i] = i
    <3>1. i \in Nat /\ i < size /\ i < packetSize'
      BY <1>3, <2>1, <2>2, <2>3 DEF Places
    <3>2. receivedPacket'[i] = IF i < size /\ i < packetSize' THEN i ELSE Unset
      BY <1>1
    <3> QED
      BY <3>1, <3>2
  <2>4. \A i \in Places : i < Header => receivedPacket'[i] = i
    BY <2>3
  <2>5. HeaderRead'
    BY <2>4 DEF HeaderRead
  <2> QED
    BY <2>2, <2>5
<1>11. Fits' => ~ stray'
  <2>1. Fits' => size <= packetSize'
    BY <1>1 DEF Fits
  <2>2. stray' = (size > packetSize')
    BY <1>1
  <2>3. Fits' => ~ (size > packetSize')
    BY <1>3, <2>1
  <2> QED
    BY <2>2, <2>3, Zenon
<1> QED
  BY <1>2, <1>7, <1>8, <1>9, <1>10, <1>11 DEF Inv, LoopInv, HeaderInv, StrayInv

\* Data received move next and Offset alike.
LEMMA DataStep == ASSUME Inv, RecvData PROVE Inv'
<1> USE SizesAssumption, TimesAssumption
<1>1. PICK n \in 1 .. TargetSize, d \in 0 .. Interval :
        /\ next + n <= PacketSize + Extra
        /\ receivedPacket' = [i \in Places |->
             IF i < packetSize /\ Ahead(i) < n THEN next + Ahead(i)
                                              ELSE receivedPacket[i]]
        /\ stray' = (stray \/ \E k \in 0 .. n - 1 : (Offset + k) % U64 >= packetSize)
        /\ remain_size' = (remain_size - n) % U64
        /\ next' = next + n
        /\ clock' = Later(d)
  BY DEF RecvData
<1>2. /\ pc = "loop" /\ pc' = "loop" /\ peer' = peer /\ first' = first
      /\ packetSize' = packetSize /\ sized' = sized
      /\ damaged' = damaged /\ result' = result /\ file' = file
  BY DEF RecvData, Receiving, begun
<1>3. /\ remain_size \in Nat /\ packetSize \in Nat /\ next \in Nat /\ first \in Nat
      /\ packetSize < U64 /\ remain_size < U64
      /\ clock \in Nat /\ clock < Limit /\ Offset \in 0 .. U64 - 1
  <2>1. /\ remain_size \in Nat /\ packetSize \in Nat /\ next \in Nat /\ first \in Nat
        /\ packetSize < U64 /\ remain_size < U64 /\ clock \in Nat /\ clock < Limit
    BY DEF RecvData, Receiving, Overdue, Inv, TypeOK
  <2> QED
    BY <2>1, Wraps DEF Offset
<1>4. n \in Nat /\ 1 <= n /\ n <= remain_size
  BY <1>3 DEF TargetSize
<1>5. remain_size' = remain_size - n
  BY <1>1, <1>3, <1>4, NoWrap
<1>6. clock' = clock + d /\ d \in 0 .. Interval
  BY <1>1, <1>3 DEF Later
<1>7. ASSUME NEW i \in Places PROVE Ahead(i) \in Nat
  <2>1. i - Offset \in Int
    BY <1>3 DEF Places
  <2> QED
    BY <2>1, Wraps DEF Ahead
<1>8. receivedPacket' \in [Places -> {Unset} \cup 0 .. PacketSize + Extra - 1]
  <2> SUFFICES ASSUME NEW i \in Places
               PROVE  (IF i < packetSize /\ Ahead(i) < n THEN next + Ahead(i)
                                                         ELSE receivedPacket[i])
                        \in {Unset} \cup 0 .. PacketSize + Extra - 1
    BY <1>1
  <2>1. receivedPacket[i] \in {Unset} \cup 0 .. PacketSize + Extra - 1
    BY DEF Inv, TypeOK
  <2>2. Ahead(i) < n => next + Ahead(i) \in 0 .. PacketSize + Extra - 1
    BY <1>1, <1>3, <1>4, <1>7
  <2> QED
    BY <2>1, <2>2
<1>9. TypeOK'
  <2>1. stray' \in BOOLEAN
    BY <1>1
  <2>2. /\ clock' \in 0 .. Limit + Interval /\ remain_size' \in 0 .. U64 - 1
        /\ next' \in 0 .. PacketSize + Extra
    BY <1>1, <1>3, <1>4, <1>5, <1>6
  <2> QED
    BY <1>2, <1>8, <2>1, <2>2 DEF Inv, TypeOK
<1>10. ClockInv'
  BY <1>2, <1>3, <1>6 DEF ClockInv
<1>11. ASSUME Fits
       PROVE  /\ Fails' = Fails /\ Resets' = Resets /\ Offset + n <= packetSize
              /\ remain_size' <= packetSize /\ first <= next'
              /\ 0 <= Fails /\ Interval * (Fails' - Resets') <= clock'
  <2>1. /\ remain_size <= packetSize /\ first <= next /\ 0 <= Fails
        /\ Offset = packetSize - remain_size
        /\ Fails \in Int /\ Resets \in {0, 1} /\ Interval * (Fails - Resets) <= clock
    BY <1>2, <1>11, FitsNumbers
  <2>2. Offset' = packetSize - remain_size'
    <3>1. /\ packetSize - remain_size' \in Nat
          /\ packetSize - remain_size' < U64
      BY <1>3, <1>4, <1>5, <2>1
    <3>2. Offset' = (packetSize - remain_size') % U64
      BY <1>2 DEF Offset
    <3> QED
      BY <3>1, <3>2, NoWrap
  <2>3. Fails' = Fails /\ Resets' = Resets
    BY <1>1, <1>2, <1>3, <1>4, <1>5, <2>1, <2>2 DEF Fails, Resets
  <2>4. Interval * (Fails' - Resets') = Interval * (Fails - Resets)
    BY <2>3
  <2>5. Interval * (Fails - Resets) \in Int
    BY <2>1
  <2>6. Interval * (Fails' - Resets') <= clock'
    BY <1>3, <1>6, <2>1, <2>4, <2>5
  <2> QED
    BY <1>1, <1>3, <1>4, <1>5, <2>1, <2>3, <2>6
<1>12. LoopInv'
  BY <1>2, <1>11 DEF LoopInv, Fits
<1>13. Fits => ~ stray'
  <2> SUFFICES ASSUME Fits PROVE ~ stray'
    OBVIOUS
  <2>1. ASSUME NEW k \in 0 .. n - 1 PROVE ~ (Offset + k) % U64 >= packetSize
    <3>1. Offset + k \in Nat /\ Offset + k < packetSize /\ Offset + k < U64
      BY <1>3, <1>4, <1>11
    <3> QED
      BY <1>3, <3>1, NoWrap
  <2>2. ~ stray
    BY DEF Inv, StrayInv
  <2> QED
    BY <1>1, <2>1, <2>2
<1>14. ASSUME WellBegun PROVE HeaderRead'
  <2>1. Header <= Offset /\ Fits /\ Offset + n <= packetSize
    BY <1>2, <1>11, <1>14, BehindHeader, BegunFits
  <2>2. HeaderRead
    BY <1>2, <1>14 DEF Inv, HeaderInv
  <2> SUFFICES ASSUME NEW i \in Places, i < Header PROVE receivedPacket'[i] = i
    BY DEF HeaderRead
  <2>3. i \in Nat /\ i - Offset < 0 /\ i - Offset + U64 \in Nat
        /\ i - Offset + U64 < U64 /\ i - Offset + U64 >= n
    BY <1>3, <1>4, <2>1 DEF Places
  <2>4. (i - Offset) % U64 = i - Offset + U64
    BY <1>3, <2>3
  <2> QED
    BY <1>1, <1>3, <1>4, <2>2, <2>3, <2>4 DEF HeaderRead, Ahead
<1>15. HeaderInv'
  BY <1>2, <1>14 DEF Inv, HeaderInv, WellBegun
<1>16. StrayInv'
  BY <1>2, <1>13 DEF StrayInv, Fits
<1> QED
  BY <1>9, <1>10, <1>12, <1>15, <1>16 DEF Inv

\* A timeout, or the -1 of a reset, moves Offset back by one, and there is room for it.
LEMMA FailStep == ASSUME Inv, RecvTimeout \/ RecvReset PROVE Inv'
<1> USE SizesAssumption, TimesAssumption
<1>1. /\ pc = "loop" /\ peer # "closed" /\ clock < Limit /\ clock \in Nat
      /\ remain_size \in Nat /\ next \in Nat /\ packetSize \in Nat /\ packetSize < U64
  BY DEF RecvTimeout, RecvReset, Receiving, Overdue, Inv, TypeOK
<1>2. /\ pc' = pc /\ next' = next /\ receivedPacket' = receivedPacket
      /\ first' = first /\ packetSize' = packetSize /\ sized' = sized /\ stray' = stray
      /\ damaged' = damaged /\ result' = result /\ file' = file
      /\ remain_size' = (remain_size + 1) % U64
  BY DEF RecvTimeout, RecvReset, begun
<1>3. \/ clock' = clock + Interval /\ peer' = "up" /\ peer = "up"
      \/ clock' = clock /\ peer' = "closed"
  BY <1>1 DEF RecvTimeout, RecvReset, Later
<1>4. TypeOK'
  <2>1. remain_size' \in 0 .. U64 - 1
    BY <1>1, <1>2, Wraps
  <2>2. clock' \in 0 .. Limit + Interval /\ peer' \in {"up", "closed"}
    BY <1>1, <1>3
  <2> QED
    BY <1>2, <2>1, <2>2 DEF Inv, TypeOK
<1>5. ClockInv'
  BY <1>1, <1>2, <1>3 DEF ClockInv
<1>6. ASSUME Fits
      PROVE  /\ remain_size' <= packetSize /\ first <= next
             /\ 0 <= Fails' /\ Interval * (Fails' - Resets') <= clock'
  <2>1. /\ first <= next /\ 0 <= Fails /\ Fails \in Int /\ Resets = 0
        /\ Offset = packetSize - remain_size /\ Interval * (Fails - Resets) <= clock
    BY <1>1, <1>6, FitsNumbers DEF Resets
  <2>2. /\ Interval * (Fails + 1) <= clock + Interval
        /\ remain_size + 1 <= packetSize
    BY <1>1, <1>6, RoomForOne
  <2>3. remain_size' = remain_size + 1
    BY <1>1, <1>2, <2>2, NoWrap
  <2>4. Offset' = packetSize - remain_size'
    BY <1>1, <1>2, <2>2, <2>3, NoWrap DEF Offset
  <2>5. Fails' = Fails + 1
    BY <1>1, <1>2, <2>1, <2>3, <2>4 DEF Fails
  <2>6. CASE peer' = "up"
    <3>1. Resets' = 0 /\ clock' = clock + Interval
      BY <1>3, <2>6 DEF Resets
    <3>2. Fails' - Resets' = Fails + 1
      BY <2>1, <2>5, <3>1
    <3> QED
      BY <2>1, <2>2, <2>3, <2>5, <3>1, <3>2
  <2>7. CASE peer' = "closed"
    <3>1. Resets' = 1 /\ clock' = clock
      BY <1>1, <1>3, <2>7 DEF Resets
    <3>2. Fails' - Resets' = Fails - Resets
      BY <2>1, <2>5, <3>1
    <3> QED
      BY <2>1, <2>2, <2>3, <2>5, <3>1, <3>2
  <2> QED
    BY <1>3, <2>6, <2>7
<1>7. LoopInv'
  BY <1>2, <1>6 DEF LoopInv, Fits
<1>8. HeaderInv' /\ StrayInv'
  BY <1>1, <1>2 DEF Inv, HeaderInv, StrayInv, WellBegun, Fits, HeaderRead
<1> QED
  BY <1>4, <1>5, <1>7, <1>8 DEF Inv

\* Waiting at the closed connection, or the PC's leaving, moves nothing.
LEMMA IdleStep == ASSUME Inv, RecvEnd \/ PeerLeaves PROVE Inv'
<1> USE SizesAssumption, TimesAssumption
<1>1. /\ pc = "loop" /\ clock < Limit + Interval /\ clock \in Nat
  BY DEF RecvEnd, PeerLeaves, Receiving, Inv, TypeOK, ClockInv
<1>2. /\ pc' = pc /\ next' = next /\ remain_size' = remain_size
      /\ first' = first /\ packetSize' = packetSize /\ sized' = sized /\ stray' = stray
      /\ receivedPacket' = receivedPacket
      /\ damaged' = damaged /\ result' = result /\ file' = file
  BY DEF RecvEnd, PeerLeaves, begun
<1>3. /\ clock' \in Nat /\ clock <= clock' /\ clock' < Limit + Interval
      /\ peer' \in {"reset", "closed"} /\ (peer = "closed" => peer' = "closed")
  <2>1. CASE RecvEnd
    BY <1>1, <2>1 DEF RecvEnd, Receiving, Overdue, Later
  <2>2. CASE PeerLeaves
    BY <1>1, <2>2 DEF PeerLeaves
  <2> QED
    BY <2>1, <2>2
<1>4. TypeOK' /\ ClockInv'
  BY <1>1, <1>2, <1>3 DEF Inv, TypeOK, ClockInv
<1>5. ASSUME Fits PROVE Fails' = Fails /\ Interval * (Fails' - Resets') <= clock'
  <2>1. Fails \in Int /\ Resets \in {0, 1} /\ Interval * (Fails - Resets) <= clock
    BY <1>1, <1>5, FitsNumbers
  <2>2. Fails' = Fails /\ Resets' \in Int /\ Resets <= Resets'
    BY <1>2, <1>3 DEF Fails, Offset, Resets
  <2>3. Interval * (Fails' - Resets') <= Interval * (Fails - Resets)
    BY <2>1, <2>2, Monotonic
  <2>4. Interval * (Fails' - Resets') \in Int /\ Interval * (Fails - Resets) \in Int
    BY <2>1, <2>2
  <2> QED
    BY <1>1, <1>3, <2>1, <2>2, <2>3, <2>4
<1>6. LoopInv'
  BY <1>1, <1>2, <1>5 DEF Inv, LoopInv, Fits
<1>7. HeaderInv' /\ StrayInv'
  BY <1>1, <1>2 DEF Inv, HeaderInv, StrayInv, WellBegun, Fits, HeaderRead
<1> QED
  BY <1>4, <1>6, <1>7 DEF Inv

\* A well begun packet gives nothing to crash on.
LEMMA CrashStep == ASSUME Inv, Crash PROVE Inv'
<1>1. ~ WellBegun
  <2> SUFFICES ASSUME WellBegun PROVE FALSE
    OBVIOUS
  <2>1. ~ stray /\ packetSize = PacketSize /\ (pc = "loop" => HeaderRead)
    BY BegunFits DEF Inv, HeaderInv, StrayInv
  <2>2. pc = "loop" => Readable
    BY <2>1, SizesAssumption DEF Readable
  <2> QED
    BY <2>1, <2>2 DEF Crash, Complete
<1> QED
  BY <1>1 DEF Crash, begun, Inv, TypeOK, ClockInv, LoopInv, HeaderInv, StrayInv, WellBegun, Fits

LEMMA NextInv == Inv /\ [Next]_vars => Inv'
<1> SUFFICES ASSUME Inv, [Next]_vars PROVE Inv'
  OBVIOUS
<1> USE DEF ClockInv, LoopInv, HeaderInv, StrayInv, WellBegun, Fits
<1>1. CASE TransferError
  BY <1>1 DEF TransferError, Answer, begun, Inv, TypeOK
<1>2. CASE StartTransfer
  BY <1>2, StartStep
<1>3. CASE GiveUp
  BY <1>3 DEF GiveUp, Answer, begun, Inv, TypeOK
<1>4. CASE RecvData
  BY <1>4, DataStep
<1>5. CASE RecvTimeout \/ RecvReset
  BY <1>5, FailStep
<1>6. CASE RecvEnd \/ PeerLeaves
  BY <1>6, IdleStep
<1>7. CASE DataSizeError
  BY <1>7 DEF DataSizeError, Answer, begun, Inv, TypeOK
<1>8. CASE HashCheck
  BY <1>8 DEF HashCheck, Answer, begun, Inv, TypeOK
<1>9. CASE SaveError
  BY <1>9 DEF SaveError, Answer, begun, Inv, TypeOK
<1>10. CASE Save
  BY <1>10 DEF Save, Answer, begun, Inv, TypeOK
<1>11. CASE Crash
  BY <1>11, CrashStep
<1>12. CASE UNCHANGED vars
  BY <1>12 DEF vars, begun, Inv, TypeOK, HeaderRead, Fails, Offset, Resets
<1> QED
  BY <1>1, <1>2, <1>3, <1>4, <1>5, <1>6, <1>7, <1>8, <1>9, <1>10, <1>11, <1>12
     DEF Next, HandlerReceiveFile

LEMMA InvBounds == Inv => InBounds
  BY BehindHeader DEF Inv, StrayInv, Fits, InBounds
-----------------------------------------------------------------------------
\* Every reachable state is typed, whatever part of the packet came first: each
\* byte in receivedPacket is one the PC sent.  The unsigned remain_size may wrap
\* around; the next theorem says when it does not.
THEOREM TypeCorrect == Spec => []TypeOK
<1>1. Inv => TypeOK
  BY DEF Inv
<1> QED
  BY <1>1, InitInv, NextInv, PTL DEF Spec

\* No byte is written outside receivedPacket when the first recv() returned at least
\* Margin bytes and not more than the packet has, and neither is the header written
\* over, nor does the process crash, when it returned the header and Margin bytes;
\* for every packet, chunk and time limit.
THEOREM WritesInBounds == Spec => []InBounds
  BY InitInv, NextInv, InvBounds, PTL DEF Spec
-----------------------------------------------------------------------------
\* The hash was compared before the file is opened, nothing is received in
\* between, and until then the file is as it was.
SaveInv ==
  /\ pc = "save" => HashAgrees
  /\ pc # "done" => file = "old"
  /\ SavedIsSent

\* Only HashCheck leads to Save, and it does so with the data of the PC.
LEMMA NextSave == SaveInv /\ [Next]_vars => SaveInv'
<1> SUFFICES ASSUME SaveInv, [Next]_vars PROVE SaveInv'
  OBVIOUS
<1> USE DEF SaveInv, SavedIsSent
<1>1. CASE TransferError \/ GiveUp \/ SaveError \/ DataSizeError \/ Crash
  BY <1>1 DEF TransferError, GiveUp, SaveError, DataSizeError, Complete, Crash, Answer
<1>2. CASE StartTransfer
  BY <1>2 DEF StartTransfer
<1>3. CASE RecvData \/ RecvTimeout \/ RecvReset \/ RecvEnd
  BY <1>3 DEF RecvData, RecvTimeout, RecvReset, RecvEnd, Receiving
<1>4. CASE HashCheck
  <2>1. HashAgrees' <=> HashAgrees
    BY <1>4 DEF HashCheck, HashAgrees, Intact
  <2> QED
    BY <1>4, <2>1 DEF HashCheck, Complete, Answer
<1>5. CASE Save
  <2>1. Intact /\ ~ damaged
    BY <1>5 DEF Save, HashAgrees
  <2>2. file' \in {"short", "sent"} /\ pc' = "done" /\ damaged' = damaged
    BY <1>5, <2>1 DEF Save, Answer
  <2> QED
    BY <2>1, <2>2
<1>6. CASE PeerLeaves
  BY <1>6 DEF PeerLeaves
<1>7. CASE UNCHANGED vars
  BY <1>7 DEF vars, HashAgrees, Intact
<1> QED
  BY <1>1, <1>2, <1>3, <1>4, <1>5, <1>6, <1>7 DEF Next, HandlerReceiveFile

\* A file that was saved whole is the one the PC sent, undamaged, whatever
\* first part, timeouts, resets and bytes of the next message came in between.
THEOREM SavedCorrect == Spec => []SavedIsSent
<1>1. Init => SaveInv
  BY DEF Init, SaveInv, SavedIsSent
<1>2. SaveInv => SavedIsSent
  BY DEF SaveInv
<1> QED
  BY <1>1, <1>2, NextSave, PTL DEF Spec
=============================================================================
