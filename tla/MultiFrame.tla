----------------------------- MODULE MultiFrame -----------------------------
(***************************************************************************)
(* The arithmetic of an averaged raw capture (multiframe_process.cpp), for *)
(* one pixel: MultiFrameAddition adds each frame's 16-bit value, after the *)
(* exchange of its bytes when the sensor delivers them the other way, to a *)
(* 32-bit sum, and MultiFrameAverage divides the sum by the number of      *)
(* frames, which it does by a shift.  RawCapture is the protocol around    *)
(* it; their names are distinct, so that a module can extend both.         *)
(***************************************************************************)
EXTENDS Integers

CONSTANTS
  Byte,          \* 256: the number of values of a byte
  U32,           \* 2^32
  FrameNumbers,  \* the frame numbers a PC may set
  BiToLi         \* whether the bytes are exchanged

U16 == Byte * Byte

ASSUME WidthAssumption ==
  Byte \in Nat \ {0, 1} /\ U32 \in Nat /\ 256 * U16 <= U32
ASSUME FrameNumbersAssumption == FrameNumbers \subseteq 1 .. 255
ASSUME OrderAssumption == BiToLi \in BOOLEAN

VARIABLES
  frameNumber,
  added,              \* how many frames were added
  pIn1_pOut, POut,    \* averge_frame0 and averge_frame1
  total, least, most, \* history: the sum, least and greatest of the pixel's values
  done

pixelVars == <<frameNumber, added, pIn1_pOut, POut, total, least, most, done>>

Pixels == 0 .. U16 - 1

Exchanged(p) == (p % Byte) * Byte + p \div Byte

\* How the driver stores the sensor's value.
Stored(v) == IF BiToLi THEN Exchanged(v) ELSE v

\* How MultiFrameAddition loads it.
Loaded(p) == IF BiToLi THEN Exchanged(p) ELSE p

PixelTypeOK ==
  /\ frameNumber \in FrameNumbers
  /\ added \in 0 .. frameNumber
  /\ pIn1_pOut \in 0 .. U32 - 1 /\ POut \in Pixels
  /\ total \in Nat /\ least \in Nat /\ most \in Nat
  /\ done \in BOOLEAN

PixelInit ==
  /\ frameNumber \in FrameNumbers
  /\ added = 0
  /\ pIn1_pOut = 0 /\ POut = 0
  /\ total = 0 /\ least = U16 - 1 /\ most = 0
  /\ done = FALSE

MultiFrameAddition(v) ==
  /\ added < frameNumber
  /\ pIn1_pOut' = (pIn1_pOut + Loaded(Stored(v))) % U32
  /\ added' = added + 1
  /\ total' = total + v
  /\ least' = IF v < least THEN v ELSE least
  /\ most' = IF v > most THEN v ELSE most
  /\ UNCHANGED <<frameNumber, POut, done>>

\* The frame numbers the switch knows; n of the code is their logarithm.
Powers == {2, 4, 8, 16, 32, 64, 128}

\* Variant: the rounding offset is forgotten.
RoundOffsetZero == 0

RoundOffset == frameNumber \div 2

\* For any other number the function returns before it writes the result.
MultiFrameAverage ==
  /\ added = frameNumber /\ ~ done
  /\ IF frameNumber \in Powers
       THEN /\ pIn1_pOut' = ((pIn1_pOut + RoundOffset) % U32) \div frameNumber
            /\ POut' = pIn1_pOut' % U16
       ELSE UNCHANGED <<pIn1_pOut, POut>>
  /\ done' = TRUE
  /\ UNCHANGED <<frameNumber, added, total, least, most>>

PixelNext == MultiFrameAverage \/ \E v \in Pixels : MultiFrameAddition(v)

PixelSpec == PixelInit /\ [][PixelNext]_pixelVars
-----------------------------------------------------------------------------
(* Properties.                                                             *)

\* What an average is: the nearest integer, halves upwards.
Average == (2 * total + frameNumber) \div (2 * frameNumber)

\* For the frame numbers the code knows, the pixel sent is the average of the
\* pixel's values: neither the sum nor the offset overflows 32 bits, nor the
\* result 16.
Averaged == done /\ frameNumber \in Powers => POut = Average

\* The pixel sent lies between the least and the greatest of its values: an
\* average neither invents highlights nor loses them by a wrap.
WithinFrames == done /\ frameNumber \in Powers => least <= POut /\ POut <= most
=============================================================================
