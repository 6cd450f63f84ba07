------------------------------ MODULE RcioCrc -------------------------------
(***************************************************************************)
(* The bytes of a packet and the check value that guards them: struct      *)
(* IOPacket and crc_packet (src/src/protocol.h), the sealing of a packet   *)
(* in wait_complete and the checks of rcio_spi_read and rcio_spi_write     *)
(* (src/src/rcio_spi.c).  RcioSpi takes a packet's check value for a       *)
(* Boolean; this module says of the bytes when that is so.                 *)
(*                                                                         *)
(* A packet is a sequence of bytes.  It is filled, sealed and sent, by the *)
(* driver or, as its reply, by the board, which seals as the driver does;  *)
(* the line delivers or hurts it; and the driver judges it.                *)
(***************************************************************************)
EXTENDS Integers

CONSTANTS
  PKT_MAX_REGS,  \* words of a packet
  Headers,       \* code, page and offset of the packets tried
  Counts,        \* their counts
  Data,          \* the bytes their words are made of
  Stale,         \* what the buffer's check byte holds before it is sealed
  Beyond         \* what may lie after the buffer, all bytes alike

Byte == 0 .. 255

ASSUME CrcAssumption ==
  /\ PKT_MAX_REGS \in 1 .. 62             \* 32; a stuck line reads as 63
  /\ Counts \subseteq 0 .. PKT_MAX_REGS
  /\ Headers \subseteq {0, 64, 128} \X Byte \X Byte
  /\ Data \subseteq Byte /\ Stale \subseteq Byte /\ Beyond \subseteq Byte

\* Places of the packet's fields
COUNT_CODE == 1
CRC        == 2
REGS       == 5
Length     == 4 + 2 * PKT_MAX_REGS

PKT_CODE_SUCCESS == 0
PKT_CODE_ERROR   == 128

PKT_COUNT(p) == p[COUNT_CODE] % 64              \* & PKT_COUNT_MASK
PKT_CODE(p)  == p[COUNT_CODE] - PKT_COUNT(p)    \* & PKT_CODE_MASK

crc8_tab ==
  <<   0,   7,  14,   9,  28,  27,  18,  21,  56,  63,  54,  49,  36,  35,  42,  45,
     112, 119, 126, 121, 108, 107,  98, 101,  72,  79,  70,  65,  84,  83,  90,  93,
     224, 231, 238, 233, 252, 251, 242, 245, 216, 223, 214, 209, 196, 195, 202, 205,
     144, 151, 158, 153, 140, 139, 130, 133, 168, 175, 166, 161, 180, 179, 186, 189,
     199, 192, 201, 206, 219, 220, 213, 210, 255, 248, 241, 246, 227, 228, 237, 234,
     183, 176, 185, 190, 171, 172, 165, 162, 143, 136, 129, 134, 147, 148, 157, 154,
      39,  32,  41,  46,  59,  60,  53,  50,  31,  24,  17,  22,   3,   4,  13,  10,
      87,  80,  89,  94,  75,  76,  69,  66, 111, 104,  97, 102, 115, 116, 125, 122,
     137, 142, 135, 128, 149, 146, 155, 156, 177, 182, 191, 184, 173, 170, 163, 164,
     249, 254, 247, 240, 229, 226, 235, 236, 193, 198, 207, 200, 221, 218, 211, 212,
     105, 110, 103,  96, 117, 114, 123, 124,  81,  86,  95,  88,  77,  74,  67,  68,
      25,  30,  23,  16,   5,   2,  11,  12,  33,  38,  47,  40,  61,  58,  51,  52,
      78,  73,  64,  71,  82,  85,  92,  91, 118, 113, 120, 127, 106, 109, 100,  99,
      62,  57,  48,  55,  34,  37,  44,  43,   6,   1,   8,  15,  26,  29,  20,  19,
     174, 169, 160, 167, 178, 181, 188, 187, 150, 145, 152, 159, 138, 141, 132, 131,
     222, 217, 208, 215, 194, 197, 204, 203, 230, 225, 232, 239, 250, 253, 244, 243 >>

\* c ^ b, of bytes
Bit(a, w) == (a \div w) % 2
ByteXor(a, b) ==
  LET digit(w) == w * ((Bit(a, w) + Bit(b, w)) % 2)
  IN  digit(1) + digit(2) + digit(4) + digit(8)
        + digit(16) + digit(32) + digit(64) + digit(128)

\* The bytes before &pkt->regs[PKT_COUNT(*pkt)], also when those are more
\* than the packet has.
Covered(p) == 4 + 2 * PKT_COUNT(p)

VARIABLES
  place,    \* where the packet is
  buffer,   \* the packet
  crc, at,  \* crc_packet: the value so far, the place of the next byte
  beyond,   \* a byte after the buffer
  kept,     \* rcio_spi_read, rcio_spi_write: the reply's check byte
  call,     \* the driver's call that the reply is for
  result,   \* is that call successful?
  hurt,     \* history: what the line did to the packet
  counted   \* history: the count it had before

loopVars == <<crc, at>>
callVars == <<beyond, kept, call, result>>
history  == <<hurt, counted>>
vars == <<place, buffer, loopVars, callVars, history>>

\* A filled packet: a word is a data byte and its neighbour, the rest is
\* 0x55aa, low byte first.
Packet(h, n, stale, d, e) ==
  [i \in 1 .. Length |->
     CASE i = COUNT_CODE -> h[1] + n
       [] i = CRC        -> stale
       [] i = 3          -> h[2]
       [] i = 4          -> h[3]
       [] i >= REGS /\ i < REGS + 2 * n -> IF i % 2 = 1 THEN d ELSE e
       [] OTHER          -> IF i % 2 = 1 THEN 170 ELSE 85]

Calls == [write : BOOLEAN, count : Counts \ {0}]
NoCall == [write |-> TRUE, count |-> 0]

Init ==
  /\ place = "filled"
  /\ \E h \in Headers, n \in Counts, stale \in Stale, d, e \in Data :
       buffer = Packet(h, n, stale, d, e)
  /\ crc = 0 /\ at = 1
  /\ beyond \in Beyond
  /\ kept = 0 /\ call = NoCall /\ result = FALSE
  /\ hurt = "none" /\ counted = PKT_COUNT(buffer)

Goto(from, to) == place = from /\ place' = to

-----------------------------------------------------------------------------
(* crc_packet, a byte at a time                                            *)

ByteAt(p, i) == IF i <= Length THEN p[i] ELSE beyond

AllBytes == at > Covered(buffer)

\* Mutant: a sum, wider than a byte.
SumByte ==
  /\ place \in {"sealing", "checking"} /\ ~AllBytes
  /\ crc' = crc + ByteAt(buffer, at)
  /\ at' = at + 1
  /\ UNCHANGED <<place, buffer, callVars, history>>

CrcByte ==
  /\ place \in {"sealing", "checking"} /\ ~AllBytes
  /\ crc' = crc8_tab[ByteXor(crc, ByteAt(buffer, at)) + 1]
  /\ at' = at + 1
  /\ UNCHANGED <<place, buffer, callVars, history>>

-----------------------------------------------------------------------------
(* wait_complete                                                           *)

\* Mutant: the check byte is not cleared before it is computed.
SealStale ==
  /\ Goto("filled", "sealing")
  /\ UNCHANGED <<buffer, loopVars, callVars, history>>

Seal ==
  /\ Goto("filled", "sealing")
  /\ buffer' = [buffer EXCEPT ![CRC] = 0]
  /\ UNCHANGED <<loopVars, callVars, history>>

Sealed ==
  /\ Goto("sealing", "sealed") /\ AllBytes
  /\ buffer' = [buffer EXCEPT ![CRC] = crc]
  /\ crc' = 0 /\ at' = 1
  /\ UNCHANGED <<callVars, history>>

-----------------------------------------------------------------------------
(* The line (external): it delivers the packet, changes one byte of it or  *)
(* is stuck and delivers only zeros or only ones.                          *)

Deliver ==
  /\ Goto("sealed", "arrived")
  /\ UNCHANGED <<buffer, loopVars, callVars, history>>

Garble ==
  /\ Goto("sealed", "arrived")
  /\ \E i \in 1 .. Length, b \in Byte :
       /\ b # buffer[i]
       /\ buffer' = [buffer EXCEPT ![i] = b]
       /\ hurt' = IF i > Covered(buffer) THEN "padding"
                  ELSE IF PKT_COUNT(buffer') = counted THEN "byte"
                  ELSE "count"
  /\ UNCHANGED <<loopVars, callVars, counted>>

StuckLine ==
  /\ Goto("sealed", "arrived")
  /\ \/ buffer' = [i \in 1 .. Length |-> 0]   /\ hurt' = "low"
     \/ buffer' = [i \in 1 .. Length |-> 255] /\ hurt' = "high"
  /\ UNCHANGED <<loopVars, callVars, counted>>

-----------------------------------------------------------------------------
(* "successful transaction?"                                               *)

Check ==
  /\ Goto("arrived", "checking")
  /\ kept' = buffer[CRC]
  /\ buffer' = [buffer EXCEPT ![CRC] = 0]
  /\ UNCHANGED <<loopVars, beyond, call, result, history>>

Judged(verdict) ==
  /\ Goto("checking", "judged") /\ AllBytes
  /\ call' \in Calls
  /\ result' = verdict
  /\ UNCHANGED <<buffer, loopVars, beyond, kept, history>>

\* Mutant: the count of a reply is not compared.
JudgeAnyCount ==
  Judged(kept = crc /\ PKT_CODE(buffer) # PKT_CODE_ERROR)

\* Mutant: a write needs a count too.
JudgeEveryCount ==
  Judged(/\ kept = crc
         /\ PKT_CODE(buffer) # PKT_CODE_ERROR
         /\ PKT_COUNT(buffer) = call'.count)

Judge ==
  Judged(/\ kept = crc
         /\ PKT_CODE(buffer) # PKT_CODE_ERROR
         /\ call'.write \/ PKT_COUNT(buffer) = call'.count)

Next ==
  \/ Seal \/ Sealed
  \/ Deliver \/ Garble \/ StuckLine
  \/ Check \/ Judge
  \/ CrcByte

Spec == Init /\ [][Next]_vars

-----------------------------------------------------------------------------
(* Reference: division by x^8 + x^2 + x + 1, a bit at a time               *)

ShiftBit(c)  == IF c < 128 THEN 2 * c ELSE ByteXor(2 * c - 256, 7)
ShiftFour(c) == ShiftBit(ShiftBit(ShiftBit(ShiftBit(c))))
Divide(c)    == ShiftFour(ShiftFour(c))

\* What is left after each byte of p
Remainders(p) ==
  LET left[i \in Nat] ==
        IF i = 0 THEN 0 ELSE Divide(ByteXor(left[i - 1], p[i]))
  IN  left

-----------------------------------------------------------------------------
(* Properties                                                              *)

(* The shape of the state; the loop stays within what 63 words may cover. *)
TypeOK ==
  /\ place \in {"filled", "sealing", "sealed", "arrived", "checking", "judged"}
  /\ buffer \in [1 .. Length -> Byte]
  /\ crc \in Byte /\ at \in 1 .. (4 + 2 * 63 + 1)
  /\ beyond \in Beyond /\ kept \in Byte
  /\ call \in Calls \cup {NoCall} /\ result \in BOOLEAN
  /\ hurt \in {"none", "padding", "byte", "count", "low", "high"}
  /\ counted \in Counts

(* The table and the loop compute the remainder of the header and the words *)
(* that count, whatever the check byte held (protocol.h:396-448,            *)
(* rcio_spi.c:14-15).                                                       *)
SealIsRemainder ==
  place = "sealed" =>
    buffer[CRC] =
      Remainders([buffer EXCEPT ![CRC] = 0])[4 + 2 * PKT_COUNT(buffer)]

(* A reply that arrives whole is refused only for what it says: an error,   *)
(* or another count than a read asked for (rcio_spi.c:56-67, 97-118).       *)
WholeIsTaken ==
  place = "judged" /\ hurt \in {"none", "padding"} /\ ~result =>
    \/ PKT_CODE(buffer) = PKT_CODE_ERROR
    \/ ~call.write /\ PKT_COUNT(buffer) # call.count

(* A reply with a byte changed is refused.  The check value covers as many  *)
(* words as the count says, so a changed count may go with a check value    *)
(* that happens to fit.  The count then gives it away to a read that got    *)
(* its words: fooled are only a write, which has no use for the count, and  *)
(* a read whose reply did not have the count it asked for                   *)
(* (protocol.h:438-447, rcio_spi.c:56-67, 97-118).                          *)
GarbleIsSeen ==
  place = "judged" /\ hurt \in {"byte", "count"} /\ result =>
    hurt = "count" /\ (call.write \/ counted # call.count)

(* A line without a board does not answer a read: a packet of zeros has the *)
(* right check value and the code of a success, but no words; ones have the *)
(* wrong count (rcio_spi.c:109-112).                                        *)
StuckLineRefused ==
  place = "judged" /\ hurt \in {"low", "high"} /\ result => call.write
=============================================================================
