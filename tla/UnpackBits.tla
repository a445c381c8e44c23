----------------------------- MODULE UnpackBits -----------------------------
(***************************************************************************)
(* UnpackData of net.h, one iteration of its loop at a time: it reads a    *)
(* field of bitSize bits that starts at bit bitIndex of a packet, the most *)
(* significant bit of a byte first.                                        *)
(*                                                                         *)
(* mask has no variable: it is always 2^bitOffset - 1.                     *)
(***************************************************************************)
EXTENDS Integers, SequencesExt

CONSTANTS
  Packets,  \* the packets, sequences of bytes
  Stray,    \* the bytes that may follow a packet in memory
  Sizes,    \* the values of bitSize: callers use 1 to 30
  Widths    \* the width of T: 8, 16, 32

ASSUME PacketsAssumption == \A p \in Packets : p \in Seq(0 .. 255)
ASSUME SizesAssumption == Stray \subseteq 0 .. 255 /\ Sizes \subseteq 1 .. 30 /\ Widths \subseteq {8, 16, 32}

VARIABLES
  data,       \* the packet
  stray,      \* the byte behind it
  bitSize, bitIndex, width,  \* the arguments and T
  pc,
  shiftBy,    \* bits of the field still to be read
  i,          \* the byte to be read next, from 0
  bitOffset,  \* how many of its bits belong to what is left of the packet
  unpacked,   \* what has been read
  result

args == <<data, stray, bitSize, bitIndex, width>>
vars == <<args, pc, shiftBy, i, bitOffset, unpacked, result>>

Byte(k) == IF k < Len(data) THEN data[k + 1] ELSE stray
(* What is left of x in a T; with at most 30 bits 32 are never exceeded.   *)
Cut(x) == IF width = 32 THEN x ELSE x % 2 ^ width

(* A field within the packet.                                              *)
Init ==
  /\ data \in Packets /\ stray \in Stray
  /\ bitSize \in Sizes /\ width \in Widths
  /\ bitIndex \in 0 .. 8 * Len(data) - bitSize
  /\ pc = "loop"
  /\ shiftBy = bitSize
  /\ i = bitIndex \div 8
  /\ bitOffset = 8 - (bitIndex % 8)
  /\ unpacked = 0
  /\ result = 0

-----------------------------------------------------------------------------
(* Slips; no part of the specification.                                    *)

(* The last byte is not masked.                                            *)
ReturnUnmasked ==
  /\ pc = "loop" /\ shiftBy < bitOffset
  /\ result' = Cut(unpacked + Byte(i) \div 2 ^ (bitOffset - shiftBy))
  /\ pc' = "done"
  /\ UNCHANGED <<args, shiftBy, i, bitOffset, unpacked>>

(* The index moves on once more behind the last byte.                      *)
ReturnLate ==
  /\ pc = "loop" /\ shiftBy < bitOffset
  /\ result' = Cut(unpacked + Byte(i) \div 2 ^ (bitOffset - shiftBy)) % 2 ^ bitSize
  /\ i' = i + 1
  /\ pc' = "done"
  /\ UNCHANGED <<args, shiftBy, bitOffset, unpacked>>

(* The bits of a byte are not moved to their place.                        *)
TakeByteUnshifted ==
  /\ pc = "loop" /\ shiftBy >= bitOffset
  /\ unpacked' = Cut(unpacked + (Byte(i) % 2 ^ bitOffset))
  /\ shiftBy' = shiftBy - bitOffset
  /\ i' = i + 1
  /\ bitOffset' = 8
  /\ UNCHANGED <<args, pc, result>>

-----------------------------------------------------------------------------
TakeByte ==
  /\ pc = "loop"
  /\ shiftBy >= bitOffset
  /\ unpacked' = Cut(unpacked + (Byte(i) % 2 ^ bitOffset) * 2 ^ (shiftBy - bitOffset))
  /\ shiftBy' = shiftBy - bitOffset
  /\ i' = i + 1
  /\ bitOffset' = 8
  /\ UNCHANGED <<args, pc, result>>

(* The sum is masked as a whole: + binds tighter than &.  The test for     *)
(* shiftBy == bitOffset before it can never be true.                       *)
Return ==
  /\ pc = "loop"
  /\ shiftBy < bitOffset
  /\ result' = Cut((unpacked + Byte(i) \div 2 ^ (bitOffset - shiftBy)) % 2 ^ bitSize)
  /\ pc' = "done"
  /\ UNCHANGED <<args, shiftBy, i, bitOffset, unpacked>>

Next == TakeByte \/ Return

Spec == Init /\ [][Next]_vars /\ WF_vars(Next)
-----------------------------------------------------------------------------
(* The bit of the packet at place k, and the number that n bits from place *)
(* k on denote; a field has at most 30 of them.                            *)
Bit(k) == (data[k \div 8 + 1] \div 2 ^ (7 - (k % 8))) % 2
Field(k, n) ==
  LET F[m \in 0 .. 30] == IF m = 0 THEN 0 ELSE 2 * F[m - 1] + Bit(k + m - 1)
  IN  F[n]

(* UnpackData returns the field, as much of it as T holds, also when the   *)
(* field ends with the packet and the byte behind it is read.              *)
Unpacked == pc = "done" => result = Cut(Field(bitIndex, bitSize))

(* What is read so far is the field's front, in its place.                 *)
Accumulated == unpacked = Cut(Field(bitIndex, bitSize - shiftBy) * 2 ^ shiftBy)

(* No byte is read further than one behind the packet.                     *)
ReadsWithin == i <= Len(data)
=============================================================================
