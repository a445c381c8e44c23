----------------------------- MODULE MCPackets -----------------------------
(* Small instances of UnpackBits and Packets for TLC: the bytes of         *)
(* UnitTests_Unpack (entry.cpp:320), and short packets with all bits set,  *)
(* none or some; slot updates below and above 256 bytes.                   *)
EXTENDS Packets

MCPacketBytes ==
  {<<30, 0, 94, 184, 80, 10, 213, 41>>} \cup [1 .. 2 -> {0, 165, 255}] \cup {<<255, 255, 255, 255>>}

MCSlotUpdates ==
  [slot : {0, 127, 128, 300}, item : {0, 1, 4151}, quantity : {0, 254, 255, 70000},
   entries : {None, 0, 1, 41, 42, 43, 60}]

MCChats == [type : {0, 127, 128, 2000}, content : {<<>>, <<65>>, <<160, 128, 65>>}]
MCDialogs == {<<0, 0, 0, 7>>, <<4, 3, 2, 1>>}
=============================================================================
