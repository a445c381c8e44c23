------------------------------ MODULE Packets ------------------------------
(***************************************************************************)
(* The message handlers of entry.cpp that take a packet apart field by     *)
(* field.  SetSlotItem keeps its place in the packet in an 8-bit offset    *)
(* and does not look at the packet's size; HandleRecvGameMessage and       *)
(* HandleOpenDialog push what they read as events; HandleLoadWorld reads   *)
(* its tile with UnpackData (UnpackBits, whose steps are steps here).      *)
(*                                                                         *)
(* The packets come from the game's server.  Their format is the one the   *)
(* handlers were written for, and is written down here as the operators    *)
(* that put a packet together.                                             *)
(***************************************************************************)
EXTENDS UnpackBits

CONSTANTS
  SlotUpdates,  \* item slots that are set: slot, item, quantity, entries behind them
  Chats,        \* game messages: type and content
  Dialogs,      \* ids of interfaces that are opened, as four bytes
  OffsetMod,    \* 2^8 for SetSlotItem's uint8_t
  None

(* An offset of eight bits does not overflow before the entries.  The      *)
(* numbers fit the forms below: a smart number has at most 15 bits, a      *)
(* quantity at most 24; text has no 0.                                     *)
ASSUME PacketsConstants ==
  /\ OffsetMod \in Nat /\ OffsetMod > 16
  /\ None \notin SlotUpdates \cup Chats \cup Dialogs
ASSUME MessagesAssumption ==
  /\ SlotUpdates \subseteq [slot : 0 .. 2 ^ 15 - 1, item : 0 .. 2 ^ 16 - 1, quantity : 0 .. 2 ^ 24 - 1,
                            entries : 0 .. 255 \cup {None}]
  /\ Chats \subseteq [type : 0 .. 2 ^ 15 - 1, content : Seq(1 .. 255)]
  /\ \A id \in Dialogs : id \in Seq(0 .. 255) /\ Len(id) = 4

VARIABLES
  handler, \* the handler that the packet's message id belongs to
  sent,    \* what the server put into the packet
  packet,  \* the packet
  at,      \* the field that the handler reads next
  offset,  \* offset of SetSlotItem, index of HandleRecvGameMessage
  reach,   \* how much of memory from the packet's start on was read
  fields,  \* the fields read so far
  event    \* the event that was pushed

bitVars == <<args, pc, shiftBy, i, bitOffset, unpacked, result>>
handlerVars == <<handler, sent, packet, at, offset, reach, fields, event>>
-----------------------------------------------------------------------------
(* The game's server.                                                      *)

BE16(n) == <<n \div 256, n % 256>>
SmartBytes(n) == IF n < 128 THEN <<n>> ELSE BE16(n + 32768)
QuantityBytes(n) == IF n < 255 THEN <<n>> ELSE <<255, 0>> \o BE16(n \div 256) \o <<n % 256>>
Entry == <<0, 1, 0, 0, 0, 2>>

(* An empty slot has neither a quantity nor entries.                       *)
SlotPacket(u) ==
  <<0, 5, IF u.entries = None THEN 0 ELSE 2>> \o SmartBytes(u.slot) \o BE16(u.item)
  \o (IF u.item = 0 THEN <<>>
      ELSE QuantityBytes(u.quantity)
           \o (IF u.entries = None THEN <<>>
               ELSE <<u.entries>> \o [j \in 1 .. 6 * u.entries |-> Entry[((j - 1) % 6) + 1]]))

ChatPacket(c) == SmartBytes(c.type) \o <<0, 0, 0, 9, 1>> \o c.content \o <<0>>

DialogPacket(id) == <<0, 0, 0, 0, 0, 0, 0, 0, 0, 0>> \o id

Arrives(h, s, p) ==
  /\ handler = h /\ sent = s /\ packet = p /\ at = "first"
  /\ offset = 0 /\ reach = 0 /\ fields = <<>> /\ event = None

NoPacket == Arrives("HandleLoadWorld", None, <<>>)
NoField ==
  /\ data = <<>> /\ stray \in Stray /\ bitSize = 1 /\ bitIndex = 0 /\ width = 8 /\ pc = "none"
  /\ shiftBy = 1 /\ i = 0 /\ bitOffset = 8 /\ unpacked = 0 /\ result = 0

HandlerInit ==
  \/ Init /\ NoPacket
  \/ /\ NoField
     /\ \/ \E u \in SlotUpdates : Arrives("SetSlotItem", u, SlotPacket(u))
        \/ \E c \in Chats : Arrives("HandleRecvGameMessage", c, ChatPacket(c))
        \/ \E id \in Dialogs : Arrives("HandleOpenDialog", id, DialogPacket(id))
-----------------------------------------------------------------------------
(* Reading.  _rotl16(.., 8) of what a little-endian machine loads is the   *)
(* number whose high byte comes first.                                     *)

At(k) == IF k < Len(packet) THEN packet[k + 1] ELSE stray
Word(k) == At(k) * 256 + At(k + 1)
Smart(k) == IF At(k) >= 128 THEN (Word(k) + 32768) % 65536 ELSE At(k)
SmartSize(k) == IF At(k) >= 128 THEN 2 ELSE 1

(* Reads up to the byte at last, and moves the offset by n.                *)
Read(last, n, next) ==
  /\ reach' = IF last + 1 > reach THEN last + 1 ELSE reach
  /\ offset' = (offset + n) % OffsetMod
  /\ at' = next
  /\ UNCHANGED <<handler, sent, packet, bitVars>>

Also(name, value) == fields' = [f \in DOMAIN fields \cup {name} |-> IF f = name THEN value ELSE fields[f]]
Flag == (At(2) \div 2) % 2 = 1
-----------------------------------------------------------------------------
(* Slips, no part of the specification.                                    *)

(* The marker of a long quantity is not counted.                           *)
QuantityUnmarked ==
  /\ at = "quantity"
  /\ LET long == At(offset) = 255
         next == IF Flag THEN "count" ELSE "entries"
     IN  Read(offset + 3, IF long THEN 4 ELSE 1, next)
  /\ Also("left", 0)
  /\ UNCHANGED event

(* The number of entries is read although the flag is not set.             *)
QuantityUnflagged ==
  /\ at = "quantity"
  /\ Read(offset + 3, IF At(offset) = 255 THEN 5 ELSE 1, "count")
  /\ Also("left", 0)
  /\ UNCHANGED event

(* The content starts at the byte before.                                  *)
ContentEarly ==
  /\ at = "content"
  /\ LET last == CHOOSE k \in offset .. Len(packet) :
                   At(k) = 0 /\ \A j \in offset .. k - 1 : At(j) # 0
     IN  /\ Read(last, 1, "done")
         /\ event' = [type |-> fields.type, content |-> SubSeq(packet, offset + 1, last)]
  /\ UNCHANGED fields
-----------------------------------------------------------------------------
(* SetSlotItem.                                                            *)

Header == handler = "SetSlotItem" /\ at = "first" /\ Read(2, 3, "slot") /\ UNCHANGED <<fields, event>>

Slot ==
  /\ at = "slot"
  /\ Read(offset + SmartSize(offset) - 1, SmartSize(offset), "item")
  /\ Also("slot", Smart(offset))
  /\ UNCHANGED event

(* Only an item has a quantity; count is 0 until it is read.               *)
ItemId ==
  /\ at = "item"
  /\ Read(offset + 1, 2, IF Word(offset) # 0 THEN "quantity" ELSE "entries")
  /\ fields' = [slot |-> fields.slot, item |-> Word(offset), left |-> 0]
  /\ UNCHANGED event

(* Four bytes are loaded for a quantity of one byte as well.  The value is *)
(* used by nothing.                                                        *)
Quantity ==
  /\ at = "quantity"
  /\ Read(offset + 3, IF At(offset) = 255 THEN 5 ELSE 1, IF Flag THEN "count" ELSE "entries")
  /\ UNCHANGED <<fields, event>>

Count ==
  /\ at = "count"
  /\ Read(offset, 1, "entries")
  /\ Also("left", At(offset))
  /\ UNCHANGED event

(* Two bytes and four; the offset may start again in between.              *)
EntryStep ==
  /\ at = "entries" /\ fields.left > 0
  /\ LET second == (offset + 2) % OffsetMod
     IN  Read(IF second < offset THEN offset + 1 ELSE second + 3, 6, "entries")
  /\ Also("left", fields.left - 1)
  /\ UNCHANGED event

SlotDone ==
  /\ at = "entries" /\ fields.left = 0
  /\ at' = "done"
  /\ UNCHANGED <<handler, sent, packet, offset, reach, fields, event, bitVars>>

(* HandleRecvGameMessage.  ++index passes over a byte before the content.  *)
ChatType ==
  /\ handler = "HandleRecvGameMessage" /\ at = "first"
  /\ Read(SmartSize(0) + 3, SmartSize(0) + 4, "content")
  /\ Also("type", Smart(0))
  /\ UNCHANGED event

(* The content is a C string: it goes up to the first 0.                   *)
Content ==
  /\ at = "content"
  /\ LET first == offset + 1
         last == CHOOSE k \in first .. Len(packet) : At(k) = 0 /\ \A j \in first .. k - 1 : At(j) # 0
     IN  /\ Read(last, 1, "done")
         /\ event' = [type |-> fields.type, content |-> SubSeq(packet, first + 1, last)]
  /\ UNCHANGED fields

(* HandleOpenDialog: the four bytes at 10, the high one first.             *)
InterfaceId ==
  /\ handler = "HandleOpenDialog" /\ at = "first"
  /\ Read(13, 0, "done")
  /\ event' = SubSeq(packet, 11, 14)
  /\ UNCHANGED fields

(* HandleLoadWorld, behind UnpackTile.                                     *)
SplitTile ==
  /\ handler = "HandleLoadWorld" /\ at = "first"
  /\ pc = "done" /\ bitSize = 30 /\ bitIndex = 0 /\ width = 32
  /\ fields' = [x |-> (result \div 2 ^ 14) % 2 ^ 14, y |-> result % 2 ^ 14]
  /\ at' = "done"
  /\ UNCHANGED <<handler, sent, packet, offset, reach, event, bitVars>>

HandlerNext ==
  \/ Header \/ Slot \/ ItemId \/ Quantity \/ Count \/ EntryStep \/ SlotDone
  \/ ChatType \/ Content
  \/ InterfaceId
  \/ Next /\ UNCHANGED handlerVars
  \/ SplitTile

HandlerSpec == HandlerInit /\ [][HandlerNext]_<<bitVars, handlerVars>>
-----------------------------------------------------------------------------
(* Properties.                                                             *)

(* When a handler is done it has read what was sent: the slot and item of  *)
(* an update, the two coordinates of a tile, and the event that clients    *)
(* are given, whatever the lengths of the fields before.                   *)
FieldsRight ==
  at = "done" =>
    CASE handler = "SetSlotItem" -> fields.slot = sent.slot /\ fields.item = sent.item
      [] handler = "HandleLoadWorld" -> fields.x = Field(2, 14) /\ fields.y = Field(16, 14)
      [] OTHER -> event = sent

(* SetSlotItem's offset then agrees with the packet's length modulo 256.   *)
(* For an update of less than 256 bytes this says that it went through the *)
(* packet exactly once; of a longer one the front has been read again as   *)
(* entries, whose values the code drops, and this does not show it.        *)
ConsumedExactly == at = "done" /\ handler = "SetSlotItem" => offset = Len(packet) % OffsetMod

(* No handler reads more than three bytes behind its packet, and only for  *)
(* a quantity with no entries behind it, whatever is in memory there; not  *)
(* even one whose offset has started again at the front, because the       *)
(* packet is longer than eight bits count.                                 *)
StaysNearPacket ==
  handler # "HandleLoadWorld" =>
    LET quantityLast == handler = "SetSlotItem" /\ sent.item # 0 /\ sent.entries \in {None, 0}
    IN  reach <= Len(packet) + IF quantityLast THEN 3 ELSE 0
=============================================================================
