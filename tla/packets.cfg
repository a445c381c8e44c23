CONSTANTS
  Packets <- MCPacketBytes
  Stray = {0, 255}
  Sizes = {1, 2, 3, 5, 7, 8, 11, 15, 20, 30}
  Widths = {8, 16, 32}
  SlotUpdates <- MCSlotUpdates
  Chats <- MCChats
  Dialogs <- MCDialogs
  OffsetMod = 256
  None = None
SPECIFICATION HandlerSpec
INVARIANTS Unpacked Accumulated ReadsWithin FieldsRight ConsumedExactly StaysNearPacket
CHECK_DEADLOCK FALSE
