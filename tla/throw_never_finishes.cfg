CONSTANTS
  MoveTo = MoveTo
  DoItemInterfaceAction = DoItemInterfaceAction
  ChatMessage = ChatMessage
  CursorActionMessage = CursorActionMessage
  c1 = c1
  c2 = c2
  c3 = c3
  Unary = {MoveTo, DoItemInterfaceAction}
  EventTypes = {ChatMessage}
  Streams = {}
  Throwing = {MoveTo}
  Addr = {a1, a2, a3, a4}
  Calls = {c1, c3}
  MethodOf <- MCUnaryCalls
  MaxEvents = 0
  FreedReads = {"COMPLETED"}
  None = None
SPECIFICATION FairSpec
PROPERTY ReachesFinish
