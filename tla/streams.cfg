CONSTANTS
  MoveTo = MoveTo
  DoItemInterfaceAction = DoItemInterfaceAction
  ChatMessage = ChatMessage
  CursorActionMessage = CursorActionMessage
  c1 = c1
  c2 = c2
  c3 = c3
  Unary = {MoveTo}
  EventTypes = {ChatMessage}
  Streams = {ChatMessage}
  Throwing = {MoveTo}
  Addr = {a1, a2, a3, a4, a5}
  Calls = {c1, c2, c3}
  MethodOf <- MCStreamCalls
  MaxEvents = 3
  FreedReads = {"COMPLETED"}
  None = None
SPECIFICATION Spec
SYMMETRY Symmetric
INVARIANTS SingleOwner OneListener WaitingStreamsExact NoDanglingTag OrphansExplained
PROPERTIES InOrder ImplementsFeed
