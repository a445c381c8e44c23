CONSTANTS
  DoItemInterfaceAction = DoItemInterfaceAction
  c1 = c1
  Unary = {DoItemInterfaceAction}
  EventTypes <- MCEventTypes
  Streams = {}
  Throwing = {}
  Addr = {a1, a2}
  Calls = {c1}
  MethodOf <- MCCaller
  MaxEvents = 2
  FreedReads = {"COMPLETED"}
  Functions <- MCFunctions
  Messages = {1, 6}
  DispatcherOf <- MCDispatcherOf
  Keys = 4
  RenderHook = TRUE
  Contexts = {ctx1}
  None = None
SPECIFICATION SystemFairSpec
INVARIANTS SystemTypeOK EventsArrive
PROPERTIES HooksHold CallsAnswered EventsPass
CHECK_DEADLOCK FALSE
