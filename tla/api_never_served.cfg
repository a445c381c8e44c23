CONSTANTS
  Functions <- MCFunctions
  Messages = {1, 2, 7}
  DispatcherOf <- MCDispatcherOf
  Keys = 4
  RenderHook = FALSE
  Contexts = {ctx1, ctx2}
  EventTypes <- MCEventTypes
  MaxEvents = 1
  None = None
SPECIFICATION FairSpec
PROPERTY ServerStarts
CHECK_DEADLOCK FALSE
