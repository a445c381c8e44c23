CONSTANTS
  Functions <- MCFunctions
  Messages = {1, 2, 7}
  DispatcherOf <- MCDispatcherOf
  Keys = 4
  RenderHook = TRUE
  Contexts = {ctx1, ctx2}
  EventTypes <- MCEventTypes
  MaxEvents = 1
  None = None
SPECIFICATION FairSpec
INVARIANTS DispatchedByOwn CrashExplained ServedInOneFrame
PROPERTY ServerStarts
CHECK_DEADLOCK FALSE
