----------------------------- MODULE MCQNXTHook -----------------------------
(* A small instance of QNXTHook for TLC.                                   *)
EXTENDS QNXTHook

CONSTANTS DoItemInterfaceAction,  \* a unary method
          c1                      \* a call

MCFunctions == {"DispatchNetMessage", "CursorWorldContextMenu", "CursorDoAction", "GameMessage"}

MCEventTypes == {"ChatMessage", "InterfaceOpenMessage", "CursorActionMessage"}

(* A chat message, and one that the rules do not describe.                 *)
MCDispatcherOf == 1 :> "GameMessage" @@ 6 :> "Other"

MCCaller == c1 :> DoItemInterfaceAction
=============================================================================
