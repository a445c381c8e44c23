------------------------------ MODULE MCHooks ------------------------------
(* Small instances of Hooks for TLC.                                       *)
EXTENDS Hooks, TLC

MCFunctions ==
  {"DispatchNetMessage", "CursorWorldContextMenu", "CursorDoAction", "GameMessage", "LoadWorld"}

MCEventTypes == {"ChatMessage", "InterfaceOpenMessage", "CursorActionMessage"}

(* Two messages the rules may describe, and one they do not.               *)
MCDispatcherOf == 1 :> "GameMessage" @@ 2 :> "LoadWorld" @@ 7 :> "Other"
=============================================================================
