---------------------------- MODULE MCRPCServer ----------------------------
(* Small instances of RPCServer for TLC: which method each call is for.    *)
EXTENDS RPCServer

CONSTANTS MoveTo, DoItemInterfaceAction,    \* unary methods
          ChatMessage, CursorActionMessage, \* event types
          c1, c2, c3                        \* calls

(* One call of a method that may throw, one of a method that cannot.       *)
MCUnaryCalls == c1 :> MoveTo @@ c3 :> DoItemInterfaceAction

(* Two subscribers of one stream, and a unary call that may throw.         *)
MCStreamCalls == c1 :> ChatMessage @@ c2 :> ChatMessage @@ c3 :> MoveTo

(* One subscriber, and a unary call that may throw.                        *)
MCSubscriberAndCaller == c1 :> ChatMessage @@ c2 :> MoveTo

Symmetric == Permutations(Addr)
=============================================================================
