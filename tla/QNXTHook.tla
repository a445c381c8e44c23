------------------------------ MODULE QNXTHook ------------------------------
(***************************************************************************)
(* The whole of QNXTHook's control: MainThread and the hooks of entry.cpp  *)
(* (Hooks) together with the RPC server (RPCServer).                       *)
(*                                                                         *)
(* The two share initialized, the frame (a frame with a camera runs Handle *)
(* on the render thread) and the events (the callbacks push what Handle    *)
(* hands to the streams).  The state of the hooks is declared here; the    *)
(* state of the server is what RPCServer declares, and Hooks sees of it    *)
(* only that Handle runs and how many events wait.                         *)
(***************************************************************************)
EXTENDS RPCServer

CONSTANTS
  Functions, Messages, DispatcherOf, Keys, RenderHook, Contexts  \* as in Hooks

(* What Hooks assumes of them.                                             *)
ASSUME GameAssumption ==
  /\ {"DispatchNetMessage", "CursorWorldContextMenu", "CursorDoAction"} \subseteq Functions
  /\ {"ChatMessage", "InterfaceOpenMessage", "CursorActionMessage"} \subseteq EventTypes
  /\ None \notin Functions \cup Contexts
  /\ Messages \subseteq Nat /\ Keys \in Nat \ {0}
  /\ \A m \in Messages : DispatcherOf[m] # None
  /\ RenderHook \in BOOLEAN

VARIABLES
  image, main, capstone, yara, signs, hooks, window,  \* MainThread's, as in Hooks
  idMapping, handled, context, lists,                 \* the callbacks', as in Hooks
  arrived   \* per type of event, how many messages or clicks reached the game
            \* whose own handler is one that pushes it; a history variable

hookVars == <<image, main, capstone, yara, signs, hooks, window, idMapping, handled, context, lists>>
systemVars == <<vars, hookVars, arrived>>

Queued == [t \in EventTypes |-> Len(events[t])]

Game == INSTANCE Hooks WITH handling <- Locked, events <- Queued

SystemInit == Init /\ Game!Init /\ arrived = [t \in EventTypes |-> 0]

(* A step of the server alone, in a process that has not crashed.          *)
InProcess(Step) == Game!Alive /\ Step /\ UNCHANGED <<hookVars, arrived>>
-----------------------------------------------------------------------------
(* MainThread, and the crash in the callback of a message.                 *)
MainThread == UNCHANGED vars /\ Game!MainThread /\ UNCHANGED arrived

FreeUnsetInsn(m) == UNCHANGED vars /\ Game!FreeUnsetInsn(m) /\ UNCHANGED arrived

Arrive(types) ==
  arrived' = [t \in EventTypes |-> IF t \in types THEN arrived[t] + 1 ELSE arrived[t]]

(* The type of the event that a message's own dispatcher is there for.     *)
OwnEvent(m) == {Game!EventOf[f] : f \in {Game!Owner(m)} \cap DOMAIN Game!EventOf}

(* A message is looked up in idMapping; GameMessage and OpenDialog push.   *)
OnDispatchNetMessage(m) ==
  /\ UNCHANGED vars \/ \E t \in EventTypes : PushEvent(t)
  /\ Game!OnDispatchNetMessage(m)
  /\ Arrive(OwnEvent(m))

OnCursorDoAction ==
  /\ PushEvent("CursorActionMessage")
  /\ Game!OnCursorDoAction
  /\ Arrive({"CursorActionMessage"})

-----------------------------------------------------------------------------
(* OnCursorWorldContextMenu: Run in the first frame, Handle in a frame     *)
(* with a camera.                                                          *)
StartServer == Run /\ Game!Run /\ UNCHANGED arrived

FrameWithoutCamera(c) == UNCHANGED vars /\ Game!FrameWithoutCamera(c) /\ UNCHANGED arrived

Frame(c) == EnterHandle /\ Game!Frame(c) /\ UNCHANGED arrived

(* Handle, after its lock; an exception that leaves it is caught by the    *)
(* hook, which then goes on as if nothing had been.                        *)
HandleRest ==
  \/ AsyncNextTimeout
  \/ \E a \in Addr : Dispatch(a) \/ VisitStream(a)
  \/ RemoveEvents

-----------------------------------------------------------------------------
SystemNext ==
  \/ MainThread
  \/ \E m \in Messages : FreeUnsetInsn(m) \/ OnDispatchNetMessage(m)
  \/ OnCursorDoAction
  \/ StartServer
  \/ \E c \in Contexts : FrameWithoutCamera(c) \/ Frame(c)
  \/ InProcess(HandleRest)
  \/ InProcess(Runtime)
  \/ (\E c \in Calls : ClientCall(c) \/ ClientCancel(c)) /\ UNCHANGED <<hookVars, arrived>>

SystemSpec == SystemInit /\ [][SystemNext]_systemVars

(* What Hooks and RPCServer assume, and that the player is in the game:    *)
(* frames with a camera do not end for ever.                               *)
SystemFairness ==
  /\ WF_systemVars(MainThread)
  /\ WF_systemVars(StartServer)
  /\ WF_systemVars(\E c \in Contexts : Frame(c))
  /\ WF_systemVars(InProcess(HandleRest))
  /\ \A a \in Addr : SF_systemVars(InProcess(Dispatch(a)))
  /\ \A a \in Addr : WF_systemVars(InProcess(CompleteOp(a)))
  /\ \A c \in Calls : SF_systemVars(InProcess(\E a \in Addr : AcceptCall(a, c)))

SystemFairSpec == SystemSpec /\ SystemFairness
-----------------------------------------------------------------------------
(* Properties.                                                             *)

SystemTypeOK == TypeOK /\ Game!TypeOK /\ arrived \in [EventTypes -> Nat]

(* Every chat message, dialog and click (with a dispatcher) that reaches   *)
(* the game becomes an event, once, and nothing else does: none is lost to *)
(* the scan that has not ended, to a cached answer or to Handle's lock,    *)
(* for which the callback waits.                                           *)
EventsArrive == pushed = arrived

(* What Hooks says of the server is what the server does: a frame that     *)
(* serves a request enters Handle with the context and the lists it has    *)
(* just set, and Handle, however it ends, has dropped one event of every   *)
(* type or none.                                                           *)
HooksHold == Game!Spec

(* A request is served with the context and the lists of one frame.        *)
ServedInOneFrame == Game!ServedInOneFrame

(* The promise of the streams in terms of the game: a subscriber is told   *)
(* of what reached the game, in the order it came, and of nothing else; a  *)
(* message may be dropped unseen, but not in front of a subscriber that    *)
(* waits for one of its type.                                              *)
Told == INSTANCE EventFeed WITH
          Types <- EventTypes,
          Subscribers <- Subscribers,
          TypeOf <- MethodOf,
          published <- arrived,
          dropped <- [t \in EventTypes |-> Removed(t)],
          sent <- [c \in Subscribers |-> last[c]],
          waiting <- {handler[a].call : a \in Waiting}

GameTold == Told!Spec

(* "Provides protobuf API using gRPC for interacting with the game": once  *)
(* MainThread has ended well with every rule matching, every call of a     *)
(* method that does not throw is answered, or its client leaves.           *)
CallsAnswered ==
  \A c \in Calls : MethodOf[c] \in Unary \ Throwing =>
    (main = "done" /\ capstone /\ image = Functions /\ rpc[c] = "queued"
       ~> rpc[c] \in {"answered", "dead"})
=============================================================================
