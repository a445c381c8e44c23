------------------------------- MODULE Hooks -------------------------------
(***************************************************************************)
(* How QNXTHook gets into the game and what its hooks do: entry.cpp.       *)
(*                                                                         *)
(* MainThread, started by DllMain, initialises Capstone and YARA, scans    *)
(* the game's image for the functions that the rules describe, installs    *)
(* the hooks from within the scan's last callback, and only then looks for *)
(* the game's window.  The game runs all the while: as soon as a hook is   *)
(* installed its callback may be entered, whatever MainThread still has to *)
(* do.                                                                     *)
(*                                                                         *)
(* The RPC server is seen from outside here: its first call (Run), the     *)
(* beginning and the end of a frame's Handle, and the number of events     *)
(* that wait in it.  QNXTHook puts the two together.                       *)
(***************************************************************************)
EXTENDS Naturals, FiniteSets

CONSTANTS
  Functions,     \* the functions of the game that the YARA rules describe
  Messages,      \* the ids of network messages, uint32_t
  DispatcherOf,  \* per message, the game's function that dispatches it
  Keys,          \* the number of keys of idMapping, 2^16 for uint16_t
  RenderHook,    \* whether EnableHooks hooks CursorWorldContextMenu
  Contexts,      \* the values of the game's context pointer
  EventTypes,    \* the types of events that the hooks push
  MaxEvents,     \* events of a type pushed and not removed; a bound
  None

(* The message handlers that push an event, and its type.                  *)
EventOf == [GameMessage |-> "ChatMessage", OpenDialog |-> "InterfaceOpenMessage"]

ASSUME FunctionsAssumption ==
  /\ {"DispatchNetMessage", "CursorWorldContextMenu", "CursorDoAction"} \subseteq Functions
  /\ None \notin Functions \cup Contexts
ASSUME MessagesAssumption ==
  /\ Messages \subseteq Nat /\ Keys \in Nat \ {0}
  /\ \A m \in Messages : DispatcherOf[m] # None
ASSUME FlagsAssumption == RenderHook \in BOOLEAN /\ MaxEvents \in Nat
ASSUME EventsAssumption ==
  {"ChatMessage", "InterfaceOpenMessage", "CursorActionMessage"} \subseteq EventTypes

VARIABLES
  image,        \* the functions the rules find in this version of the game
  main,         \* where MainThread is
  capstone,     \* cs_handle is open
  yara,         \* yrRules is loaded
  signs,        \* the functions recorded in signatureByType and signs
  hooks,        \* the functions with an inline hook
  idMapping,    \* idMapping; Keys are looked up with a message id cut to 16 bits
  handled,      \* the last message dispatched and the function it was taken for
  initialized,  \* initialized: the server listens
  context,      \* g_gameContext
  lists,        \* the context g_entityList and g_contextStore were read from
  handling,     \* the render thread is in Handle
  window,       \* g_gameHwnd is set
  events        \* per type, how many events wait in the server

loaderVars == <<image, main, capstone, yara, signs, hooks, window>>
frameVars == <<initialized, context, lists, handling>>
vars == <<loaderVars, idMapping, handled, frameVars, events>>

Init ==
  /\ image \in SUBSET Functions
  /\ main = "capstone"
  /\ capstone = FALSE /\ yara = FALSE
  /\ signs = {} /\ hooks = {}
  /\ idMapping = <<>>
  /\ handled = None
  /\ initialized = FALSE
  /\ context = None /\ lists = None /\ handling = FALSE
  /\ window = FALSE
  /\ events = [t \in EventTypes |-> 0]

Alive == main # "crashed"
-----------------------------------------------------------------------------
(* MainThread.  A failed initialisation is reported and passed over.       *)

InitializeCapstone ==
  /\ main = "capstone"
  /\ capstone' \in BOOLEAN
  /\ main' = "yara"
  /\ UNCHANGED <<image, yara, signs, hooks, window, idMapping, handled, frameVars, events>>

(* Without rules the scan follows a null pointer.                          *)
InitializeYara ==
  /\ main = "yara"
  /\ yara' \in BOOLEAN
  /\ main' = IF yara' THEN "scan" ELSE "crashed"
  /\ UNCHANGED <<image, capstone, signs, hooks, window, idMapping, handled, frameVars, events>>

(* CALLBACK_MSG_RULE_MATCHING.                                             *)
RuleMatching(f) ==
  /\ main = "scan"
  /\ f \in image \ signs
  /\ signs' = signs \cup {f}
  /\ UNCHANGED <<image, main, capstone, yara, hooks, window, idMapping, handled, frameVars, events>>

(* A slip, no part of the specification: the hooks are installed as soon   *)
(* as the scan has found the first of them.                                *)
ScanFinishedEarly ==
  /\ main = "scan"
  /\ "DispatchNetMessage" \in signs
  /\ main' = "hookDispatch"
  /\ UNCHANGED <<image, capstone, yara, signs, hooks, window, idMapping, handled, frameVars, events>>

(* CALLBACK_MSG_SCAN_FINISHED comes after the last match.                  *)
ScanFinished ==
  /\ main = "scan"
  /\ image = signs
  /\ main' = "hookDispatch"
  /\ UNCHANGED <<image, capstone, yara, signs, hooks, window, idMapping, handled, frameVars, events>>

(* InlineHook is outside this repository: at an address that is not the    *)
(* function's it takes the process down or does nothing.                   *)
InlineHook(f, next) ==
  IF f \in signs
  THEN hooks' = hooks \cup {f} /\ main' = next
  ELSE hooks' = hooks /\ main' \in {next, "crashed"}

(* The hook of a frame is entered by the render thread, which is not in    *)
(* Handle then, and runs to the end of its first call of Run before.       *)
RenderThread == Alive /\ "CursorWorldContextMenu" \in hooks /\ ~ handling /\ initialized
-----------------------------------------------------------------------------
(* More slips.                                                             *)

(* CursorDoAction is hooked without a look at its signature.               *)
HookCursorUnchecked ==
  /\ main = "hookCursor"
  /\ InlineHook("CursorDoAction", "window")
  /\ UNCHANGED <<image, capstone, yara, signs, window, idMapping, handled, frameVars, events>>

(* A frame without a camera is served as well.                             *)
FrameWithoutCameraServes(c) ==
  /\ RenderThread
  /\ context' = c
  /\ handling' = TRUE
  /\ UNCHANGED <<loaderVars, idMapping, handled, initialized, lists, events>>

(* The hook of CursorWorldContextMenu is left out, as in a comment.        *)
HookWorldCommented ==
  /\ main = "hookWorld"
  /\ main' = IF "CursorWorldContextMenu" \in signs THEN "hookCursor" ELSE "window"
  /\ UNCHANGED <<image, capstone, yara, signs, hooks, window, idMapping, handled, frameVars, events>>

-----------------------------------------------------------------------------
(* EnableHooks, one inline hook at a time.                                 *)

HookDispatch ==
  /\ main = "hookDispatch"
  /\ InlineHook("DispatchNetMessage", "hookWorld")
  /\ UNCHANGED <<image, capstone, yara, signs, window, idMapping, handled, frameVars, events>>

(* Without CursorWorldContextMenu EnableHooks returns, and CursorDoAction  *)
(* is not hooked either.                                                   *)
HookWorld ==
  /\ main = "hookWorld"
  /\ main' = IF "CursorWorldContextMenu" \in signs THEN "hookCursor" ELSE "window"
  /\ hooks' = IF "CursorWorldContextMenu" \in signs /\ RenderHook
              THEN hooks \cup {"CursorWorldContextMenu"} ELSE hooks
  /\ UNCHANGED <<image, capstone, yara, signs, window, idMapping, handled, frameVars, events>>

HookCursor ==
  /\ main = "hookCursor"
  /\ IF "CursorDoAction" \in signs
     THEN InlineHook("CursorDoAction", "window")
     ELSE main' = "window" /\ hooks' = hooks
  /\ UNCHANGED <<image, capstone, yara, signs, window, idMapping, handled, frameVars, events>>

(* The window may not be there; g_gameHwnd then stays null.                *)
FindGameWindow ==
  /\ main = "window"
  /\ window' \in BOOLEAN
  /\ main' = "done"
  /\ UNCHANGED <<image, capstone, yara, signs, hooks, idMapping, handled, frameVars, events>>

-----------------------------------------------------------------------------
(* The callbacks of the hooks.                                             *)

(* FindFunction follows the jump of the thunk in the vtable; it needs      *)
(* Capstone to read it.                                                    *)
Lookup(m) == IF capstone /\ DispatcherOf[m] \in signs THEN DispatcherOf[m] ELSE None

(* Without Capstone cs_disasm leaves insn unset, and FindFunction frees it: *)
(* this may take the process down, or do nothing.                          *)
FreeUnsetInsn(m) ==
  /\ Alive
  /\ "DispatchNetMessage" \in hooks
  /\ ~ capstone /\ m % Keys \notin DOMAIN idMapping
  /\ main' = "crashed"
  /\ UNCHANGED <<image, capstone, yara, signs, hooks, window, idMapping, handled, frameVars, events>>

(* RPCServer::PushEvent, which waits for the end of Handle.                *)
PushEvent(t) ==
  /\ ~ handling /\ events[t] < MaxEvents
  /\ events' = [events EXCEPT ![t] = @ + 1]

(* A message id is looked up once and the answer, NULL included, is kept.  *)
OnDispatchNetMessage(m) ==
  /\ Alive
  /\ "DispatchNetMessage" \in hooks
  /\ LET key == m % Keys
         f == IF key \in DOMAIN idMapping THEN idMapping[key] ELSE Lookup(m)
     IN  /\ idMapping' = [k \in DOMAIN idMapping \cup {key} |-> IF k = key THEN f ELSE idMapping[k]]
         /\ handled' = [msg |-> m, by |-> f]
         /\ IF f \in DOMAIN EventOf THEN PushEvent(EventOf[f]) ELSE UNCHANGED events
  /\ UNCHANGED <<loaderVars, frameVars>>

(* An action whose dispatcher has an instance; any other is passed over,   *)
(* and nothing changes.                                                    *)
OnCursorDoAction ==
  /\ Alive
  /\ "CursorDoAction" \in hooks
  /\ PushEvent("CursorActionMessage")
  /\ UNCHANGED <<loaderVars, idMapping, handled, frameVars>>

(* The first frame starts the server, with or without a camera.            *)
Run ==
  /\ Alive
  /\ "CursorWorldContextMenu" \in hooks
  /\ ~ initialized
  /\ initialized' = TRUE
  /\ UNCHANGED <<loaderVars, idMapping, handled, context, lists, handling, events>>

(* A frame without a camera: g_gameContext is set; the lists are not, and  *)
(* nothing is served.                                                      *)
FrameWithoutCamera(c) ==
  /\ RenderThread
  /\ context' = c
  /\ UNCHANGED <<loaderVars, idMapping, handled, initialized, lists, handling, events>>

(* A frame in the game: the lists are read anew, then Handle runs.         *)
Frame(c) ==
  /\ RenderThread
  /\ context' = c /\ lists' = c
  /\ handling' = TRUE
  /\ UNCHANGED <<loaderVars, idMapping, handled, initialized, events>>

(* Handle ends: it has removed an event of every type, or a request has    *)
(* thrown, and the hook has caught it.                                     *)
HandleReturns ==
  /\ Alive /\ handling
  /\ handling' = FALSE
  /\ events' \in {events, [t \in EventTypes |-> IF events[t] = 0 THEN 0 ELSE events[t] - 1]}
  /\ UNCHANGED <<loaderVars, idMapping, handled, initialized, context, lists>>

-----------------------------------------------------------------------------
MainThread ==
  \/ InitializeCapstone \/ InitializeYara
  \/ \E f \in Functions : RuleMatching(f)
  \/ ScanFinished
  \/ HookDispatch \/ HookWorld \/ HookCursor
  \/ FindGameWindow

Game ==
  \/ \E m \in Messages : FreeUnsetInsn(m) \/ OnDispatchNetMessage(m)
  \/ OnCursorDoAction
  \/ Run
  \/ \E c \in Contexts : FrameWithoutCamera(c) \/ Frame(c)
  \/ HandleReturns

(* MainThread ends; after a crash nothing happens any more.                *)
Next == MainThread \/ Game

Spec == Init /\ [][Next]_vars

(* The threads of the process are scheduled, and the game renders frames.  *)
Fairness == WF_vars(MainThread) /\ WF_vars(Run)
FairSpec == Spec /\ Fairness
-----------------------------------------------------------------------------
(* Properties.                                                             *)

TypeOK ==
  /\ image \subseteq Functions
  /\ main \in {"capstone", "yara", "scan", "hookDispatch", "hookWorld", "hookCursor", "window",
               "done", "crashed"}
  /\ capstone \in BOOLEAN /\ yara \in BOOLEAN
  /\ signs \subseteq Functions /\ hooks \subseteq Functions
  /\ DOMAIN idMapping \subseteq 0 .. Keys - 1
  /\ \A k \in DOMAIN idMapping : idMapping[k] \in Functions \cup {None}
  /\ handled \in [msg : Messages, by : Functions \cup {None}] \cup {None}
  /\ initialized \in BOOLEAN /\ handling \in BOOLEAN /\ window \in BOOLEAN
  /\ {context, lists} \subseteq Contexts \cup {None}
  /\ events \in [EventTypes -> 0 .. MaxEvents]

(* What a message should be taken for: the function that dispatches it in  *)
(* the game, if the rules find that function at all.                       *)
Owner(m) == IF capstone /\ DispatcherOf[m] \in image THEN DispatcherOf[m] ELSE None

(* "Dispatches received message to its dispatcher": every message is       *)
(* handled as what its own dispatcher says, at its first arrival and later *)
(* from the cache; no message is taken for unknown because it arrived      *)
(* before the scan had ended.  Two ids with the same low bits would share  *)
(* an answer; the ids of one game version have to differ in theirs.        *)
DispatchedByOwn == handled # None => handled.by = Owner(handled.msg)

(* The process goes down only for want of rules, of Capstone, or of the    *)
(* one function that is hooked without looking: others may be missing.     *)
CrashExplained ==
  main = "crashed" => ~ yara \/ ~ capstone \/ "DispatchNetMessage" \notin image

(* A request sees a context and lists that belong together, from the       *)
(* beginning of Handle to its end: a frame that changes the context but    *)
(* finds no camera serves nothing.                                         *)
ServedInOneFrame == handling => context = lists /\ context # None

(* "Provides protobuf API using gRPC for interacting with the game": once  *)
(* MainThread has ended well, with every rule matching, the server starts. *)
ServerStarts == (main = "done" /\ capstone /\ image = Functions) ~> initialized
=============================================================================
