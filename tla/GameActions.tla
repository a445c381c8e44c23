---------------------------- MODULE GameActions ----------------------------
(***************************************************************************)
(* How a request acts on the game: the bodies of the methods in Server.cpp *)
(* and the functions of common.h they call.                                *)
(*                                                                         *)
(* A body runs on the render thread, inside Handle, with eventsMutex_      *)
(* held.  From there it sends messages to the game's window (DoAntiAFK)    *)
(* and calls functions of the game.  The hooks that push events take the   *)
(* same mutex, on the threads on which the game happens to call them.      *)
(* Which thread made the window, on which threads the hooks are called,    *)
(* and whether the game calls a hooked function from its window procedure  *)
(* or from an option's function, is the game's business: Init allows all   *)
(* of it, and the properties say what follows from what.                   *)
(***************************************************************************)
EXTENDS Integers, Sequences

CONSTANTS
  Threads,         \* threads of the game
  Render,          \* the one that draws frames
  Requests,        \* the requests that clients make
  MaxRequests,     \* how many they make; a bound
  OptionTexts,     \* what the six option slots of a definition may hold
  ActionContexts,  \* the OptionIds that actionContexts has an entry for
  None

Slots == 0 .. 5

ASSUME ThreadsAssumption == Render \in Threads /\ None \notin Threads
ASSUME NoneAssumption ==
  None \notin {"Body", "SendMessage", "WindowProc", "Option", "PushEvent",
               "OK", "NOT_FOUND", "INVALID_ARGUMENT", "thrown", "Widget", "Backpack"}
ASSUME RequestsAssumption ==
  /\ MaxRequests \in Nat /\ None \notin Requests
  /\ \A r \in Requests : r.method = "Interact" => r.type \in {"Object", "GroundItem", "NPC"} \ {None}
ASSUME OptionsAssumption ==
  /\ \A s \in OptionTexts : DOMAIN s = Slots
  /\ ActionContexts \subseteq Nat

VARIABLES
  windowThread,  \* the thread that made the game's window
  hookThreads,   \* the threads on which the game calls the hooks that push events
  nested,        \* where it calls them on the way: "WindowProc", "Option"
  window,        \* g_gameHwnd is set
  mutex,         \* eventsMutex_: the thread that holds it
  stack,         \* per thread, the calls this module tells apart, innermost last
  key,           \* the game has seen Insert go down and not up again
  request,       \* the request whose body runs, or ran last
  todo,          \* the statements of the body that are left
  option,        \* the option that the body found: its number and the texts it was found in
  called,        \* the options whose functions the body called, in order
  status,        \* how the body ended
  requests,      \* how many requests came
  alive          \* the process is there

game == <<windowThread, hookThreads, nested>>
body == <<request, todo, option, called, status, requests>>
vars == <<game, window, mutex, stack, key, body, alive>>

Init ==
  /\ windowThread \in Threads
  /\ hookThreads \in SUBSET Threads
  /\ nested \in SUBSET {"WindowProc", "Option"}
  /\ window = FALSE
  /\ mutex = None
  /\ stack = [t \in Threads |-> <<>>]
  /\ key = FALSE
  /\ request = None /\ todo = <<>> /\ option = None /\ called = <<>> /\ status = None
  /\ requests = 0
  /\ alive = TRUE

Top(t) == IF stack[t] = <<>> THEN None ELSE stack[t][Len(stack[t])]
Push(t, call) == [stack EXCEPT ![t] = Append(@, call)]
Pop(t) == [stack EXCEPT ![t] = SubSeq(@, 1, Len(@) - 1)]

Statement(s) == alive /\ Top(Render) = "Body" /\ todo # <<>> /\ Head(todo) = s
-----------------------------------------------------------------------------
(* The bodies, as the statements that others can tell apart.               *)

DoAntiAFK == <<"WM_KEYDOWN", "WM_KEYUP">>

InteractObject == DoAntiAFK \o <<"find", "call">>

(* A slip, no part of the specification: Insert is released after the      *)
(* look-up.                                                                *)
StatementsKeyHeld(r) ==
  IF r.method = "Interact" THEN <<"WM_KEYDOWN", "find", "WM_KEYUP", "call">> ELSE <<"find">>

(* A slip: the key is pressed after the action.                            *)
StatementsKeyAfter(r) ==
  IF r.method = "MoveTo" THEN <<"call">> \o DoAntiAFK ELSE <<"find">>

Statements(r) ==
  CASE r.method = "Interact" ->
         DoAntiAFK \o (IF r.type = "Object" THEN InteractObject ELSE <<"find", "call">>)
    [] r.method = "DoUIAction" ->
         DoAntiAFK \o (CASE r.by = "OptionId" -> <<"call">>
                         [] r.by = "OptionText" -> <<"find", "call">>
                         [] OTHER -> <<"invalid">>)
    [] r.method = "DoItemInterfaceAction" -> <<"call">>
    [] r.method = "BackpackItemAction" -> DoAntiAFK \o <<"find", "call">>
    [] r.method = "MoveTo" -> DoAntiAFK \o <<"call">>
    [] OTHER -> <<"find">>

(* Where a request looks for the text of its option, if it has one.        *)
Kind(r) ==
  CASE r.method = "Interact" -> r.type
    [] r.method = "DoUIAction" -> "Widget"
    [] r.method = "BackpackItemAction" -> "Backpack"
    [] OTHER -> None

(* options(): the slots that hold a text, and the number each is known by; *)
(* an item in the backpack has no slot 0, and two more behind its own.     *)
Numbered(kind, texts) ==
  LET own == {i \in Slots : texts[i] # "" /\ (kind = "Backpack" => i > 0)}
  IN  {[at |-> i, index |-> IF kind = "Widget" THEN i + 1 ELSE i, text |-> texts[i]] : i \in own}
      \cup IF kind = "Backpack"
           THEN {[at |-> 6, index |-> 0, text |-> "Use"], [at |-> 7, index |-> 7, text |-> "Examine"]}
           ELSE {}

(* filtered, and filtered[0].                                              *)
Filtered(r, texts) == {o \in Numbered(Kind(r), texts) : o.text = r.option}
First(options) == CHOOSE o \in options : \A p \in options : o.at <= p.at

(* The OptionIds of an NPC's six options: NPCOption1, NPCAttack,           *)
(* NPCOption2, NPCOption3, NPCOption4 and, far from the others, NPCExamine. *)
NPCExamine == 1003
NPCOptionIds == <<9, 10, 11, 12, 13, NPCExamine>>

(* A slip: the options behind the third keep their numbers.                *)
OptionIdUnshifted(r, index) == IF Kind(r) = "NPC" THEN NPCOptionIds[index + 1] ELSE index

(* What an index becomes: option_id in BackpackInteractItem, the case of   *)
(* the switch in InteractNPC.                                              *)
OptionId(r, index) ==
  CASE Kind(r) = "Backpack" /\ index > 3 -> index + 3
    [] Kind(r) = "NPC" -> NPCOptionIds[index + 1]
    [] OTHER -> index

Acts(r) == "call" \in {Statements(r)[i] : i \in DOMAIN Statements(r)}
-----------------------------------------------------------------------------
(* More slips.                                                             *)

(* An exception leaves the mutex locked.                                   *)
ThrowKeepsLock ==
  /\ todo' = <<>> /\ status' = "thrown"
  /\ stack' = [stack EXCEPT ![Render] = <<>>]
  /\ UNCHANGED <<game, window, mutex, key, request, option, called, requests, alive>>

(* SendMessage waits for a window that is not set.                         *)
SendMessageUnset(m) ==
  /\ Statement(m)
  /\ stack' = Push(Render, "SendMessage")
  /\ UNCHANGED <<game, window, mutex, key, body, alive>>

(* The body catches the exception itself and answers OK.                   *)
CallThrowsAnswers ==
  /\ Statement("call")
  /\ Kind(request) \in {"Object", "NPC"} \/ request.method = "MoveTo"
  /\ todo' = <<>> /\ status' = "OK"
  /\ UNCHANGED <<game, window, mutex, stack, key, request, option, called, requests, alive>>

(* PushEvent does not unlock.                                              *)
PushEventKeeps(t) ==
  /\ alive /\ Top(t) = "PushEvent" /\ mutex = None
  /\ mutex' = t
  /\ stack' = Pop(t)
  /\ UNCHANGED <<game, window, key, body, alive>>
-----------------------------------------------------------------------------
(* MainThread.                                                             *)

FindGameWindow ==
  /\ alive /\ ~ window
  /\ window' = TRUE
  /\ UNCHANGED <<game, mutex, stack, key, body, alive>>

-----------------------------------------------------------------------------
(* The frame: Handle, and in it at most one body.                          *)

EnterHandle ==
  /\ alive /\ stack[Render] = <<>>
  /\ mutex = None
  /\ mutex' = Render
  /\ stack' = Push(Render, "Body")
  /\ request' = None /\ todo' = <<>> /\ option' = None /\ called' = <<>> /\ status' = None
  /\ UNCHANGED <<game, window, key, requests, alive>>

(* AsyncNext, which Handle calls once, has a request.                      *)
Begin(r) ==
  /\ alive /\ Top(Render) = "Body" /\ request = None
  /\ requests < MaxRequests
  /\ requests' = requests + 1
  /\ request' = r /\ todo' = Statements(r)
  /\ UNCHANGED <<game, window, mutex, stack, key, option, called, status, alive>>

(* Also at once, when AsyncNext has nothing until its deadline.            *)
LeaveHandle ==
  /\ alive /\ Top(Render) = "Body" /\ todo = <<>>
  /\ mutex' = None
  /\ stack' = Pop(Render)
  /\ UNCHANGED <<game, window, key, body, alive>>

Answer(s) ==
  /\ todo' = <<>> /\ status' = s
  /\ UNCHANGED <<game, window, mutex, stack, key, request, option, called, requests, alive>>

(* InvalidPointerException: the guard unlocks the mutex, and the hook of   *)
(* the frame catches.                                                      *)
Throw ==
  /\ todo' = <<>> /\ status' = "thrown"
  /\ mutex' = None
  /\ stack' = [stack EXCEPT ![Render] = <<>>]
  /\ UNCHANGED <<game, window, key, request, option, called, requests, alive>>

Die ==
  /\ alive' = FALSE
  /\ UNCHANGED <<game, window, mutex, stack, key, body>>

(* To a window that is not set SendMessage fails at once; for a window of  *)
(* the same thread it calls the window procedure; for another thread's it  *)
(* waits until that thread has called it.                                  *)
SendMessage(m) ==
  /\ Statement(m)
  /\ CASE ~ window -> todo' = Tail(todo) /\ UNCHANGED <<stack, key>>
       [] window /\ windowThread = Render ->
            /\ todo' = Tail(todo)
            /\ key' = (m = "WM_KEYDOWN")
            /\ stack' = Push(Render, "WindowProc")
       [] OTHER -> stack' = Push(Render, "SendMessage") /\ UNCHANGED <<todo, key>>
  /\ UNCHANGED <<game, window, mutex, request, option, called, status, requests, alive>>

FindOption(texts) ==
  /\ Statement("find")
  /\ Kind(request) # None
  /\ Kind(request) = "Backpack" => request.slot < 28
  /\ Filtered(request, texts) # {}
  /\ option' = [texts |-> texts, index |-> First(Filtered(request, texts)).index]
  /\ todo' = Tail(todo)
  /\ UNCHANGED <<game, window, mutex, stack, key, request, called, status, requests, alive>>

(* The requests that only read have their answer.                          *)
FindValue == Statement("find") /\ Kind(request) = None /\ Answer("OK")

(* No such object, NPC, widget or property; no option of that text; a slot *)
(* behind the backpack's last.                                             *)
FindMissing(texts) ==
  /\ Statement("find")
  /\ \/ Kind(request) \in {"Object", "NPC", "Widget"}
     \/ request.method \in {"GetProperty", "GetWidget"}
     \/ Kind(request) # None /\ Filtered(request, texts) = {}
     \/ Kind(request) = "Backpack" /\ request.slot >= 28
  /\ Answer("NOT_FOUND")

FindThrows == Statement("find") /\ (Kind(request) = "Backpack" => request.slot < 28) /\ Throw

(* Pointers that nobody looks at, one or more on every way to a value or   *)
(* an option: the result of the game's look-up of an item, g_entityList,   *)
(* the list of a backpack, a movement, a controlled player, a name; and    *)
(* the count of a table of no slots, which is divided by.                  *)
FindNull ==
  /\ Statement("find")
  /\ Kind(request) = "Backpack" => request.slot < 28
  /\ Die

InvalidArgument == Statement("invalid") /\ Answer("INVALID_ARGUMENT")

(* actionContexts[...] for an NPC's option: 0 when there is no entry.      *)
Unregistered ==
  /\ Kind(request) = "NPC" /\ option # None
  /\ OptionId(request, option.index) \notin ActionContexts

(* The function that handles the option; without a context the game gives  *)
(* the handler of whatever it takes 0 for, none, or reads through it.      *)
CallOption ==
  /\ Statement("call")
  /\ called' = Append(called, IF option = None \/ Unregistered THEN None
                              ELSE OptionId(request, option.index))
  /\ todo' = Tail(todo)
  /\ status' = "OK"
  /\ stack' = Push(Render, "Option")
  /\ UNCHANGED <<game, window, mutex, key, request, option, requests, alive>>

CallThrows ==
  /\ Statement("call")
  /\ Kind(request) \in {"Object", "NPC"} \/ request.method = "MoveTo"
  /\ Throw

(* Every function is called through pointers that nobody looks at.         *)
CallDies == Statement("call") /\ Die
-----------------------------------------------------------------------------
(* The game's threads.                                                     *)

(* The window's thread is back in its message loop.                        *)
WindowProc ==
  /\ alive /\ Top(Render) = "SendMessage" /\ stack[windowThread] = <<>>
  /\ key' = (Head(todo) = "WM_KEYDOWN")
  /\ stack' = Push(windowThread, "WindowProc")
  /\ UNCHANGED <<game, window, mutex, body, alive>>

(* The return of another thread's window procedure ends SendMessage.       *)
Return(t) ==
  /\ alive /\ Top(t) \in {"WindowProc", "Option"}
  /\ IF t = Render
     THEN stack' = Pop(t) /\ UNCHANGED todo
     ELSE /\ stack' = [Pop(t) EXCEPT ![Render] = SubSeq(@, 1, Len(@) - 1)]
          /\ todo' = Tail(todo)
  /\ UNCHANGED <<game, window, mutex, key, request, option, called, status, requests, alive>>

(* OnDispatchNetMessage or OnCursorDoAction has an event to push.          *)
CallHook(t) ==
  /\ alive
  /\ \/ stack[t] = <<>> /\ t \in hookThreads
     \/ Top(t) \in nested
  /\ stack' = Push(t, "PushEvent")
  /\ UNCHANGED <<game, window, mutex, key, body, alive>>

PushEvent(t) ==
  /\ alive /\ Top(t) = "PushEvent" /\ mutex = None
  /\ stack' = Pop(t)
  /\ UNCHANGED <<game, window, mutex, key, body, alive>>

(* A mutex locked twice by one thread: it waits for itself, or lock throws *)
(* an exception that nobody catches.                                       *)
LockAgain(t) == alive /\ Top(t) = "PushEvent" /\ mutex = t /\ Die
-----------------------------------------------------------------------------
RunBody ==
  \/ \E m \in {"WM_KEYDOWN", "WM_KEYUP"} : SendMessage(m)
  \/ \E texts \in OptionTexts : FindOption(texts) \/ FindMissing(texts)
  \/ FindValue \/ FindThrows \/ FindNull
  \/ InvalidArgument
  \/ CallOption \/ CallThrows \/ CallDies
  \/ LeaveHandle

Next ==
  \/ FindGameWindow
  \/ EnterHandle \/ (\E r \in Requests : Begin(r)) \/ RunBody
  \/ WindowProc
  \/ \E t \in Threads : Return(t) \/ CallHook(t) \/ PushEvent(t) \/ LockAgain(t)

Spec == Init /\ [][Next]_vars

(* Threads run, a message loop comes round to its messages, and the mutex, *)
(* which is free most of a frame, passes over no waiting thread for ever.  *)
Fairness ==
  /\ WF_vars(RunBody)
  /\ SF_vars(WindowProc)
  /\ \A t \in Threads : WF_vars(Return(t)) /\ SF_vars(PushEvent(t))
FairSpec == Spec /\ Fairness
-----------------------------------------------------------------------------
(* Properties.                                                             *)

Calls == {"Body", "SendMessage", "WindowProc", "Option", "PushEvent"}

TypeOK ==
  /\ windowThread \in Threads /\ hookThreads \subseteq Threads
  /\ nested \subseteq {"WindowProc", "Option"}
  /\ window \in BOOLEAN /\ key \in BOOLEAN /\ alive \in BOOLEAN
  /\ mutex \in {None, Render}
  /\ \A t \in Threads : stack[t] \in Seq(Calls) /\ Len(stack[t]) <= 3
  /\ request \in Requests \cup {None}
  /\ status \in {None, "OK", "NOT_FOUND", "INVALID_ARGUMENT", "thrown"}
  /\ requests \in 0 .. MaxRequests

(* A thread that will never get the mutex: it holds it, or the render      *)
(* thread holds it and waits for this one.                                 *)
Stuck(t) ==
  /\ alive /\ Top(t) = "PushEvent"
  /\ \/ mutex = t
     \/ mutex = Render /\ Top(Render) = "SendMessage" /\ t = windowThread

(* DoAntiAFK is called with eventsMutex_ held.  The render thread locks    *)
(* itself out only if the game calls a hooked function from its window     *)
(* procedure or from an option's function; another thread only if it made  *)
(* the window and also runs hooks, and a key is being sent to it.          *)
StuckExplained ==
  \A t \in Threads : Stuck(t) =>
    IF t = Render THEN nested # {}
    ELSE /\ window /\ t = windowThread
         /\ todo # <<>> /\ Head(todo) \in {"WM_KEYDOWN", "WM_KEYUP"}
         /\ t \in hookThreads \/ "WindowProc" \in nested

(* A game in which that cannot happen.                                     *)
Harmless == nested = {} /\ (windowThread = Render \/ windowThread \notin hookThreads)

(* In such a game every body comes to its end, whatever it finds, and      *)
(* Handle releases the mutex.                                              *)
HandleEnds == (Harmless /\ mutex = Render) ~> (mutex = None \/ ~ alive)

(* And every hook that has an event to push comes to push it.              *)
PushReturns ==
  \A t \in Threads : (Harmless /\ Top(t) = "PushEvent") ~> (Top(t) # "PushEvent" \/ ~ alive)

(* DoAntiAFK leaves no key held down, whatever becomes of the request that *)
(* sent it, and although the window may be found between its two messages. *)
KeyReleased == status # None => ~ key

(* What a client may conclude: OK says that the option's function was      *)
(* called, once; any other answer, and none at all because the body threw, *)
(* says that it was not, so that the request may be made again.            *)
AnswerTellsAction ==
  status # None => Len(called) = IF status = "OK" /\ Acts(request) THEN 1 ELSE 0

(* The slot of a definition that a number stands for in the game.          *)
SlotOf(kind, number) ==
  CASE kind = "Widget" -> number - 1
    [] kind = "Backpack" /\ number > 6 -> number - 3
    [] kind = "NPC" -> IF number = NPCExamine THEN 5 ELSE number - 9
    [] OTHER -> number

(* The number that the game is given stands for an option of the text that *)
(* the client asked for, unless actionContexts does not know the option.   *)
RightOption ==
  option # None /\ called # <<>> /\ Kind(request) # None /\ ~ Unregistered =>
    LET kind == Kind(request)  slot == SlotOf(kind, called[1])
    IN  CASE kind = "Backpack" /\ slot = 0 -> request.option = "Use"
          [] kind = "Backpack" /\ slot = 7 -> request.option = "Examine"
          [] OTHER -> slot \in Slots /\ option.texts[slot] = request.option

(* A body that brings the game down, at a pointer nobody looked at or at a *)
(* mutex locked twice, has not called the option's function: all that it   *)
(* reads unguarded, and the window messages, come first.  A client that is *)
(* cut off so may make the request again, unless the game calls hooks from *)
(* an option's function.                                                   *)
DeathBeforeAction == ~ alive => called = <<>> \/ "Option" \in nested
=============================================================================
