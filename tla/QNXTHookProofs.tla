--------------------------- MODULE QNXTHookProofs ---------------------------
(***************************************************************************)
(* What holds of the whole, for any rules, messages, clients and bounds:   *)
(* it implements RPCServer, Hooks and, with what reached the game for what *)
(* was published, EventFeed.                                               *)
(***************************************************************************)
EXTENDS QNXTHook, RPCServerOrderProofs

(* Ids of the game's messages differ in the bits that idMapping looks at.  *)
KeysDistinct == \A m, n \in Messages : m % Keys = n % Keys => m = n

(* Every step is a step of the server or leaves it alone.                  *)
LEMMA ServerStep == [SystemNext]_systemVars => [Next]_vars
<1> SUFFICES ASSUME [SystemNext]_systemVars PROVE [Next]_vars
  OBVIOUS
<1>1. CASE MainThread \/ \E m \in Messages : FreeUnsetInsn(m)
  BY <1>1 DEF MainThread, FreeUnsetInsn
<1>2. CASE \E m \in Messages : OnDispatchNetMessage(m)
  BY <1>2 DEF OnDispatchNetMessage, Next
<1>3. CASE OnCursorDoAction
  BY <1>3, GameAssumption DEF OnCursorDoAction, Next
<1>4. CASE StartServer
  BY <1>4 DEF StartServer, Next
<1>5. CASE \E c \in Contexts : FrameWithoutCamera(c) \/ Frame(c)
  BY <1>5 DEF FrameWithoutCamera, Frame, Next, HandleStep
<1>6. CASE InProcess(HandleRest)
  BY <1>6 DEF InProcess, HandleRest, Next, HandleStep
<1>7. CASE InProcess(Runtime)
  BY <1>7 DEF InProcess, Next
<1>8. CASE \E c \in Calls : ClientCall(c) \/ ClientCancel(c)
  BY <1>8 DEF Next
<1>9. CASE UNCHANGED systemVars
  BY <1>9 DEF systemVars
<1> QED
  BY <1>1, <1>2, <1>3, <1>4, <1>5, <1>6, <1>7, <1>8, <1>9 DEF SystemNext

(* The server in the game is the server of RPCServer: whatever is proved   *)
(* of that one holds here.                                                 *)
THEOREM ServerImplemented == SystemSpec => Spec
<1>1. SystemInit => Init
  BY DEF SystemInit
<1> QED
  BY <1>1, ServerStep, PTL DEF SystemSpec, Spec

LEMMA SystemType == SystemSpec => []TypeOK
  BY ServerImplemented, TypeCorrect, PTL
-----------------------------------------------------------------------------
(* Hooks sees of Handle that it begins and ends.                           *)

LEMMA HandleSteps ==
  ASSUME TypeOK, HandleRest
  PROVE  \/ UNCHANGED <<initialized, Locked, Queued>>
         \/ /\ Locked /\ ~ Locked' /\ UNCHANGED initialized
            /\ Queued' \in {Queued, [t \in EventTypes |-> IF Queued[t] = 0 THEN 0 ELSE Queued[t] - 1]}
<1>1. CASE AsyncNextTimeout
  BY <1>1 DEF AsyncNextTimeout, Locked, feedVars, Queued
<1>2. CASE \E a, n \in Addr : ThrowUnary(a, n)
  BY <1>2 DEF ThrowUnary, AsyncNext, Locked, feedVars, Queued
<1>3. CASE \E a \in Addr : \/ FreeUnary(a) \/ ContinueStream(a) \/ HandleFailure(a) \/ VisitStream(a)
                           \/ \E n \in Addr : ServeUnary(a, n) \/ OpenStream(a, n)
  <2>1. pc \in {"polling", "streams"} /\ pc' = "streams" /\ UNCHANGED <<initialized, events>>
    BY <1>3 DEF FreeUnary, ContinueStream, HandleFailure, VisitStream, ServeUnary, OpenStream, AsyncNext, feedVars
  <2> QED
    BY <2>1 DEF Locked, Queued
<1>4. CASE RemoveEvents
  <2>1. /\ Locked /\ ~ Locked' /\ UNCHANGED initialized
        /\ events' = [t \in EventTypes |-> IF events[t] = <<>> THEN <<>> ELSE Tail(events[t])]
    BY <1>4 DEF RemoveEvents, Locked
  <2>2. ASSUME NEW t \in EventTypes
        PROVE  Len(events'[t]) = IF Len(events[t]) = 0 THEN 0 ELSE Len(events[t]) - 1
    <3>1. events[t] \in Seq(Nat) /\ Len(<<>>) = 0
      BY EmptySeq DEF TypeOK
    <3>2. CASE events[t] = <<>>
      BY <3>1, <3>2, <2>1
    <3>3. CASE events[t] # <<>>
      BY <3>1, <3>3, <2>1, EmptySeq, HeadTailProperties
    <3> QED
      BY <3>2, <3>3
  <2>3. Queued' = [t \in EventTypes |-> IF Queued[t] = 0 THEN 0 ELSE Queued[t] - 1]
    BY <2>2 DEF Queued
  <2> QED
    BY <2>1, <2>3
<1> QED
  BY <1>1, <1>2, <1>3, <1>4 DEF HandleRest, Dispatch

LEMMA HooksStep == TypeOK /\ [SystemNext]_systemVars => [Game!Next]_(Game!vars)
<1> SUFFICES ASSUME TypeOK, [SystemNext]_systemVars PROVE Game!Next \/ UNCHANGED Game!vars
  OBVIOUS
<1>1. CASE MainThread
  BY <1>1 DEF MainThread, Game!Next
<1>2. CASE \E m \in Messages : FreeUnsetInsn(m) \/ OnDispatchNetMessage(m)
  BY <1>2 DEF FreeUnsetInsn, OnDispatchNetMessage, Game!Next, Game!Game
<1>3. CASE OnCursorDoAction \/ StartServer
  BY <1>3 DEF OnCursorDoAction, StartServer, Game!Next, Game!Game
<1>4. CASE \E c \in Contexts : FrameWithoutCamera(c) \/ Frame(c)
  BY <1>4 DEF FrameWithoutCamera, Frame, Game!Next, Game!Game
<1>5. CASE InProcess(HandleRest)
  <2>1. Game!Alive /\ HandleRest /\ UNCHANGED hookVars
    BY <1>5 DEF InProcess
  <2>2. CASE UNCHANGED <<initialized, Locked, Queued>>
    BY <2>1, <2>2 DEF hookVars, Game!vars, Game!loaderVars, Game!frameVars
  <2>3. CASE /\ Locked /\ ~ Locked' /\ UNCHANGED initialized
             /\ Queued' \in {Queued, [t \in EventTypes |-> IF Queued[t] = 0 THEN 0 ELSE Queued[t] - 1]}
    <3>1. UNCHANGED <<Game!loaderVars, idMapping, handled, initialized, context, lists>>
      BY <2>1, <2>3 DEF hookVars, Game!loaderVars
    <3>2. Game!HandleReturns
      BY <2>1, <2>3, <3>1 DEF Game!HandleReturns
    <3> QED
      BY <3>2 DEF Game!Next, Game!Game
  <2> QED
    BY <2>1, <2>2, <2>3, HandleSteps
<1>6. CASE UNCHANGED systemVars
  BY <1>6 DEF systemVars, vars, hookVars, Game!vars, Game!loaderVars, Game!frameVars, Locked, Queued
<1>7. CASE /\ InProcess(Runtime) \/ (\E c \in Calls : ClientCall(c) \/ ClientCancel(c))
           /\ UNCHANGED hookVars
  <2>1. UNCHANGED <<serverVars, events>>
    BY <1>7 DEF InProcess, Runtime, AcceptCall, CompleteOp, ClientCall, ClientCancel, feedVars
  <2> QED
    BY <1>7, <2>1 DEF hookVars, serverVars, Game!vars, Game!loaderVars, Game!frameVars, Locked, Queued
<1> QED
  BY <1>1, <1>2, <1>3, <1>4, <1>5, <1>6, <1>7 DEF SystemNext, InProcess

(* The hooks in front of the real server are the hooks of Hooks: a frame   *)
(* enters Handle, and Handle drops an event of every type or none          *)
(* (entry.cpp:988-1021).                                                   *)
THEOREM HooksImplemented == SystemSpec => HooksHold
<1>1. SystemInit => Game!Init
  BY DEF SystemInit
<1> QED
  BY <1>1, HooksStep, SystemType, PTL DEF SystemSpec, HooksHold, Game!Spec
-----------------------------------------------------------------------------
(* The types of what the hooks keep.                                       *)

HookTypes ==
  /\ image \subseteq Functions
  /\ main \in {"capstone", "yara", "scan", "hookDispatch", "hookWorld", "hookCursor", "window",
               "done", "crashed"}
  /\ capstone \in BOOLEAN /\ yara \in BOOLEAN
  /\ signs \subseteq Functions /\ hooks \subseteq Functions
  /\ DOMAIN idMapping \subseteq 0 .. Keys - 1
  /\ \A k \in DOMAIN idMapping : idMapping[k] \in Functions \cup {None}
  /\ handled \in [msg : Messages, by : Functions \cup {None}] \cup {None}
  /\ window \in BOOLEAN
  /\ {context, lists} \subseteq Contexts \cup {None}

(* A message is taken for a function, or for none.                         *)
LEMMA DispatchTypes ==
  ASSUME HookTypes, NEW m \in Messages, Game!OnDispatchNetMessage(m)
  PROVE  HookTypes'
<1> DEFINE key == m % Keys
           f == IF key \in DOMAIN idMapping THEN idMapping[key] ELSE Game!Lookup(m)
<1>1. /\ idMapping' = [k \in DOMAIN idMapping \cup {key} |-> IF k = key THEN f ELSE idMapping[k]]
      /\ handled' = [msg |-> m, by |-> f]
      /\ UNCHANGED <<Game!loaderVars, Game!frameVars>>
  BY DEF Game!OnDispatchNetMessage
<1>2. f \in Functions \cup {None}
  BY DEF HookTypes, Game!Lookup
<1>3. key \in 0 .. Keys - 1
  BY GameAssumption
<1> HIDE DEF key, f
<1>4. DOMAIN idMapping' \subseteq 0 .. Keys - 1 /\ \A k \in DOMAIN idMapping' : idMapping'[k] \in Functions \cup {None}
  BY <1>1, <1>2, <1>3 DEF HookTypes
<1>5. handled' \in [msg : Messages, by : Functions \cup {None}]
  BY <1>1, <1>2
<1> QED
  BY <1>1, <1>4, <1>5 DEF HookTypes, Game!loaderVars, Game!frameVars

LEMMA StepTypes == HookTypes /\ [Game!Next]_(Game!vars) => HookTypes'
<1> SUFFICES ASSUME HookTypes, Game!Next \/ UNCHANGED Game!vars PROVE HookTypes'
  OBVIOUS
<1>1. CASE Game!InitializeCapstone \/ Game!InitializeYara
             \/ (\E f \in Functions : Game!RuleMatching(f)) \/ Game!ScanFinished
  BY <1>1 DEF HookTypes, Game!InitializeCapstone, Game!InitializeYara, Game!RuleMatching,
     Game!ScanFinished, Game!frameVars
<1>2. CASE Game!HookDispatch \/ Game!HookWorld \/ Game!HookCursor \/ Game!FindGameWindow
  BY <1>2, GameAssumption DEF HookTypes, Game!HookDispatch, Game!HookWorld, Game!HookCursor,
     Game!FindGameWindow, Game!InlineHook, Game!frameVars
<1>3. CASE \E m \in Messages : Game!FreeUnsetInsn(m)
  BY <1>3 DEF HookTypes, Game!FreeUnsetInsn, Game!frameVars
<1>4. CASE \E m \in Messages : Game!OnDispatchNetMessage(m)
  BY <1>4, DispatchTypes
<1>5. CASE \/ Game!OnCursorDoAction \/ Game!Run \/ Game!HandleReturns
           \/ \E c \in Contexts : Game!FrameWithoutCamera(c) \/ Game!Frame(c)
  BY <1>5 DEF HookTypes, Game!OnCursorDoAction, Game!Run, Game!HandleReturns, Game!FrameWithoutCamera,
     Game!Frame, Game!loaderVars, Game!frameVars
<1>6. CASE UNCHANGED Game!vars
  BY <1>6 DEF HookTypes, Game!vars, Game!loaderVars, Game!frameVars
<1> QED
  BY <1>1, <1>2, <1>3, <1>4, <1>5, <1>6 DEF Game!Next, Game!MainThread, Game!Game

(* No more events wait than were pushed, and no more are pushed than the   *)
(* bound allows.                                                           *)
QueueBound == \A t \in EventTypes : Len(events[t]) <= pushed[t] /\ pushed[t] <= MaxEvents

LEMMA InitBound == Init => QueueBound
  BY EmptySeq, BoundsAssumption DEF Init, QueueBound

LEMMA StepBound == TypeOK /\ QueueBound /\ [Next]_vars => QueueBound'
<1> SUFFICES ASSUME TypeOK, QueueBound, [Next]_vars, NEW t \in EventTypes
             PROVE  Len(events'[t]) <= pushed'[t] /\ pushed'[t] <= MaxEvents
  BY DEF QueueBound
<1>0. /\ events[t] \in Seq(Nat) /\ Len(events[t]) \in Nat /\ pushed[t] \in Nat
      /\ Len(events[t]) <= pushed[t] /\ pushed[t] <= MaxEvents
  BY DEF TypeOK, QueueBound
<1>1. CASE QuietStep
  <2>1. UNCHANGED <<events, pushed>>
    BY <1>1 DEF QuietStep, Run, EnterHandle, AsyncNextTimeout, ServeUnary, ThrowUnary, FreeUnary,
       HandleFailure, CompleteOp, ClientCall, ClientCancel, AcceptCall, feedVars, vars
  <2> QED
    BY <1>0, <2>1
<1>2. ASSUME NEW u \in EventTypes, PushEvent(u)
      PROVE  Len(events'[t]) <= pushed'[t] /\ pushed'[t] <= MaxEvents
  <2>1. CASE t = u
    <3>1. /\ pushed[t] < MaxEvents /\ pushed'[t] = pushed[t] + 1
          /\ events'[t] = Append(events[t], pushed[t] + 1)
      BY <1>2, <2>1 DEF PushEvent, TypeOK
    <3>2. Len(events'[t]) = Len(events[t]) + 1
      BY <1>0, <3>1, AppendProperties
    <3> QED
      BY <1>0, <3>1, <3>2, BoundsAssumption
  <2>2. CASE t # u
    <3>1. pushed'[t] = pushed[t] /\ events'[t] = events[t]
      BY <1>2, <2>2 DEF PushEvent, TypeOK
    <3> QED
      BY <1>0, <3>1
  <2> QED
    BY <2>1, <2>2
<1>3. CASE RemoveEvents
  <2>1. /\ pushed' = pushed
        /\ events'[t] = IF events[t] = <<>> THEN <<>> ELSE Tail(events[t])
    BY <1>3 DEF RemoveEvents
  <2>2. CASE events[t] = <<>>
    BY <1>0, <2>1, <2>2
  <2>3. CASE events[t] # <<>>
    <3>1. Len(events'[t]) = Len(events[t]) - 1
      BY <1>0, <2>1, <2>3, HeadTailProperties
    <3> QED
      BY <1>0, <2>1, <3>1
  <2> QED
    BY <2>2, <2>3
<1>4. CASE \E a \in Addr : VisitStream(a) \/ ContinueStream(a) \/ \E n \in Addr : OpenStream(a, n)
  <2>1. UNCHANGED <<events, pushed>>
    BY <1>4 DEF VisitStream, ContinueStream, OpenStream, feedVars
  <2> QED
    BY <1>0, <2>1
<1> QED
  BY <1>1, <1>2, <1>3, <1>4, StepKinds

LEMMA ArrivedType == arrived \in [EventTypes -> Nat] /\ [SystemNext]_systemVars => arrived' \in [EventTypes -> Nat]
  BY DEF SystemNext, systemVars, MainThread, FreeUnsetInsn, OnDispatchNetMessage, OnCursorDoAction, Arrive,
     StartServer, FrameWithoutCamera, Frame, InProcess

(* All that the hooks and the server keep has its type.                    *)
THEOREM SystemTypeCorrect == SystemSpec => []SystemTypeOK
<1> DEFINE Types == TypeOK /\ QueueBound /\ HookTypes /\ arrived \in [EventTypes -> Nat]
<1>1. SystemInit => Types
  <2> SUFFICES ASSUME SystemInit PROVE Types
    OBVIOUS
  <2>1. TypeOK /\ QueueBound
    BY InitType, InitBound DEF SystemInit
  <2>2. HookTypes
    <3>1. DOMAIN idMapping = {}
      BY DEF SystemInit, Game!Init
    <3> QED
      BY <3>1 DEF SystemInit, Game!Init, HookTypes
  <2>3. arrived \in [EventTypes -> Nat]
    BY DEF SystemInit
  <2> QED
    BY <2>1, <2>2, <2>3
<1>2. Types /\ TypeOK' /\ [SystemNext]_systemVars => Types'
  BY ServerStep, StepBound, HooksStep, StepTypes, ArrivedType
<1>3. Types => SystemTypeOK
  <2> SUFFICES ASSUME Types PROVE Game!TypeOK
    BY DEF SystemTypeOK
  <2>1. \A t \in EventTypes : Len(events[t]) \in 0 .. MaxEvents
    BY BoundsAssumption DEF TypeOK, QueueBound
  <2>2. Queued \in [EventTypes -> 0 .. MaxEvents]
    BY <2>1 DEF Queued
  <2>3. initialized \in BOOLEAN /\ Locked \in BOOLEAN
    BY DEF TypeOK, Locked
  <2> QED
    BY <2>2, <2>3 DEF HookTypes, Game!TypeOK
<1> HIDE DEF Types
<1> QED
  BY <1>1, <1>2, <1>3, SystemType, PTL DEF SystemSpec
-----------------------------------------------------------------------------
(* Every arrival becomes its event.                                        *)

(* Before the end of the scan no callback has run; after it the rules that *)
(* match are recorded, so the cache holds what a look-up would say now.    *)
CacheInv ==
  /\ main \in {"capstone", "yara", "scan"} => hooks = {} /\ idMapping = <<>>
  /\ main \in {"hookDispatch", "hookWorld", "hookCursor", "window", "done"} => signs = image
  /\ hooks # {} => signs = image
  /\ \A m \in Messages : m % Keys \in DOMAIN idMapping => idMapping[m % Keys] = Game!Owner(m)

(* So a message that arrives is taken for what its dispatcher says.        *)
LEMMA TakenForOwn ==
  ASSUME CacheInv, NEW m \in Messages, Game!OnDispatchNetMessage(m)
  PROVE  /\ IF Game!Owner(m) \in DOMAIN Game!EventOf THEN Game!PushEvent(Game!EventOf[Game!Owner(m)])
            ELSE UNCHANGED Queued
         /\ idMapping' = [k \in DOMAIN idMapping \cup {m % Keys} |->
                            IF k = m % Keys THEN Game!Owner(m) ELSE idMapping[k]]
<1> DEFINE key == m % Keys
           f == IF key \in DOMAIN idMapping THEN idMapping[key] ELSE Game!Lookup(m)
<1>1. /\ idMapping' = [k \in DOMAIN idMapping \cup {key} |-> IF k = key THEN f ELSE idMapping[k]]
      /\ IF f \in DOMAIN Game!EventOf THEN Game!PushEvent(Game!EventOf[f]) ELSE UNCHANGED Queued
      /\ hooks # {}
  BY DEF Game!OnDispatchNetMessage
<1>2. f = Game!Owner(m)
  BY <1>1 DEF CacheInv, Game!Owner, Game!Lookup
<1> QED
  BY <1>1, <1>2

LEMMA StepCache ==
  ASSUME KeysDistinct
  PROVE  CacheInv /\ [Game!Next]_(Game!vars) => CacheInv'
<1> SUFFICES ASSUME CacheInv, Game!Next \/ UNCHANGED Game!vars PROVE CacheInv'
  OBVIOUS
<1>1. CASE Game!InitializeCapstone \/ Game!InitializeYara
             \/ (\E f \in Functions : Game!RuleMatching(f)) \/ Game!ScanFinished
  <2>1. hooks = {} /\ idMapping = <<>>
    BY <1>1 DEF CacheInv, Game!InitializeCapstone, Game!InitializeYara, Game!RuleMatching, Game!ScanFinished
  <2>2. UNCHANGED <<hooks, idMapping>>
    BY <1>1 DEF Game!InitializeCapstone, Game!InitializeYara, Game!RuleMatching, Game!ScanFinished
  <2>3. (main \in {"hookDispatch", "hookWorld", "hookCursor", "window", "done"} => signs = image)'
    BY <1>1 DEF Game!InitializeCapstone, Game!InitializeYara, Game!RuleMatching, Game!ScanFinished
  <2> QED
    BY <2>1, <2>2, <2>3 DEF CacheInv
<1>2. CASE Game!HookDispatch \/ Game!HookWorld \/ Game!HookCursor \/ Game!FindGameWindow
  <2>1. UNCHANGED <<image, capstone, signs, idMapping>> /\ signs = image
    BY <1>2 DEF CacheInv, Game!HookDispatch, Game!HookWorld, Game!HookCursor, Game!FindGameWindow
  <2>2. main' \notin {"capstone", "yara", "scan"}
    BY <1>2 DEF Game!HookDispatch, Game!HookWorld, Game!HookCursor, Game!FindGameWindow, Game!InlineHook
  <2> QED
    BY <2>1, <2>2 DEF CacheInv, Game!Owner
<1>3. CASE \E m \in Messages : Game!FreeUnsetInsn(m)
  <2>1. UNCHANGED <<image, capstone, signs, idMapping, hooks>> /\ main' = "crashed"
    BY <1>3 DEF Game!FreeUnsetInsn
  <2> QED
    BY <2>1 DEF CacheInv, Game!Owner
<1>4. ASSUME NEW m \in Messages, Game!OnDispatchNetMessage(m) PROVE CacheInv'
  <2>1. UNCHANGED <<image, main, capstone, signs, hooks>> /\ hooks # {}
    BY <1>4 DEF Game!OnDispatchNetMessage, Game!loaderVars
  <2>2. idMapping' = [k \in DOMAIN idMapping \cup {m % Keys} |->
                        IF k = m % Keys THEN Game!Owner(m) ELSE idMapping[k]]
    BY <1>4, TakenForOwn
  <2>3. ASSUME NEW n \in Messages, n % Keys \in DOMAIN idMapping' PROVE idMapping'[n % Keys] = Game!Owner(n)
    <3>1. CASE n % Keys = m % Keys
      BY <3>1, <2>2 DEF KeysDistinct
    <3>2. CASE n % Keys # m % Keys
      BY <3>2, <2>2, <2>3 DEF CacheInv
    <3> QED
      BY <3>1, <3>2
  <2>4. \A n \in Messages : Game!Owner(n)' = Game!Owner(n)
    BY <2>1 DEF Game!Owner
  <2> QED
    BY <2>1, <2>3, <2>4 DEF CacheInv
<1>5. CASE \/ Game!OnCursorDoAction \/ Game!Run \/ Game!HandleReturns
           \/ \E c \in Contexts : Game!FrameWithoutCamera(c) \/ Game!Frame(c)
  <2>1. UNCHANGED <<image, main, capstone, signs, hooks, idMapping>>
    BY <1>5 DEF Game!OnCursorDoAction, Game!Run, Game!HandleReturns, Game!FrameWithoutCamera,
       Game!Frame, Game!loaderVars
  <2> QED
    BY <2>1 DEF CacheInv, Game!Owner
<1>6. CASE UNCHANGED Game!vars
  BY <1>6 DEF CacheInv, Game!Owner, Game!vars, Game!loaderVars
<1> QED
  BY <1>1, <1>2, <1>3, <1>4, <1>5, <1>6 DEF Game!Next, Game!MainThread, Game!Game

(* The step of a message or a click counts for the server what it counts   *)
(* for the game.                                                           *)
LEMMA PushedOnce ==
  ASSUME TypeOK, NEW t \in EventTypes, NEW u \in EventTypes, PushEvent(t), Game!PushEvent(u)
  PROVE  t = u
<1>1. events[t] \in Seq(Nat) /\ Len(events[t]) \in Nat
  BY DEF TypeOK
<1>2. Len(events'[t]) = Len(events[t]) + 1
  BY <1>1, AppendProperties DEF PushEvent, TypeOK
<1>3. Queued' = [Queued EXCEPT ![u] = Queued[u] + 1]
  BY DEF Game!PushEvent
<1>4. Queued'[t] = Len(events'[t]) /\ Queued[t] = Len(events[t]) /\ DOMAIN Queued = EventTypes
  BY DEF Queued
<1> QED
  BY <1>1, <1>2, <1>3, <1>4

LEMMA StepArrive ==
  ASSUME TypeOK, CacheInv, EventsArrive, [SystemNext]_systemVars
  PROVE  EventsArrive'
<1>1. pushed \in [EventTypes -> Nat]
  BY DEF TypeOK
<1>2. CASE \E m \in Messages : OnDispatchNetMessage(m)
  <2>1. PICK m \in Messages : OnDispatchNetMessage(m)
    BY <1>2
  <2>2. Game!OnDispatchNetMessage(m) /\ Arrive(OwnEvent(m))
    BY <2>1 DEF OnDispatchNetMessage
  <2>3. CASE Game!Owner(m) \in DOMAIN Game!EventOf
    <3> DEFINE u == Game!EventOf[Game!Owner(m)]
    <3>1. u \in EventTypes /\ Game!PushEvent(u) /\ OwnEvent(m) = {u}
      <4>1. Game!PushEvent(u)
        BY <2>2, <2>3, TakenForOwn
      <4>2. u \in EventTypes
        BY <2>3, GameAssumption DEF Game!EventOf
      <4>3. OwnEvent(m) = {u}
        BY <2>3 DEF OwnEvent
      <4> QED
        BY <4>1, <4>2, <4>3
    <3>2. \E t \in EventTypes : PushEvent(t)
      <4>1. Queued[u] \in Nat /\ Queued'[u] = Queued[u] + 1
        BY <3>1 DEF Game!PushEvent, Queued, TypeOK
      <4> QED
        BY <2>1, <4>1 DEF OnDispatchNetMessage, vars, Queued
    <3>3. PushEvent(u)
      BY <3>1, <3>2, PushedOnce
    <3> HIDE DEF u
    <3>4. pushed' = [t \in EventTypes |-> IF t = u THEN pushed[t] + 1 ELSE pushed[t]]
      BY <1>1, <3>3 DEF PushEvent
    <3>5. arrived' = [t \in EventTypes |-> IF t = u THEN arrived[t] + 1 ELSE arrived[t]]
      BY <2>2, <3>1 DEF Arrive
    <3> QED
      BY <3>4, <3>5 DEF EventsArrive
  <2>4. CASE Game!Owner(m) \notin DOMAIN Game!EventOf
    <3>1. OwnEvent(m) = {} /\ UNCHANGED Queued
      BY <2>2, <2>4, TakenForOwn DEF OwnEvent
    <3>2. ASSUME NEW t \in EventTypes, PushEvent(t) PROVE FALSE
      <4>1. events[t] \in Seq(Nat) /\ Len(events[t]) \in Nat
        BY DEF TypeOK
      <4>2. Len(events'[t]) = Len(events[t]) + 1
        BY <4>1, <3>2, AppendProperties DEF PushEvent, TypeOK
      <4>3. Queued'[t] = Len(events'[t]) /\ Queued[t] = Len(events[t])
        BY DEF Queued
      <4> QED
        BY <3>1, <4>1, <4>2, <4>3
    <3>3. UNCHANGED pushed
      BY <2>1, <3>2 DEF OnDispatchNetMessage, vars
    <3>4. arrived' = [t \in EventTypes |-> arrived[t]]
      BY <2>2, <3>1 DEF Arrive
    <3> QED
      BY <1>1, <3>3, <3>4 DEF EventsArrive
  <2> QED
    BY <2>3, <2>4
<1>3. CASE OnCursorDoAction
  <2>1. pushed' = [t \in EventTypes |-> IF t = "CursorActionMessage" THEN pushed[t] + 1 ELSE pushed[t]]
    BY <1>1, <1>3, GameAssumption DEF OnCursorDoAction, PushEvent
  <2>2. arrived' = [t \in EventTypes |-> IF t = "CursorActionMessage" THEN arrived[t] + 1 ELSE arrived[t]]
    BY <1>3 DEF OnCursorDoAction, Arrive
  <2> QED
    BY <2>1, <2>2 DEF EventsArrive
<1>4. CASE \/ MainThread \/ (\E m \in Messages : FreeUnsetInsn(m)) \/ StartServer
           \/ (\E c \in Contexts : FrameWithoutCamera(c) \/ Frame(c)) \/ UNCHANGED systemVars
  BY <1>4 DEF MainThread, FreeUnsetInsn, StartServer, Run, FrameWithoutCamera, Frame, EnterHandle,
     feedVars, vars, systemVars, EventsArrive
<1>5. CASE InProcess(HandleRest)
  BY <1>5 DEF InProcess, HandleRest, AsyncNextTimeout, Dispatch, ServeUnary, ThrowUnary, OpenStream, FreeUnary,
     ContinueStream, HandleFailure, VisitStream, RemoveEvents, feedVars, EventsArrive
<1>6. CASE InProcess(Runtime) \/ ((\E c \in Calls : ClientCall(c) \/ ClientCancel(c)) /\ UNCHANGED <<hookVars, arrived>>)
  BY <1>6 DEF InProcess, Runtime, AcceptCall, CompleteOp, ClientCall, ClientCancel, feedVars, EventsArrive
<1> QED
  BY <1>2, <1>3, <1>4, <1>5, <1>6 DEF SystemNext

LEMMA ArriveInvariant ==
  ASSUME KeysDistinct
  PROVE  SystemSpec => [](CacheInv /\ EventsArrive)
<1>1. SystemInit => CacheInv /\ EventsArrive
  <2> SUFFICES ASSUME SystemInit PROVE CacheInv /\ EventsArrive
    OBVIOUS
  <2>1. hooks = {} /\ idMapping = <<>> /\ DOMAIN idMapping = {} /\ main = "capstone"
    BY DEF SystemInit, Game!Init
  <2> QED
    BY <2>1 DEF SystemInit, Init, CacheInv, EventsArrive
<1>2. CacheInv /\ EventsArrive /\ TypeOK /\ [SystemNext]_systemVars => (CacheInv /\ EventsArrive)'
  BY HooksStep, StepCache, StepArrive
<1> QED
  BY <1>1, <1>2, SystemType, PTL DEF SystemSpec

(* Every chat message, dialog and click that reaches the game is pushed    *)
(* once, and nothing else is, whatever the interleaving of the scan, the   *)
(* hooking, the frames and Handle's lock (entry.cpp:691-809, Server.h:20), *)
(* as long as no two ids agree in the bits that idMapping keeps.           *)
THEOREM EventsArriveCorrect ==
  ASSUME KeysDistinct
  PROVE  SystemSpec => []EventsArrive
  BY ArriveInvariant, PTL

-----------------------------------------------------------------------------
(* The streams, told of what reached the game.                             *)

LEMMA ToldStep ==
  EventsArrive /\ EventsArrive' /\ [Feed!Next]_(Feed!vars) => [Told!Next]_(Told!vars)
  BY DEF EventsArrive, Feed!Next, Feed!vars, Feed!Publish, Feed!Deliver, Feed!Wait, Feed!DropFronts, Feed!Pending,
     Told!Next, Told!vars, Told!Publish, Told!Deliver, Told!Wait, Told!DropFronts, Told!Pending

(* From the game's message to the client's stream: a subscriber is told of *)
(* what reached the game, in order, and nothing is dropped in front of one *)
(* that waits (entry.cpp:691-809, Server.cpp:525-540).                     *)
THEOREM ToldCorrect ==
  ASSUME KeysDistinct, FreedReads \subseteq {"COMPLETED"}
  PROVE  SystemSpec => GameTold
<1>1. Feed!Init /\ EventsArrive => Told!Init
  BY DEF Feed!Init, Told!Init, EventsArrive
<1>2. SystemSpec => Feed!Init /\ [][Feed!Next]_(Feed!vars)
  BY ServerImplemented, FeedImplemented, PTL DEF ImplementsFeed, Feed!Spec
<1> QED
  BY <1>1, <1>2, ToldStep, EventsArriveCorrect, PTL DEF GameTold, Told!Spec

-----------------------------------------------------------------------------
(* Handle serves a request with the context and the lists of its frame:    *)
(* the frame that set both enters Handle, and no other frame begins before *)
(* it has left (entry.cpp:988-1021).                                       *)
THEOREM ServedCorrect == SystemSpec => []ServedInOneFrame
<1>1. SystemInit => ServedInOneFrame
  BY DEF SystemInit, Init, ServedInOneFrame, Game!ServedInOneFrame, Locked
<1>2. ServedInOneFrame /\ [Game!Next]_(Game!vars) => ServedInOneFrame'
  <2> SUFFICES ASSUME ServedInOneFrame, Game!Next \/ UNCHANGED Game!vars PROVE Game!ServedInOneFrame'
    BY DEF ServedInOneFrame
  <2>1. CASE \E c \in Contexts : Game!Frame(c)
    BY <2>1, GameAssumption DEF Game!ServedInOneFrame, Game!Frame
  <2>2. CASE \E c \in Contexts : Game!FrameWithoutCamera(c)
    BY <2>2 DEF Game!ServedInOneFrame, Game!FrameWithoutCamera, Game!RenderThread
  <2>3. CASE Game!HandleReturns
    BY <2>3 DEF Game!ServedInOneFrame, Game!HandleReturns
  <2>4. CASE UNCHANGED <<context, lists, Locked>>
    BY <2>4 DEF ServedInOneFrame, Game!ServedInOneFrame
  <2>5. CASE Game!MainThread
    <3>1. UNCHANGED Game!frameVars
      BY <2>5 DEF Game!MainThread, Game!InitializeCapstone, Game!InitializeYara, Game!RuleMatching,
         Game!ScanFinished, Game!HookDispatch, Game!HookWorld, Game!HookCursor, Game!FindGameWindow
    <3> QED
      BY <2>4, <3>1 DEF Game!frameVars
  <2>6. CASE \/ \E m \in Messages : Game!FreeUnsetInsn(m) \/ Game!OnDispatchNetMessage(m)
             \/ Game!OnCursorDoAction \/ Game!Run
    <3>1. UNCHANGED <<context, lists, Locked>>
      BY <2>6 DEF Game!FreeUnsetInsn, Game!OnDispatchNetMessage, Game!OnCursorDoAction, Game!Run, Game!frameVars
    <3> QED
      BY <2>4, <3>1
  <2>7. CASE UNCHANGED Game!vars
    BY <2>4, <2>7 DEF Game!vars, Game!frameVars
  <2> QED
    BY <2>1, <2>2, <2>3, <2>5, <2>6, <2>7 DEF Game!Next, Game!Game
<1> QED
  BY <1>1, <1>2, HooksStep, SystemType, PTL DEF SystemSpec
=============================================================================
