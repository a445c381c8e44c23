---------------------------- MODULE HooksProofs ----------------------------
(***************************************************************************)
(* What holds of Hooks for any rules, any messages and any game: see the   *)
(* theorems at the end.  DispatchedByOwn is not inductive; the reason it   *)
(* holds is that no callback of OnDispatchNetMessage can run before the    *)
(* scan is complete, and that nothing it looks at changes afterwards.      *)
(***************************************************************************)
EXTENDS Hooks, TLAPS

Scanning == main \in {"capstone", "yara", "scan"}

(* No hook before the end of the scan ...                                  *)
NoEarlyHook == Scanning => hooks = {} /\ idMapping = <<>> /\ handled = None
CrashKnown == main = "crashed" => ~ yara \/ ~ capstone \/ (signs = image /\ "DispatchNetMessage" \notin image)
RulesLoaded == main \in {"hookDispatch", "hookWorld", "hookCursor", "window", "done"} => signs = image
(* ... so what the cache holds is what a look-up would say now.            *)
CacheRight ==
  /\ hooks # {} => signs = image
  /\ \A m \in Messages : m % Keys \in DOMAIN idMapping => idMapping[m % Keys] = Owner(m)

HookInv ==
  /\ TypeOK
  /\ NoEarlyHook
  /\ RulesLoaded
  /\ CrashKnown
  /\ CacheRight
  /\ DispatchedByOwn
  /\ ServedInOneFrame

(* Ids of the game's messages differ in the bits that idMapping looks at.  *)
KeysDistinct == \A m, n \in Messages : m % Keys = n % Keys => m = n

LEMMA KeyType ==
  ASSUME NEW m \in Messages
  PROVE  m % Keys \in 0 .. Keys - 1
  BY MessagesAssumption

LEMMA InitInv == Init => HookInv
<1> SUFFICES ASSUME Init PROVE HookInv
  OBVIOUS
<1>1. DOMAIN idMapping = {}
  BY DEF Init
<1>2. TypeOK
  <2>1. image \subseteq Functions /\ signs \subseteq Functions /\ hooks \subseteq Functions
    BY DEF Init
  <2>2. /\ capstone \in BOOLEAN /\ yara \in BOOLEAN /\ initialized \in BOOLEAN
        /\ handling \in BOOLEAN /\ window \in BOOLEAN
    BY Zenon DEF Init
  <2>3. events \in [EventTypes -> 0 .. MaxEvents]
    BY FlagsAssumption DEF Init
  <2>4. handled = None /\ context = None /\ lists = None /\ main = "capstone"
    BY DEF Init
  <2> QED
    BY <1>1, <2>1, <2>2, <2>3, <2>4 DEF TypeOK
<1>3. NoEarlyHook /\ RulesLoaded /\ CrashKnown
  BY DEF Init, NoEarlyHook, Scanning, RulesLoaded, CrashKnown
<1>4. CacheRight
  BY <1>1 DEF Init, CacheRight
<1>5. DispatchedByOwn /\ ServedInOneFrame
  BY DEF Init, DispatchedByOwn, ServedInOneFrame
<1> QED
  BY <1>2, <1>3, <1>4, <1>5 DEF HookInv

(* While MainThread initialises and scans no callback has run.             *)
LEMMA LoaderInv ==
  HookInv /\ (InitializeCapstone \/ InitializeYara \/ (\E f \in Functions : RuleMatching(f)) \/ ScanFinished)
    => HookInv'
<1> SUFFICES ASSUME HookInv,
                    InitializeCapstone \/ InitializeYara
                      \/ (\E f \in Functions : RuleMatching(f)) \/ ScanFinished
             PROVE HookInv'
  OBVIOUS
<1>1. Scanning /\ hooks = {} /\ idMapping = <<>> /\ handled = None
  BY DEF HookInv, NoEarlyHook, Scanning, InitializeCapstone, InitializeYara, RuleMatching, ScanFinished
<1>2. UNCHANGED <<hooks, idMapping, handled, frameVars, events, window, image>>
  BY DEF InitializeCapstone, InitializeYara, RuleMatching, ScanFinished
<1>3. TypeOK'
  BY <1>2 DEF HookInv, TypeOK, InitializeCapstone, InitializeYara, RuleMatching, ScanFinished, frameVars
<1>4. NoEarlyHook' /\ CacheRight' /\ DispatchedByOwn' /\ ServedInOneFrame'
  BY <1>1, <1>2 DEF HookInv, NoEarlyHook, CacheRight, DispatchedByOwn, ServedInOneFrame, frameVars
<1>5. RulesLoaded' /\ CrashKnown'
  BY DEF HookInv, RulesLoaded, CrashKnown, InitializeCapstone, InitializeYara, RuleMatching, ScanFinished
<1> QED
  BY <1>3, <1>4, <1>5 DEF HookInv

(* EnableHooks and what follows leave the scan's result alone.             *)
LEMMA EnableInv ==
  HookInv /\ (HookDispatch \/ HookWorld \/ HookCursor \/ FindGameWindow) => HookInv'
<1> SUFFICES ASSUME HookInv, HookDispatch \/ HookWorld \/ HookCursor \/ FindGameWindow PROVE HookInv'
  OBVIOUS
<1>1. UNCHANGED <<image, capstone, yara, signs, idMapping, handled, frameVars, events>>
  BY DEF HookDispatch, HookWorld, HookCursor, FindGameWindow
<1>2. ~ Scanning /\ ~ Scanning' /\ signs = image
  BY DEF HookInv, Scanning, RulesLoaded, HookDispatch, HookWorld, HookCursor, FindGameWindow, InlineHook
<1>3. TypeOK'
  BY <1>1, FunctionsAssumption DEF HookInv, TypeOK, HookDispatch, HookWorld, HookCursor, FindGameWindow,
     InlineHook, frameVars
<1>4. NoEarlyHook' /\ RulesLoaded'
  BY <1>1, <1>2 DEF NoEarlyHook, RulesLoaded
<1>5. CrashKnown'
  BY <1>1, <1>2 DEF HookInv, CrashKnown, HookDispatch, HookWorld, HookCursor, FindGameWindow, InlineHook
<1>6. CacheRight' /\ DispatchedByOwn' /\ ServedInOneFrame'
  BY <1>1, <1>2 DEF HookInv, CacheRight, DispatchedByOwn, ServedInOneFrame, Owner, frameVars
<1> QED
  BY <1>3, <1>4, <1>5, <1>6 DEF HookInv

(* A push needs a place in the bound, so the numbers stay in it.           *)
LEMMA PushType ==
  ASSUME TypeOK, NEW t \in EventTypes, PushEvent(t)
  PROVE  events' \in [EventTypes -> 0 .. MaxEvents]
<1>1. events \in [EventTypes -> 0 .. MaxEvents] /\ MaxEvents \in Nat
  BY FlagsAssumption DEF TypeOK
<1>2. events[t] + 1 \in 0 .. MaxEvents /\ events' = [events EXCEPT ![t] = events[t] + 1]
  BY <1>1 DEF PushEvent
<1> QED
  BY <1>1, <1>2

LEMMA DispatchInv ==
  ASSUME KeysDistinct, HookInv, NEW m \in Messages, OnDispatchNetMessage(m)
  PROVE  HookInv'
<1> DEFINE key == m % Keys
           f == IF key \in DOMAIN idMapping THEN idMapping[key] ELSE Lookup(m)
<1>1. /\ idMapping' = [k \in DOMAIN idMapping \cup {key} |-> IF k = key THEN f ELSE idMapping[k]]
      /\ handled' = [msg |-> m, by |-> f]
      /\ UNCHANGED events \/ \E t \in EventTypes : PushEvent(t)
      /\ UNCHANGED <<loaderVars, frameVars>>
      /\ Alive /\ hooks # {}
  BY EventsAssumption DEF OnDispatchNetMessage, EventOf
<1>2. signs = image
  BY <1>1 DEF HookInv, CacheRight
<1>3. f = Owner(m)
  BY <1>2 DEF HookInv, CacheRight, Owner, Lookup
<1>4. Owner(m) \in Functions \cup {None}
  BY DEF HookInv, TypeOK, Owner
<1>5. key \in 0 .. Keys - 1
  BY KeyType
<1> HIDE DEF key, f
<1>6. DOMAIN idMapping' = DOMAIN idMapping \cup {key} /\ idMapping'[key] = Owner(m)
      /\ \A k \in DOMAIN idMapping \ {key} : idMapping'[k] = idMapping[k]
  BY <1>1, <1>3
<1>7. \A n \in Messages : Owner(n)' = Owner(n)
  BY <1>1 DEF Owner, loaderVars
<1>8. CacheRight'
  <2>1. (hooks # {} => signs = image)'
    BY <1>1, <1>2 DEF loaderVars
  <2>2. ASSUME NEW n \in Messages, n % Keys \in DOMAIN idMapping' PROVE idMapping'[n % Keys] = Owner(n)
    <3>1. CASE n % Keys = key
      BY <3>1, <1>6 DEF KeysDistinct, key
    <3>2. CASE n % Keys # key
      BY <3>2, <2>2, <1>6 DEF HookInv, CacheRight
    <3> QED
      BY <3>1, <3>2
  <2> QED
    BY <2>1, <2>2, <1>7 DEF CacheRight
<1>9. TypeOK'
  <2>1. \A k \in DOMAIN idMapping' : idMapping'[k] \in Functions \cup {None}
    BY <1>4, <1>6 DEF HookInv, TypeOK
  <2>2. DOMAIN idMapping' \subseteq 0 .. Keys - 1
    BY <1>5, <1>6 DEF HookInv, TypeOK
  <2>3. handled' \in [msg : Messages, by : Functions \cup {None}]
    BY <1>1, <1>3, <1>4
  <2>4. events' \in [EventTypes -> 0 .. MaxEvents]
    BY <1>1, PushType DEF HookInv, TypeOK
  <2> QED
    BY <2>1, <2>2, <2>3, <2>4, <1>1 DEF HookInv, TypeOK, loaderVars, frameVars
<1>10. DispatchedByOwn'
  BY <1>1, <1>3, <1>7 DEF DispatchedByOwn
<1>11. NoEarlyHook' /\ RulesLoaded' /\ CrashKnown' /\ ServedInOneFrame'
  BY <1>1 DEF HookInv, NoEarlyHook, Scanning, RulesLoaded, CrashKnown, ServedInOneFrame, loaderVars, frameVars
<1> QED
  BY <1>8, <1>9, <1>10, <1>11 DEF HookInv

(* A callback that frees an unset pointer changes nothing but main.        *)
LEMMA FreeInv ==
  ASSUME HookInv, NEW m \in Messages, FreeUnsetInsn(m)
  PROVE  HookInv'
<1>1. /\ UNCHANGED <<image, capstone, yara, signs, hooks, window, idMapping, handled, frameVars, events>>
      /\ main' = "crashed" /\ ~ capstone
  BY DEF FreeUnsetInsn
<1>2. TypeOK'
  BY <1>1 DEF HookInv, TypeOK, frameVars
<1>3. NoEarlyHook' /\ RulesLoaded' /\ CrashKnown'
  BY <1>1 DEF NoEarlyHook, Scanning, RulesLoaded, CrashKnown
<1>4. CacheRight' /\ DispatchedByOwn' /\ ServedInOneFrame'
  BY <1>1 DEF HookInv, CacheRight, DispatchedByOwn, ServedInOneFrame, Owner, frameVars
<1> QED
  BY <1>2, <1>3, <1>4 DEF HookInv

(* The other callbacks touch neither the scan's result nor the cache.      *)
LEMMA FrameInv ==
  ASSUME HookInv,
         \/ OnCursorDoAction \/ Run \/ HandleReturns
         \/ \E c \in Contexts : FrameWithoutCamera(c) \/ Frame(c)
  PROVE  HookInv'
<1>1. UNCHANGED <<loaderVars, idMapping, handled>>
  BY DEF OnCursorDoAction, Run, FrameWithoutCamera, Frame, HandleReturns
<1>2. TypeOK'
  <2>1. events' \in [EventTypes -> 0 .. MaxEvents]
    <3>1. CASE OnCursorDoAction
      BY <3>1, PushType, EventsAssumption DEF HookInv, OnCursorDoAction
    <3>2. CASE HandleReturns
      BY <3>2, FlagsAssumption DEF HookInv, TypeOK, HandleReturns
    <3>3. CASE UNCHANGED events
      BY <3>3 DEF HookInv, TypeOK
    <3> QED
      BY <3>1, <3>2, <3>3 DEF Run, FrameWithoutCamera, Frame
  <2>2. /\ initialized' \in BOOLEAN /\ handling' \in BOOLEAN
        /\ {context', lists'} \subseteq Contexts \cup {None}
    BY DEF HookInv, TypeOK, OnCursorDoAction, Run, FrameWithoutCamera, Frame, HandleReturns, frameVars
  <2> QED
    BY <1>1, <2>1, <2>2 DEF HookInv, TypeOK, loaderVars
<1>3. ServedInOneFrame'
  BY FunctionsAssumption DEF HookInv, ServedInOneFrame, OnCursorDoAction, Run, RenderThread, FrameWithoutCamera,
     Frame, HandleReturns, frameVars
<1>4. NoEarlyHook' /\ RulesLoaded' /\ CrashKnown' /\ CacheRight' /\ DispatchedByOwn'
  BY <1>1 DEF HookInv, NoEarlyHook, Scanning, RulesLoaded, CrashKnown, CacheRight, DispatchedByOwn,
     Owner, loaderVars
<1> QED
  BY <1>2, <1>3, <1>4 DEF HookInv

LEMMA StutterInv == HookInv /\ UNCHANGED vars => HookInv'
  BY DEF HookInv, TypeOK, NoEarlyHook, Scanning, RulesLoaded, CrashKnown, CacheRight, DispatchedByOwn,
     ServedInOneFrame, Owner, vars, loaderVars, frameVars

LEMMA HookInvariant ==
  ASSUME KeysDistinct
  PROVE  Spec => []HookInv
<1>1. Init => HookInv
  BY InitInv
<1>2. HookInv /\ [Next]_vars => HookInv'
  <2> SUFFICES ASSUME HookInv, [Next]_vars PROVE HookInv'
    OBVIOUS
  <2>1. CASE MainThread
    BY <2>1, LoaderInv, EnableInv DEF MainThread
  <2>2. CASE Game
    BY <2>2, FreeInv, DispatchInv, FrameInv DEF Game
  <2>3. CASE UNCHANGED vars
    BY <2>3, StutterInv
  <2> QED
    BY <2>1, <2>2, <2>3 DEF Next
<1> QED
  BY <1>1, <1>2, PTL DEF Spec

(* Every message is handled as what its own dispatcher says, whatever the  *)
(* interleaving of the scan, the hooking and the messages (entry.cpp:738), *)
(* as long as no two ids agree in the bits that idMapping keeps.           *)
THEOREM DispatchCorrect ==
  ASSUME KeysDistinct
  PROVE  Spec => []DispatchedByOwn
<1>1. HookInv => DispatchedByOwn
  BY DEF HookInv
<1> QED
  BY <1>1, HookInvariant, PTL

(* The process goes down only for want of rules, of Capstone or of         *)
(* DispatchNetMessage (entry.cpp:1153).                                    *)
THEOREM CrashCorrect ==
  ASSUME KeysDistinct
  PROVE  Spec => []CrashExplained
<1>1. HookInv => CrashExplained
  BY DEF HookInv, CrashKnown, CrashExplained
<1> QED
  BY <1>1, HookInvariant, PTL

(* From its beginning to its end Handle serves requests with a context and *)
(* lists read in its frame (entry.cpp:988).                                *)
THEOREM ServedCorrect ==
  ASSUME KeysDistinct
  PROVE  Spec => []ServedInOneFrame
<1>1. HookInv => ServedInOneFrame
  BY DEF HookInv
<1> QED
  BY <1>1, HookInvariant, PTL

(* Everything the hooks and MainThread keep has its type; the cache maps   *)
(* low bits of ids to functions.                                           *)
THEOREM TypeCorrect ==
  ASSUME KeysDistinct
  PROVE  Spec => []TypeOK
<1>1. HookInv => TypeOK
  BY DEF HookInv
<1> QED
  BY <1>1, HookInvariant, PTL
=============================================================================
