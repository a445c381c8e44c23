# RS3Bot: a TLA+ model of QNXTHook

RS3Bot is a DLL (`src/QNXTHook`) that is injected into the RuneScape NXT client.
It hooks functions of the game, and offers a gRPC service (`src/protobuf/world.proto`)
through which other programs read the game's state and act in it. This directory
holds TLA+ modules translated from that code, TLC configurations that check them on
small instances, and proofs checked by TLAPS that hold for every instance.

## Inventory

| Part | Code | State | Operations |
|---|---|---|---|
| RPC server | `Server.h`, `Server.cpp`, `datacall.h` | heap of request handlers (`status_`, `state_`), completion queue, `waitingStreams_`, `events_`, `eventsMutex_` | `Run`, `Handle`, `PushEvent`, `RequestHandler::Proceed`, `StreamRequestHandler::Proceed`, `Write` |
| Unary method bodies | `Server.cpp:43-289`, lambdas in `Run` | none of their own; the game's memory | one per method of `service RS3` |
| Bootstrap | `entry.cpp`: `DllMain`, `MainThread`, `yr_scan_callback`, `EnableHooks` | global handles, the function table, `g_gameHwnd`, `initialized` | scan for signatures, install hooks |
| Message table and dispatch hook | `entry.cpp`: `FindMessages`, `OnDispatchNetMessage` | `signs`, `idMapping` | map message ids, forward messages to handlers, push events |
| Packet handlers | `net.h`, `entry.cpp:113-725` | a byte or bit cursor into one packet | `UnpackData`, `UnpackTile`, `SetSlotItem`, `HandleRecvGameMessage`, `HandleOpenDialog`, `HandleLoadWorld` |
| Game memory | `common.h`, `containers.h` | the game's hash tables, lists and pointers | `GetServerEntities`, `GetStaticEntities`, `GetInventoryByType`, `GetProperty`, `GetUIWidget`, `GetObjectDef`, ... |
| Game actions | `common.h:633-1094` | none of their own; window messages, calls into the game | `InteractObject`, `DoUIAction`, `WalkTo`, `DoAntiAFK`, ... |
| Overlay | `entry.cpp:890-967`, `Matrix.h`, `player.h` | none | drawing |
| Messages | `proto/world.pb.h`, `proto/world.pb.cc` | the fields of eighteen message classes, their oneofs | setters, `Clear`, `ByteSize`, serializers, `MergePartialFromCodedStream`, `MergeFrom` |
| gRPC stubs, vendored code, tools | `proto/world.grpc.pb.*`, `gsl/`, `tools/`, `yara-rules/` | | not modelled |

### How the parts interact

* The game's render thread calls `OnCursorWorldContextMenu` every frame. The first call
  runs `RPCServer::Run`; each call then reads the game context and calls
  `RPCServer::Handle`. Method bodies therefore run on the render thread, inside `Handle`,
  with `eventsMutex_` held. An `InvalidPointerException` thrown by a body is caught in the
  hook (`entry.cpp:1017-1021`), so it cuts the frame's `Handle` short.
* Other hooks (`OnDispatchNetMessage`, `OnCursorDoAction`) call `RPCServer::PushEvent`,
  which takes the same mutex.
* gRPC's own threads match client calls with armed handlers and put finished operations
  into the completion queue; they take no lock of this program.
* Clients call, cancel and disconnect as they like.

### What is hard, and the properties that make each part correct

* **RPC server.** A handler's address is the tag of its operations, so an address must
  not be freed while anyone can still return it; a handler must not be in two places at
  once, or it starts a second operation before the first is done; each method must always
  have exactly one listener, also after exceptions and cancellations; `waitingStreams_`
  must agree with `state_`; a stream must not be given an event twice or out of order, and
  a waiting stream must not miss one; calls are answered; handlers are freed.
* **Bootstrap.** Nothing that a hook uses may be unset when the hook fires; a signature
  that was not found must not be hooked.
* **Dispatch.** A message is given to the handler that its signature names, for every id.
* **Packets.** A field of n bits is the n bits at the cursor; each handler gets the fields that were
  sent whatever the lengths of those before; the cursor of an update that eight bits can count ends where the packet does, and nothing far behind the packet is read.
* **Game memory.** Walks end and find what is there; null pointers are
  reported, and a response is complete or not sent.
* **Acting.** A body runs with the server's mutex held and sends messages to the window: it must not lock
  itself or the game out. The answer tells whether the game was told to act, the option the
  game is given is the one that was asked for, and no key stays down.
* **Messages.** What the receiver reads is what the sender filled in, for every class, although
  six functions of each class have a list of the fields of their own.

The full list of hazards, each at its line, is in `PROJECT.json` under `hazards`.

**The hook of the frame function is commented out** in this version (`entry.cpp:1172`), so as
compiled `Run` and `Handle` are never called. `Hooks` models both cases (`RenderHook`); `RPCServer` models
the server with the hook in place, which is what all of `Server.cpp` is written for.

## Modules

| Module | What it is |
|---|---|
| `RPCServer` | the RPC server: state, one action per step, fairness, properties |
| `EventFeed` | abstract specification: what a subscriber of an event stream is promised |
| `Hooks` | `entry.cpp`: initialisation, scan, hooking, and the callbacks of the hooks |
| `QNXTHook` | `Hooks` and `RPCServer` composed: the process from its injection to the answers of the server |
| `UnpackBits` | `UnpackData` of `net.h` |
| `Packets` | the handlers of `entry.cpp` that take packets apart; extends `UnpackBits` |
| `GameTables` | the searches of `common.h` in the game's hash tables and lists |
| `GameScene` | the scene's tree, the searches for definitions, the loops that fill responses; extends `GameTables` |
| `GameActions` | the bodies of the unary methods on the render thread, with the game's window and threads |
| `WorldMessages` | the tables of fields in the functions of the eighteen message classes |
| `Wire` | messages built, copied, sized, serialized and parsed according to those tables |
| `RPCServerProofs` | types and ownership of the handlers |
| `RPCServerOrderProofs` | one listener per method, events in order, none missed; `RPCServer` implements `EventFeed` |
| `HooksProofs` | theorems about `Hooks` |
| `QNXTHookProofs` | the composition implements `RPCServer`, `Hooks` and `EventFeed` |
| `GameActionsProofs` | theorems about `GameActions` |
| `PacketsProofs` | theorems about `UnpackBits` and `Packets`: bounds, bits, the handlers' fields |
| `GameTablesProofs` | theorems about the searches of `GameTables` |
| `GameSceneProofs` | theorems about `GameScene`, with the searches in it |
| `MCRPCServer`, `MCHooks`, `MCQNXTHook`, `MCPackets`, `MCGameTables`, `MCGameActions`, `MCWire` | small instances for TLC |

`Hooks` and `RPCServer` meet in `QNXTHook`: in the hook of a frame, which calls `Run` and `Handle`, and in `PushEvent`, which the other
hooks call. The bodies of unary methods, which `RPCServer` sees only return or throw, are the
subject of `GameActions`: its `EnterHandle`, `LeaveHandle` and `Throw` are a whole `Handle` of `RPCServer`, its `Answer` the
end of a `ServeUnary`. What a body finds in memory is the subject of `GameTables` and `GameScene`, what becomes of its
response, and of an event that a hook pushes, of `Wire`.

### `RPCServer`

| Variable | Code |
|---|---|
| `initialized` | the flag of `entry.cpp` that makes the first frame call `Run` |
| `pc`, `it` | where the render thread is in `Handle`; the iterator of the loop at `Server.cpp:525` |
| `handler` | the heap: `status_`, `state_`, the method and the call of the handler at each address, `FREED` when none is there |
| `ops` | per handler, the operations gRPC still works on (`accept`, `write`, `finish`) |
| `cq` | the completion queue, a set: a completion queue promises no order |
| `waitingStreams`, `events` | `waitingStreams_`, `events_`; an event is a number, its place among those of its type |
| `pushed`, `last` | history: how many events were pushed, which one each call was written last |
| `rpc` | per call, what the gRPC runtime knows: `idle`, `queued`, `open`, `answered`, `dead` |

`Handle` is split where another thread can act: taking the mutex (`EnterHandle`), one result of
`AsyncNext` with the whole `Proceed` it causes (`ServeUnary`, `ThrowUnary`, `FreeUnary`,
`OpenStream`, `ContinueStream`, `HandleFailure`, or `AsyncNextTimeout`), one round of the loop over
the waiting streams (`VisitStream`), and the removal of the events together with the release of the
mutex (`RemoveEvents`). `PushEvent` needs the mutex and so happens only between frames; the actions
of the clients and of gRPC (`ClientCall`, `ClientCancel`, `AcceptCall`, `CompleteOp`), which are
external to the repository, happen at any time.

Choices a reader should know:

* **Streams.** `Server.cpp:446-478` holds the stream consumers in comments. `Streams = {}` is the server
  with the methods that are compiled in; `Streams = {ChatMessage}` is the server with them enabled. The handler class, the loop and
  the event queues are compiled in both cases.
* **A freed handler's `state_`.** `Handle` calls `req->State()` after `Proceed`, which in
  `FINISH` has executed `delete this`. The read is undefined; `FreedReads` is the set of values it may return.
  The passing runs and the ownership theorems take `{"COMPLETED"}`, the value the memory held;
  `freed_state_read` shows what the other value does.
* **`erase(it)`** without reassigning `it`: the iterator then denotes the successor's position,
  as it does in a build without iterator checks.
* **`delete req`** through a base without a virtual destructor is treated as a deallocation.
* **Unary bodies** either return or throw (`Throwing` is the set of methods whose body can).
* The uninitialised `tag` at `Server.cpp:490` has no effect in the model: when `AsyncNext`
  returns no event the only statement under the test of `tag` is guarded by the status.
* Definitions whose names end in a slip (`VisitStreamSkipsNext`, ...) are no part of `Spec`; each is an action
  with a plausible mistake, kept to show that a property fails when the mistake is made.

### `EventFeed`

What is left of the streams when handlers, addresses, the completion queue and frames are taken away: events of a
type are numbered, a subscriber is sent the oldest event there is, never one that it had, and the oldest events are
dropped together, only when no subscriber waits that has not been sent them. `RPCServer` implements it
(`ImplementsFeed`) with `pushed` as what was published, `Removed` (pushed and no longer in `events`) as what was dropped, `last` as
what was sent, and the calls of the handlers in `waitingStreams_` as those who wait. The mapping says what a subscriber may rely on, and no
more: an event may pass while a subscriber's write is under way (the comment at `Server.cpp:537`, "Remove processed
events", promises more than that).

### `Hooks`

| Variable | Code |
|---|---|
| `image` | which functions the YARA rules find in this version of the game |
| `main` | where `MainThread` is; `crashed` when the process is gone |
| `capstone`, `yara` | `cs_handle` is open, `yrRules` is loaded |
| `signs` | `signatureByType` and `signs`: the functions found so far |
| `hooks` | the functions with an inline hook |
| `idMapping` | the cache of `OnDispatchNetMessage`, by the low bits of a message id |
| `handled` | history: the last message and what it was taken for |
| `initialized`, `context`, `lists`, `window` | `initialized`, `g_gameContext`; `g_entityList` with `g_contextStore`; `g_gameHwnd` |
| `handling` | the render thread is in `Handle` |
| `events` | per type, how many events wait in the server |

`MainThread` is one action per statement that another thread can see: the two initialisations (each may fail, and
failure is passed over), a rule that matches, the end of the scan, each inline hook, the search for the window. The callbacks
(`OnDispatchNetMessage`, `OnCursorDoAction`, `Run`, `Frame`, `FrameWithoutCamera`) are enabled from the moment their function
is hooked, and run in between. A click whose dispatcher has no instance (`entry.cpp:1130-1132`) changes nothing and has no action. The rules may find any subset of the functions. A hook at a missing address, a scan without
rules and the pointer that `FindFunction` frees when Capstone is not open are undefined: the process goes down or
nothing happens (`yr_rules_scan_mem` with null rules goes down). Of the server the module keeps what the hooks can tell: the first frame runs `Run`,
a frame with a camera enters `Handle` (`Frame`), which has dropped one event of every type or, after an exception, none when it
returns (`HandleReturns`), and a callback that pushes waits as long as `handling` is true.

### `QNXTHook`

The state of both modules, with each action of one conjoined with what it is for the other: a frame with a camera is `EnterHandle`, a message that
`GameMessage` or `OpenDialog` handles is a `PushEvent`, the first frame is `Run`. What happens between is the server's alone (`HandleRest`, `Runtime`,
`InProcess` for a process that lives), and the hooks' variables are left as they are: that `Hooks` is right about it is a property
(`HooksHold`: `Hooks`' specification with `Locked` for `handling` and the lengths of the queues for `events`) and not part of the definition. Clients go on when
the process is gone. `arrived` is history: per type of event, how many messages and clicks reached the game whose own handler
pushes it, by the dispatcher that the message has in the game and not by what the cache said.

When the two were put together `Hooks` turned out to be wrong about the server: it counted events without their types and dropped one in a frame, where
`Handle` drops one of every type, and it served a frame in one step, in which no message could come between `Run` and `Handle`. Its `events`, `handling`,
`Run` and `HandleReturns` are the correction.

### `UnpackBits`

`shiftBy`, `i`, `bitOffset` and `unpacked` are the locals of `UnpackData`, `TakeByte` one round of its loop, `Return` the
statement behind it with C's precedence (the mask applies to the sum). `T` is cut to its width. `Init` covers the fields that lie
within the packet; the byte behind the packet has any value.

### `Packets`

`at` is the field a handler reads next, `offset` its cursor (cut to eight bits for `SetSlotItem`, whose `offset` is a `uint8_t`),
`fields` its locals, `event` what it pushes, `reach` the last byte it touched, which for a quantity is three bytes
behind the one it uses (`entry.cpp:152`). One action per field; an entry is two loads (`entry.cpp:174-179`), and the offset may start again
between them. The server's side, `SlotPacket`, `ChatPacket` and
`DialogPacket`, is the format that the handlers are written for; the properties say that a handler takes
apart what that format puts together. `MessagesAssumption` says which numbers fit that format: a slot has at most 15 bits, an item 16, a quantity 24,
a text has no 0.

### `GameTables`

A table is a bucket array with nodes linked by `next`. `FindChain` and `ChainStep` are `GetProperty`, `GetUIWidget` and
`GetUIWidgetParent`, which differ in offsets only; `FindRing` and `RingStep` are `GetInventoryByType`; `NextEntity` and
`EntryStep` are `GetServerEntities`. What the game guarantees of its tables is in `ChainedTable` and `RingTable`; the list of entity
ids may hold ids that the table lacks. A table of no buckets is divided by before anything else is looked at (`DivideByZero`): the searches that take
a remainder are gone then, array or not. What can be reached from a node (`From`) is the smallest set that holds it and the `next` of each of its
members; `GameScene` says in the same way which nodes are `Below` the root.

### `GameScene`

`calls` is the stack of the recursion of `GetStaticEntities_`: a node and how many of its children were visited. `VisitKid` is the
call for a child, `Leave` a return, `NullKid` the exception that `ReadPtrOffset` throws at the start of a call for a null
pointer; an exception loses the response. The loops go through a `list` by `place`; a null pointer in the list of entities
(`common.h:581`) is an entity of type `"Other"`. `control` is what `GetControlledPlayer` reads, between the two loops of `HandleFindEntities`. `AddEntity` has the five cases of
`HandleFindEntities`, `AddItem` the slots of `HandleGetInventory`. `NoLists` (one of the three lists
cannot be made), `NoMovement` (an NPC's `movement_ptr` is null, `Server.cpp:94`) and `NoItemDef` end a request without a response, by an exception or with the process.

### `GameActions`

| Variable | Code |
|---|---|
| `windowThread`, `hookThreads`, `nested` | which thread made the window, on which threads the game calls the hooks that push events, and whether it calls them from its window procedure or from an option's function: chosen once, for all possibilities |
| `window` | `g_gameHwnd` is set |
| `mutex` | `eventsMutex_` |
| `stack` | per thread, the calls under way: `Body`, `SendMessage`, `WindowProc`, `Option`, `PushEvent` |
| `key` | the game has seen Insert go down and not up |
| `request`, `todo` | the request whose body runs, and the statements of it that are left |
| `option`, `called`, `status` | the option that was found, the numbers that the game was called with, the answer |
| `alive` | the process |

A body is a sequence of statements (`Statements`, from the lambdas in `Run` and the functions they call): the two messages of `DoAntiAFK`,
the search for the option (`find`), the call into the game (`call`). Each statement has an action for each way it
can end: a search finds an option (`FindOption`), or finds none (`FindMissing`), meets a null pointer that is looked at (`FindThrows`) or
one that is not (`FindNull`). Null pointers that nobody looks at are everywhere: what the game's look-up of an item returns (`common.h:847`), `g_entityList`
(`common.h:575`), the inventory list (`common.h:699`), the pointers on the way to every option's function (`common.h:672`, `872`, `962`, `983`). So every `find` may
end in `FindNull` and every `call` in `CallDies`, and no property says which pointer it was. `SendMessage` to a window of the same thread calls the window procedure; to
another thread's it waits for that thread to come back to its message loop; with no window it fails at once and
the key goes nowhere. `LockAgain` is the second lock of one mutex by one thread, which is undefined.

`Handle` takes one result from `AsyncNext`, so between `EnterHandle` and `LeaveHandle` there is one `Begin` at most. `OptionId` is the number that the game gets:
a backpack item's moves by three behind the third, an NPC's goes through the `switch` of `InteractNPC` (`NPCOptionIds`) and is looked up in
`actionContexts`. As compiled that map is empty, since `FindActions` is not called, and each NPC option becomes 0 (`Unregistered`); `ActionContexts` is a constant, so that
the arithmetic is checked for the options that a filled map knows, and the run takes a map that knows some and lacks others.

The module does not claim that the game is harmless: `StuckExplained` says which games lock the render thread out, and
`HandleEnds` and `PushReturns` that in all others every body and every hook comes to its end. Nor does it claim that a body survives: `DeathBeforeAction` says that one that
dies has not acted yet, since everything it reads unguarded, and the messages of `DoAntiAFK` with the lock they may need, come before the call. A function of the
game that fails by itself is not modelled; one that calls hooks is, and is the exception that the property names.

### `WorldMessages` and `Wire`

The generated code has, for each class, six functions that each repeat the list of fields: accessors, `Clear`, `ByteSize`, the serializers, the
parser, `MergeFrom`. `WorldMessages` is a table per class and function, each taken from that function (`EntityReads` from
`Entity::MergePartialFromCodedStream`, and so on), and `Wire` is what the functions do with their tables: `SetField` a
setter, `PushEvent` the copy that goes into the queue, `Send` the bytes, and the parser field by field with a stack of the messages it
is inside. Varints, tags, lengths and limits are as on the wire; the receiver's object is reused for the next message of a
stream, so that `Clear` matters; a peer with newer classes may add a field. `Clear` of the classes with `ZR_` is computed
from the order of the members, as `memset` does it.

## Runs

| Run | Shows | Bounds |
|---|---|---|
| `streams` | single ownership, one listener, no dangling tag, what orphans there are, `waitingStreams_` exact, events in order, `EventFeed` implemented (none is missed by a waiting stream) | 1 stream type with 2 subscribers, 1 throwing unary call, 3 events, 5 addresses |
| `server_liveness` | waiting streams served, dead streams deleted, answered handlers freed, with a method beside that throws and cuts frames short | 1 subscriber, 1 call of a method that may throw, 1 event, 4 addresses |
| `freed_state_read` | **violated**: only streams wait (`Server.cpp:509` reads freed memory) | `FreedReads` with both values |
| `throw_never_finishes` | **violated**: a handler given a call reaches `FINISH` | 1 call of a throwing method, 1 of another |
| `cancelled_never_freed` | **violated**: a handler in `FINISH` is freed | 2 calls, either may be cancelled |
| `hooks` | messages go to their own handlers, crashes have the known causes, requests see one frame's context, the server starts | 5 functions, 3 messages (one unknown), 2 contexts, 1 event |
| `api_never_served` | **violated**: the server starts (`entry.cpp:1172` is commented out) | as `hooks`, `RenderHook = FALSE` |
| `system` | what reaches the game is pushed, once; `Hooks` is implemented; calls are answered from the injection on; every event leaves its queue; types | 4 functions, every subset found; the unary methods only, as compiled: 1 call, 2 addresses, 2 messages, 2 events per type |
| `packets` | the bits read are the field's, its front is in place after each byte, one byte at most is read behind the packet; the byte handlers get every field, end an update at its length modulo 256 and stay near the packet | 10 sizes from 1 to 30 bits, every start, 11 packets, 3 widths; 336 shapes of slot updates up to 373 bytes, 12 game messages, 2 dialogs; two values of the bytes behind the packet |
| `tables` | searches find what is there and nothing else, and end; the tree's walk collects what is reachable; responses are complete | every table of 3 nodes and 0, 1 or 2 buckets, lists of up to 2 ids, every tree of 3 nodes with up to 2 children each (null ones too), every list of up to 2 entities, inventories of up to 4 slots |
| `actions` | only known games lock the render thread out, and in the others every body and hook ends; no key stays down; the answer tells whether the game acted; the option is the right one; a body that dies has not acted | 2 threads, 2 requests out of 15, 5 definitions, entries in `actionContexts` for three of an NPC's six options |
| `wire` | messages arrive as they were filled in; a text that is not UTF-8 loses its message and nothing else does | all 18 classes, 2 setter calls shared by two messages, values 0 and 300, -1, 0 and 200, three texts, two kinds of unknown field |

Why the bounds are enough: addresses number methods plus calls, so `new` never fails and freed addresses
are reused; two subscribers are what it takes to have a busy handler beside its successor, and one entry of `waitingStreams_` erased before
another is visited; three events let one be dropped, one written and one pushed meanwhile. The theorems below do not depend on any of this.
In `Hooks`
five functions are one of each kind: hooked unconditionally, hooked if found (two), a message handler that pushes and one that does
not. In `server_liveness` the subscriber and the call share the queue, so that an exception
cuts the frame short in which an event was to be dropped. In `QNXTHook` the second event of a type is the one that a frame must leave; the two messages are one that pushes and one that the rules do not know. In `GameTables` three nodes give a chain with a first, an inner and a last node, a ring that is entered behind the
node looked for, and a bucket whose nodes all differ from the id. In `Packets` the slots and types are those on either side of
the step from one byte to two, the quantities on either side of the step from one to five, and 41 to 43 entries are those around the length at
which eight bits start again. In `GameActions` two threads are the render thread and the one that is not, and the second request is
the one that meets what the first left behind. In `Wire` two setter calls
are two values in one message (a case of a oneof overwritten, a list of two, a field beside a sub-message) or one in each of two
(what `Clear` leaves behind); with three calls the run passes as well, over two million states. Values take one, two and ten bytes on the wire.

`CHECK_DEADLOCK` is on in the runs of `RPCServer`, where frames go on for ever, and of `Wire`, where messages do, and off elsewhere:
`MainThread`, the packet handlers, the searches and the requests of `GameActions` come to their end, and a process that crashed does nothing more.

**Fairness** (`FairSpec`). The game renders frames for as long as it runs, so `Run` and the steps of
`Handle` are weakly fair. Polling takes one of several events, so no particular one is continuously
enabled: each `Dispatch(a)` is strongly fair, which says that the completion queue passes over no event for
ever. gRPC finishes what it was given (weak fairness of `CompleteOp`) and passes over no queued call for ever
(strong fairness, since the listener comes and goes). Clients and hooks owe nothing.
In `Hooks`, `MainThread` is a thread of the process and the game draws frames, with or without a camera, so that the first one
comes (weak fairness of `MainThread` and `Run`); messages and clicks owe nothing. In `QNXTHook` the fairness is that of both modules, and the frames with a camera
do not end for ever (weak fairness of `Frame`), which is to say that the player is in the game: without a camera nothing is served. In `GameScene` the searching thread runs. In `GameActions` a body goes on when it can and a function
of the game returns (weak fairness of `RunBody` and `Return`); a thread that waits for the mutex gets it if it is free again and
again, and the window's thread comes back to its message loop again and again (strong fairness of `PushEvent` and `WindowProc`, since both are
interrupted). Frames, requests and hooks owe nothing. `MaxRequests` bounds the requests of a run, not of a `Handle`, which serves one.

`EventsPass` (in `system`) assumes that again and again a frame ends by removing events: a premise of the property, not of the specification. It says that the n-th event of a type is
gone in the end, whoever listens; the run has types without a stream and two events of each. It does not say that the queue stays short: a frame pops one event of a type and none when a
body throws, so with more than one push per frame, or with exceptions in most frames, `events_` grows without bound.

## Proofs

`RPCServerProofs` proves, for every set of methods, calls, addresses and every bound on events:

* `TypeCorrect`: `Spec => []TypeOK`;
* `SingleOwnerCorrect`, `NoDanglingTagCorrect`, `WaitingStreamsCorrect`, `OrphansCorrect`: the invariants of the
  same names, under the assumption `FreedReads \subseteq {"COMPLETED"}` that the run `freed_state_read`
  shows to be needed.

None of them is inductive. `OwnerInv` is: it says of each address which of five places it is in
(free, with gRPC, in the completion queue, waiting, leaked), that it is in one only, and which method, status, state
and call fit the place. The place decides what each step may do: `ServeUnary` takes a handler from the queue and
gives it to gRPC, `OpenStream` moves a stream to gRPC or to the waiting ones, and so on; the four
properties are read off the places.

`RPCServerOrderProofs` adds, under the same assumption:

* `OneListenerCorrect`. `ListenInv` says that for each method there is one address that `ListensFor` it: armed, or given a call it
  has not begun. A listener moves only in the three actions that spawn a handler (`ServeUnary`, `ThrowUnary`, `OpenStream`); the exception
  comes after the spawning, which is why a method stays callable.
* `InOrderCorrect` and `NoMissedEventCorrect`. `EventInv` has four parts: no two handlers hold the same call (`CallsDistinct`); the queue
  of a type is the tail of the numbers 1 to `pushed` (`EventsNumbered`); what a call was written last is at most one
  ahead of what is gone, ahead only from the write to the end of that frame, and not ahead for a stream that waits (`LastWritten`); the handlers that the loop has
  passed wait because their queue was empty (`PassedHadNone`). Steps are of five kinds (`StepKinds`): those that
  touch no queue, list or `last` (`QuietStep`), a push, the removal at the end of a frame, and the two ways to proceed a stream.
* `FeedImplemented`: `Spec => ImplementsFeed`, for every instance. The initial state maps to the
  initial state; of the five kinds of steps a quiet one maps to a stutter, `PushEvent` to `Publish`, a proceeded stream to `Deliver`, `Wait` or
  a stutter (a waiting stream visited in vain), and `RemoveEvents` to `DropFronts`, whose guard is what `PassedHadNone` says when
  the loop has ended.

`HooksProofs` proves, for any set of functions, rules, messages and contexts: `TypeCorrect`, `DispatchCorrect`, `CrashCorrect` and
`ServedCorrect`, for the invariants `TypeOK`, `DispatchedByOwn`, `CrashExplained` and `ServedInOneFrame`. They assume
`KeysDistinct`: no two message ids agree in the bits that `idMapping` keeps. The induction is on `HookInv`: as long
as `MainThread` initialises and scans there is no hook and the cache is empty (`NoEarlyHook`); afterwards all rules
have matched (`RulesLoaded`) and nothing a look-up reads changes any more, so that each entry of the cache is what a
look-up would answer now (`CacheRight`).

`QNXTHookProofs` proves of the composition, for any server and any game:

* `ServerImplemented` (`SystemSpec => Spec`): each step is a step of `RPCServer` or leaves it alone, so that everything proved of the server holds in the process.
* `HooksImplemented` (`SystemSpec => HooksHold`): of the steps of `Handle` all but two leave `Locked` and the lengths alone; the end of `Handle` and an
  exception are `HandleReturns` (`HandleSteps`, which needs the types of the queues).
* `SystemTypeCorrect`: with `QueueBound` (no more events wait than were pushed) and `HookTypes`.
* `EventsArriveCorrect`, assuming `KeysDistinct`: with `CacheInv`, what the cache answers is the message's own dispatcher, so the event that the callback
  pushes is the one that arrived; `PushedOnce` says that the server's `PushEvent` and the one of `Hooks` are about the same type.
* `ToldCorrect`, assuming `KeysDistinct` and `FreedReads \subseteq {"COMPLETED"}`: `EventFeed` with `arrived` for what was published, from
  `FeedImplemented` and `EventsArriveCorrect`.
* `ServedCorrect`: a frame sets `context` and `lists` and enters `Handle`, and none begins before it has left.

The parts of `CacheInv` and `HookTypes` are those of `HooksProofs` again, because the prover does not instantiate theorems: a theorem of `HooksProofs` cannot be
cited for the `Hooks` inside `QNXTHook`.

`GameActionsProofs` proves the six invariants of the run `actions` for any threads, requests and definitions and every game that `Init` allows:
`TypeCorrect`, `StuckExplainedCorrect`, `KeyReleasedCorrect`, `AnswerTellsActionCorrect`, `RightOptionCorrect` and `DeathBeforeActionCorrect`.
They assume that `None` is none of the names used, and that a request to interact names one of the three kinds of targets (`NoneAssumption`,
`RequestsAssumption`). `ActInv` lists what a stack may hold (`BodyShapes` for the render thread, exactly while it has the mutex; `IdleShapes`;
`ProcShapes` for the window's thread, only while the render thread waits in `SendMessage`) and the thirteen ends that a body can have left (`Rests`).
The rest hangs on these two: a key that is down is followed by its `WM_KEYUP` (`KeyOK`), a call into the game is left exactly while the request acts
and has not been answered (`TodoOK`), and the option found is one of `options()` with the text asked for (`OptionOK`), from which the number's
arithmetic follows. For `DeathBeforeAction` there is `BodyOK`: the window procedure runs on the render thread only while
the body has not ended, and a body with statements left has called nothing (`TodoOK`).

`PacketsProofs` proves the six invariants of the run `packets`, for packets, fields and messages of any length and content (`PacketsAssumption`,
`SizesAssumption`, `PacketsConstants`, `MessagesAssumption`):

* `ReadsWithinCorrect`. `BitsInv` counts in bits: what was
  passed and what is still to be read add up to the end of the field (`Placed`), which is within the packet.
* `AccumulatedCorrect` and `UnpackedCorrect`. `ValuesInv` adds that a byte is read from its first bit on, unless it is the field's first; so a
  round appends the next bits to the front of the field (`FieldSplit`), and the last one leaves less than a byte. At `Return` C masks the
  sum and not the byte; what the mask takes away are the bits before a field that lies in one byte (`ReturnValues`).
* `FieldsRightCorrect`, `ConsumedExactlyCorrect` (modulo 256: a longer update wraps the offset, which this does not show), `StaysNearPacketCorrect`. `ReadInv` says of each handler what its packet looks like, in terms of what was
  sent and the number of bytes that its smart numbers take (`SlotOf`, `ChatOf`), and where the offset, the reach and the fields are at each step (`SlotAt`, `ChatAt`).
  In the loop over the entries the eight bits of the offset no longer tell the place: the invariant counts from the end, as the packet's length less six for each
  entry that is left, cut to eight bits, and the bound on reach comes from that number without the cut. For the content, `ContentRead` shows that the first 0 is the one behind
  it, and for the tile the two halves of the 30 bits are the fields of 14 (`TileSplit`).

`GameTablesProofs` proves `LookupRightCorrect` and `EntitiesRightCorrect` for tables of any size and lists of any length. `TableInv` looks forward along a chain: every node
of the id that is looked for is in the rest of the chain (`ChainRest`). In a ring it looks back, since the rest is the whole ring: the nodes behind
lead from the first node to the current one and have other ids (`RingBehind`); they are closed under `next` when the walk is back at the start, so they are all there are.
The list of entities is counted by rank (`EntitiesCollected`). The proof did not go through for a ring of one node whose `next` is null, which an earlier `RingTable` admitted and the
code would have read through: `RingTable` now says that no node of a ring has a null `next`.

`GameSceneProofs` proves the invariants of the run `tables` in the specification that composes both modules, for trees of any shape, lists and inventories of any length:

* `SearchesCorrect`: `LookupRight` and `EntitiesRight`, since the other steps leave the tables alone.
* `StaticRightCorrect`. `WalkInv` keeps a set of nodes that were walked in full: all their children are walked in full or are under way on the stack (`Walked`). When the stack is empty that set, with the
  root, is closed, so it is `Below`; and what was found is never of another node.
* `ResponseRightCorrect`. The searches for definitions have passed no match (`DefinitionInv`); an inventory's answers are exactly the non-empty slots before the position (`InventoryInv`), with
  ascending numbers (`AscendingInv`); and for each type and id the number of answers is what the entities before the position owe (`EntriesInv`). The last one found that two cases of
  the earlier `Due` overlapped.

Three theorems go further than the runs: `NoMissedEventCorrect`, of which `streams` checks what it comes to in `EventFeed`; and
`ToldCorrect` and `QNXTHookProofs!ServedCorrect`, where the run of the composition has no subscriber and `hooks` checks the frame by itself.

Every safety invariant of a passing run has a theorem, except the two of `Wire`, `Delivered` and `RejectedForText`: messages are inside messages, sizes and
bytes are computed by recursive operators, and what they compute for every message is an induction over data. They
stay with TLC, and so do the liveness properties (`AnsweredFreed`, `EventsPass`, `DeadStreamFreed`, `WaitingServed`, `ServerStarts`, `CallsAnswered`,
`SearchEnds`, `HandleEnds`, `PushReturns`): the prover has no rule for fairness.

## Not modelled

* **Code that does nothing.** `HandleUpdateObject`, `HandleSetGameData` and others of `entry.cpp:228-712` return at once, before what
  is left of them, or print what they read; `FindMessages` and `FindActions` are never called. `UnitTests_Unpack` checks `UnpackData`
  and only prints; its packet is one of those of `MCPackets`.
* **Layouts.** At which offset of a structure of the game a field is, and how the data block of an action is laid out: constants
  that only the game's memory could confirm.
* **Values copied into responses** field by field (a player's health, a widget's name). `ResponseRight` is about which entries a response has.
* **Drawing.** `OnRender`, `Matrix.h`, `player.h`: arithmetic on floats, no state.
* **Generated code around the messages.** Descriptors and reflection, arenas, `Swap`, `release_*` and `set_allocated_*`, which the program
  does not use, and `world.grpc.pb.*`, whose calls into the gRPC runtime are the external actions of `RPCServer`. Deprecated
  group encodings and tags above 127 do not occur between peers of this interface.
* **What the gRPC runtime does before it serves.** `BuildAndStart` may fail and its result is not looked at (`Server.cpp:303`).
* **GSL, YARA rules, build scripts**: third-party code, data and commands.

## Plan

Done: `RPCServer`, its runs and `OwnerInv`; `Hooks` and its proofs; `RPCServerOrderProofs`; `EventFeed` and the proof that `RPCServer`
implements it; `UnpackBits` and `Packets` and their proofs; `GameTables` and `GameScene` and their proofs; `GameActions` and its proofs; `WorldMessages` and `Wire`;
`QNXTHook` and the proof that it implements both of its parts.

Next: the bodies of `GameActions` inside the server's `ServeUnary` and `ThrowUnary`.
