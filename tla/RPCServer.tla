----------------------------- MODULE RPCServer -----------------------------
(***************************************************************************)
(* The asynchronous gRPC server of QNXTHook: the request handlers of       *)
(* datacall.h, the server loop and the event queues of Server.h and        *)
(* Server.cpp.                                                             *)
(*                                                                         *)
(* Three parties act.  The game's render thread calls Handle once per      *)
(* frame; Handle holds eventsMutex_ throughout, takes at most one event    *)
(* from the completion queue, then visits the waiting streams, then drops  *)
(* one event of every queue.  The game's hooks call PushEvent, which needs *)
(* the same mutex.  The gRPC runtime matches client calls with armed       *)
(* handlers and reports finished operations; it takes no lock of ours.     *)
(*                                                                         *)
(* A handler is a heap object whose address is the tag of its operations,  *)
(* so the model keeps a heap, [Addr -> handler], and frees and reuses      *)
(* addresses as the code does.                                             *)
(***************************************************************************)
EXTENDS Naturals, FiniteSets, SequencesExt

CONSTANTS
  Unary,        \* the unary methods that Run registers
  EventTypes,   \* the message types that the hooks push
  Streams,      \* the types Run registers a stream for (a stream method is named by its type)
  Throwing,     \* the unary methods whose handler may throw InvalidPointerException
  Addr,         \* addresses of handlers; a bound, large enough that new succeeds
  Calls,        \* the calls that clients make; a bound
  MethodOf,     \* the method each call is for
  MaxEvents,    \* events pushed per type; a bound
  FreedReads,   \* what reading state_ of a freed handler can return
  None

Methods == Unary \cup Streams

ASSUME MethodsAssumption ==
  /\ Unary \cap EventTypes = {}
  /\ Streams \subseteq EventTypes
  /\ Throwing \subseteq Unary
ASSUME CallsAssumption == MethodOf \in [Calls -> Methods] /\ None \notin Calls \cup Methods
ASSUME BoundsAssumption ==
  MaxEvents \in Nat /\ FreedReads \subseteq {"WAITING", "COMPLETED"}

VARIABLES
  initialized,     \* Run has registered the first handlers (entry.cpp, initialized)
  pc,              \* where the render thread is in Handle
  it,              \* Handle's position in waitingStreams
  handler,         \* the heap of request handlers
  ops,             \* per handler, its operations the gRPC runtime still works on
  cq,              \* the completion queue
  waitingStreams,  \* waitingStreams_
  events,          \* events_; an event is numbered by its place among those of its type
  pushed,          \* per type, how many events were pushed
  rpc,             \* per call, its state as the gRPC runtime sees it
  last             \* per call, the number of the last event written to it

vars == <<initialized, pc, it, handler, ops, cq, waitingStreams, events, pushed, rpc, last>>
serverVars == <<initialized, pc, it, waitingStreams>>
feedVars == <<events, pushed>>

CallStatus == {"CREATE", "BUSY", "PROCESS", "FINISH"}
CompletionState == {"WAITING", "COMPLETED"}
Handler == [method : Methods \cup {None},
            status : CallStatus \cup {"FREED"},
            state  : CompletionState,
            call   : Calls \cup {None}]

Freed == [method |-> None, status |-> "FREED", state |-> "COMPLETED", call |-> None]

(* What the constructor leaves: Proceed has left CREATE and armed the      *)
(* handler's accept.                                                       *)
NewHandler(m) ==
  [method |-> m,
   status |-> IF m \in Streams THEN "BUSY" ELSE "PROCESS",
   state  |-> "COMPLETED",
   call   |-> None]

IsFree(a) == handler[a].status = "FREED"
IsStreamingRequest(a) == handler[a].method \in Streams
Locked == pc # "outside"
Completed == {e.tag : e \in cq}
Waiting == ToSet(waitingStreams)

Init ==
  /\ initialized = FALSE
  /\ pc = "outside"
  /\ it = 1
  /\ handler = [a \in Addr |-> Freed]
  /\ ops = [a \in Addr |-> <<>>]
  /\ cq = {}
  /\ waitingStreams = <<>>
  /\ events = [t \in EventTypes |-> <<>>]
  /\ pushed = [t \in EventTypes |-> 0]
  /\ rpc = [c \in Calls |-> "idle"]
  /\ last = [c \in Calls |-> 0]

-----------------------------------------------------------------------------
(* The hooks of the game.                                                  *)

(* The first frame registers one handler per method.                       *)
Run ==
  /\ ~initialized
  /\ initialized' = TRUE
  /\ \E place \in [Methods -> Addr] :
       /\ IsInjective(place)
       /\ handler' = [a \in Addr |-> IF \E m \in Methods : place[m] = a
                                     THEN NewHandler(CHOOSE m \in Methods : place[m] = a)
                                     ELSE Freed]
       /\ ops' = [a \in Addr |-> IF \E m \in Methods : place[m] = a THEN <<"accept">> ELSE <<>>]
  /\ UNCHANGED <<pc, it, cq, waitingStreams, events, pushed, rpc, last>>

PushEvent(t) ==
  /\ ~Locked
  /\ pushed[t] < MaxEvents
  /\ pushed' = [pushed EXCEPT ![t] = @ + 1]
  /\ events' = [events EXCEPT ![t] = Append(@, pushed'[t])]
  /\ UNCHANGED <<serverVars, handler, ops, cq, rpc, last>>

-----------------------------------------------------------------------------
(* Handle, from lock_guard to the end of its scope.                        *)

EnterHandle ==
  /\ initialized
  /\ pc = "outside"
  /\ pc' = "polling"
  /\ UNCHANGED <<initialized, it, handler, ops, cq, waitingStreams, feedVars, rpc, last>>

(* The deadline passes with nothing in the queue.                          *)
AsyncNextTimeout ==
  /\ pc = "polling"
  /\ cq = {}
  /\ pc' = "streams"
  /\ UNCHANGED <<initialized, it, handler, ops, cq, waitingStreams, feedVars, rpc, last>>

AsyncNext(a, ok) ==
  /\ pc = "polling"
  /\ [tag |-> a, ok |-> ok] \in cq
  /\ cq' = cq \ {[tag |-> a, ok |-> ok]}

(* What the handler of a stream does: write the front event, or wait.      *)
HasEvent(a) == events[handler[a].method] # <<>>
StreamState(a) == IF HasEvent(a) THEN "COMPLETED" ELSE "WAITING"
StreamOps(a) == IF HasEvent(a) THEN [ops EXCEPT ![a] = Append(@, "write")] ELSE ops
StreamLast(a) ==
  IF HasEvent(a) THEN [last EXCEPT ![handler[a].call] = Head(events[handler[a].method])] ELSE last

-----------------------------------------------------------------------------
(* Slips that would be easy to make in Handle and Proceed.  They are no    *)
(* part of the specification: a property that holds of the actions below   *)
(* fails when the action is replaced by its slip.                          *)

(* The answer is set, but Finish is never started.                         *)
ServeUnaryUnfinished(a, n) ==
  /\ AsyncNext(a, "ok") /\ handler[a].method \in Unary /\ handler[a].status = "PROCESS" /\ IsFree(n)
  /\ handler' = [handler EXCEPT ![a].status = "FINISH", ![n] = NewHandler(handler[a].method)]
  /\ ops' = [ops EXCEPT ![n] = Append(@, "accept")]
  /\ pc' = "streams"
  /\ UNCHANGED <<initialized, it, waitingStreams, feedVars, rpc, last>>

(* delete this right after Finish is started.                              *)
ServeUnaryDeletesEarly(a, n) ==
  /\ AsyncNext(a, "ok") /\ handler[a].method \in Unary /\ handler[a].status = "PROCESS" /\ IsFree(n)
  /\ handler' = [handler EXCEPT ![a] = Freed, ![n] = NewHandler(handler[a].method)]
  /\ ops' = [ops EXCEPT ![a] = Append(@, "finish"), ![n] = Append(@, "accept")]
  /\ pc' = "streams"
  /\ UNCHANGED <<initialized, it, waitingStreams, feedVars, rpc, last>>

(* The next listener is spawned only after the handler has run.            *)
ThrowUnaryBeforeSpawn(a, n) ==
  /\ AsyncNext(a, "ok") /\ handler[a].method \in Throwing /\ handler[a].status = "PROCESS" /\ IsFree(n)
  /\ pc' = "outside"
  /\ UNCHANGED <<initialized, it, handler, ops, waitingStreams, feedVars, rpc, last>>

(* The events are removed by a guard, which an exception runs as well.     *)
ThrowUnaryRemoves(a, n) ==
  /\ AsyncNext(a, "ok") /\ handler[a].method \in Throwing /\ handler[a].status = "PROCESS" /\ IsFree(n)
  /\ handler' = [handler EXCEPT ![n] = NewHandler(handler[a].method)]
  /\ ops' = [ops EXCEPT ![n] = Append(@, "accept")]
  /\ events' = [t \in EventTypes |-> IF events[t] = <<>> THEN <<>> ELSE Tail(events[t])]
  /\ pc' = "outside"
  /\ UNCHANGED <<initialized, it, waitingStreams, pushed, rpc, last>>

(* No delete this in FINISH.                                               *)
FreeUnaryKeeps(a) ==
  /\ AsyncNext(a, "ok") /\ handler[a].method \in Unary /\ handler[a].status = "FINISH"
  /\ pc' = "streams"
  /\ UNCHANGED <<initialized, it, handler, ops, waitingStreams, feedVars, rpc, last>>

(* A stream that runs dry is not put back into waitingStreams_.            *)
ContinueStreamForgets(a) ==
  /\ AsyncNext(a, "ok") /\ IsStreamingRequest(a) /\ handler[a].status = "PROCESS"
  /\ handler' = [handler EXCEPT ![a].state = StreamState(a)]
  /\ ops' = StreamOps(a)
  /\ last' = StreamLast(a)
  /\ pc' = "streams"
  /\ UNCHANGED <<initialized, it, waitingStreams, feedVars, rpc>>

(* A failed operation is ignored, for streams too.                         *)
HandleFailureKeeps(a) ==
  /\ AsyncNext(a, "failed")
  /\ pc' = "streams"
  /\ UNCHANGED <<initialized, it, handler, ops, waitingStreams, feedVars, rpc, last>>

(* The loop steps over the successor of the entry it erases ...            *)
VisitStreamSkipsNext(a) ==
  /\ pc = "streams" /\ it <= Len(waitingStreams) /\ waitingStreams[it] = a
  /\ IsStreamingRequest(a) /\ handler[a].status = "PROCESS"
  /\ handler' = [handler EXCEPT ![a].state = StreamState(a)]
  /\ ops' = StreamOps(a)
  /\ last' = StreamLast(a)
  /\ waitingStreams' = IF HasEvent(a) THEN RemoveAt(waitingStreams, it) ELSE waitingStreams
  /\ it' = it + 1
  /\ UNCHANGED <<initialized, pc, cq, feedVars, rpc>>

(* ... or erases nothing.                                                  *)
VisitStreamKeepsEntry(a) ==
  /\ pc = "streams" /\ it <= Len(waitingStreams) /\ waitingStreams[it] = a
  /\ IsStreamingRequest(a) /\ handler[a].status = "PROCESS"
  /\ handler' = [handler EXCEPT ![a].state = StreamState(a)]
  /\ ops' = StreamOps(a)
  /\ last' = StreamLast(a)
  /\ it' = it + 1
  /\ UNCHANGED <<initialized, pc, cq, waitingStreams, feedVars, rpc>>

(* The events are left where they are ...                                  *)
RemoveEventsKeeps ==
  /\ pc = "streams" /\ it > Len(waitingStreams)
  /\ it' = 1
  /\ pc' = "outside"
  /\ UNCHANGED <<initialized, handler, ops, cq, waitingStreams, feedVars, rpc, last>>

(* ... or those that no stream reads are ...                               *)
RemoveEventsRead ==
  /\ pc = "streams" /\ it > Len(waitingStreams)
  /\ events' = [t \in EventTypes |-> IF t \notin Streams \/ events[t] = <<>> THEN events[t] ELSE Tail(events[t])]
  /\ it' = 1
  /\ pc' = "outside"
  /\ UNCHANGED <<initialized, handler, ops, cq, waitingStreams, pushed, rpc, last>>

(* ... or all go ...                                                       *)
RemoveEventsClears ==
  /\ pc = "streams" /\ it > Len(waitingStreams)
  /\ events' = [t \in EventTypes |-> <<>>]
  /\ it' = 1
  /\ pc' = "outside"
  /\ UNCHANGED <<initialized, handler, ops, cq, waitingStreams, pushed, rpc, last>>

(* ... or starts one position early.                                       *)
RemoveEventsEarlyStart ==
  /\ pc = "streams" /\ it > Len(waitingStreams)
  /\ events' = [t \in EventTypes |-> IF events[t] = <<>> THEN <<>> ELSE Tail(events[t])]
  /\ it' = 0
  /\ pc' = "outside"
  /\ UNCHANGED <<initialized, handler, ops, cq, waitingStreams, pushed, rpc, last>>

-----------------------------------------------------------------------------
(* The steps of Handle.                                                    *)

(* RequestHandler::Proceed in PROCESS: spawn the next listener at n, run   *)
(* the handler, start Finish.                                              *)
ServeUnary(a, n) ==
  /\ AsyncNext(a, "ok")
  /\ handler[a].method \in Unary
  /\ handler[a].status = "PROCESS"
  /\ IsFree(n)
  /\ handler' = [handler EXCEPT ![a].status = "FINISH", ![n] = NewHandler(handler[a].method)]
  /\ ops' = [ops EXCEPT ![a] = Append(@, "finish"), ![n] = Append(@, "accept")]
  /\ pc' = "streams"
  /\ UNCHANGED <<initialized, it, waitingStreams, feedVars, rpc, last>>

(* The same, when the handler throws: the exception leaves Handle, which   *)
(* unlocks the mutex and skips the rest of the frame.  No Finish, and the  *)
(* status stays PROCESS.                                                   *)
ThrowUnary(a, n) ==
  /\ AsyncNext(a, "ok")
  /\ handler[a].method \in Throwing
  /\ handler[a].status = "PROCESS"
  /\ IsFree(n)
  /\ handler' = [handler EXCEPT ![n] = NewHandler(handler[a].method)]
  /\ ops' = [ops EXCEPT ![n] = Append(@, "accept")]
  /\ pc' = "outside"
  /\ UNCHANGED <<initialized, it, waitingStreams, feedVars, rpc, last>>

(* Proceed in FINISH deletes the handler; Handle then reads its state_.    *)
FreeUnary(a) ==
  /\ AsyncNext(a, "ok")
  /\ handler[a].method \in Unary
  /\ handler[a].status = "FINISH"
  /\ handler' = [handler EXCEPT ![a] = Freed]
  /\ \E read \in FreedReads :
       waitingStreams' = IF read = "WAITING" THEN Append(waitingStreams, a) ELSE waitingStreams
  /\ pc' = "streams"
  /\ UNCHANGED <<initialized, it, ops, feedVars, rpc, last>>

(* StreamRequestHandler::Proceed in BUSY.                                  *)
OpenStream(a, n) ==
  /\ AsyncNext(a, "ok")
  /\ IsStreamingRequest(a)
  /\ handler[a].status = "BUSY"
  /\ IsFree(n)
  /\ handler' = [handler EXCEPT ![a].status = "PROCESS", ![a].state = StreamState(a),
                                ![n] = NewHandler(handler[a].method)]
  /\ ops' = [StreamOps(a) EXCEPT ![n] = Append(@, "accept")]
  /\ last' = StreamLast(a)
  /\ waitingStreams' = IF HasEvent(a) THEN waitingStreams ELSE Append(waitingStreams, a)
  /\ pc' = "streams"
  /\ UNCHANGED <<initialized, it, feedVars, rpc>>

(* StreamRequestHandler::Proceed in PROCESS, after a write went out.       *)
ContinueStream(a) ==
  /\ AsyncNext(a, "ok")
  /\ IsStreamingRequest(a)
  /\ handler[a].status = "PROCESS"
  /\ handler' = [handler EXCEPT ![a].state = StreamState(a)]
  /\ ops' = StreamOps(a)
  /\ last' = StreamLast(a)
  /\ waitingStreams' = IF HasEvent(a) THEN waitingStreams ELSE Append(waitingStreams, a)
  /\ pc' = "streams"
  /\ UNCHANGED <<initialized, it, feedVars, rpc>>

(* ok is false: a stream is deleted, a unary handler is left as it is.     *)
HandleFailure(a) ==
  /\ AsyncNext(a, "failed")
  /\ handler' = IF IsStreamingRequest(a) THEN [handler EXCEPT ![a] = Freed] ELSE handler
  /\ pc' = "streams"
  /\ UNCHANGED <<initialized, it, ops, waitingStreams, feedVars, rpc, last>>

(* One round of the loop over the waiting streams: Proceed, then erase the *)
(* entry (its successor moves to position it) or step over it.             *)
VisitStream(a) ==
  /\ pc = "streams"
  /\ it <= Len(waitingStreams)
  /\ waitingStreams[it] = a
  /\ IsStreamingRequest(a)
  /\ handler[a].status = "PROCESS"
  /\ handler' = [handler EXCEPT ![a].state = StreamState(a)]
  /\ ops' = StreamOps(a)
  /\ last' = StreamLast(a)
  /\ IF HasEvent(a)
     THEN waitingStreams' = RemoveAt(waitingStreams, it) /\ it' = it
     ELSE waitingStreams' = waitingStreams /\ it' = it + 1
  /\ UNCHANGED <<initialized, pc, cq, feedVars, rpc>>

(* The end of Handle: drop the front of every queue, unlock.               *)
RemoveEvents ==
  /\ pc = "streams"
  /\ it > Len(waitingStreams)
  /\ events' = [t \in EventTypes |-> IF events[t] = <<>> THEN <<>> ELSE Tail(events[t])]
  /\ it' = 1
  /\ pc' = "outside"
  /\ UNCHANGED <<initialized, handler, ops, cq, waitingStreams, pushed, rpc, last>>

-----------------------------------------------------------------------------
(* The clients and the gRPC runtime, outside this repository.              *)

ClientCall(c) ==
  /\ rpc[c] = "idle"
  /\ rpc' = [rpc EXCEPT ![c] = "queued"]
  /\ UNCHANGED <<serverVars, handler, ops, cq, feedVars, last>>

(* The client cancels or its connection drops.                             *)
ClientCancel(c) ==
  /\ rpc[c] \in {"queued", "open"}
  /\ rpc' = [rpc EXCEPT ![c] = "dead"]
  /\ UNCHANGED <<serverVars, handler, ops, cq, feedVars, last>>

(* The runtime matches a call with a handler armed for its method.         *)
AcceptCall(a, c) ==
  /\ rpc[c] = "queued"
  /\ handler[a].method = MethodOf[c]
  /\ \E i \in DOMAIN ops[a] : ops[a][i] = "accept" /\ ops' = [ops EXCEPT ![a] = RemoveAt(@, i)]
  /\ handler' = [handler EXCEPT ![a].call = c]
  /\ cq' = cq \cup {[tag |-> a, ok |-> "ok"]}
  /\ rpc' = [rpc EXCEPT ![c] = "open"]
  /\ UNCHANGED <<serverVars, feedVars, last>>

(* A write or a finish is done; ok says whether it went out to the client. *)
CompleteOp(a) ==
  \E i \in DOMAIN ops[a] :
    LET c == handler[a].call
        sent == rpc[c] # "dead"
    IN  /\ ops[a][i] # "accept"
        /\ ops' = [ops EXCEPT ![a] = RemoveAt(@, i)]
        /\ cq' = cq \cup {[tag |-> a, ok |-> IF sent THEN "ok" ELSE "failed"]}
        /\ rpc' = IF ops[a][i] = "finish" /\ sent THEN [rpc EXCEPT ![c] = "answered"] ELSE rpc
        /\ UNCHANGED <<serverVars, handler, feedVars, last>>

-----------------------------------------------------------------------------
(* Handle's treatment of the completion queue event for handler a.         *)
Dispatch(a) ==
  \/ \E n \in Addr : ServeUnary(a, n) \/ ThrowUnary(a, n) \/ OpenStream(a, n)
  \/ FreeUnary(a)
  \/ ContinueStream(a)
  \/ HandleFailure(a)

HandleStep ==
  \/ EnterHandle
  \/ AsyncNextTimeout
  \/ \E a \in Addr : Dispatch(a) \/ VisitStream(a)
  \/ RemoveEvents

Runtime ==
  \/ \E a \in Addr, c \in Calls : AcceptCall(a, c)
  \/ \E a \in Addr : CompleteOp(a)

Next ==
  \/ Run
  \/ \E t \in EventTypes : PushEvent(t)
  \/ HandleStep
  \/ \E c \in Calls : ClientCall(c) \/ ClientCancel(c)
  \/ Runtime

Spec == Init /\ [][Next]_vars

(* The game renders frames for as long as it runs, so Run and Handle are   *)
(* called again and again; the completion queue passes over no event for   *)
(* ever, the runtime over no queued call and no operation it was given.    *)
(* Clients and hooks owe nothing.                                          *)
Fairness ==
  /\ WF_vars(Run)
  /\ WF_vars(HandleStep)
  /\ \A a \in Addr : SF_vars(Dispatch(a))
  /\ \A a \in Addr : WF_vars(CompleteOp(a))
  /\ \A c \in Calls : SF_vars(\E a \in Addr : AcceptCall(a, c))

FairSpec == Spec /\ Fairness
-----------------------------------------------------------------------------
(* Invariants.                                                             *)

(* The state has its types.                                                *)
TypeOK ==
  /\ initialized \in BOOLEAN
  /\ pc \in {"outside", "polling", "streams"}
  /\ it \in Nat \ {0}
  /\ handler \in [Addr -> Handler]
  /\ ops \in [Addr -> Seq({"accept", "write", "finish"})]
  /\ cq \subseteq [tag : Addr, ok : {"ok", "failed"}]
  /\ waitingStreams \in Seq(Addr)
  /\ events \in [EventTypes -> Seq(Nat)]
  /\ pushed \in [EventTypes -> Nat]
  /\ rpc \in [Calls -> {"idle", "queued", "open", "answered", "dead"}]
  /\ last \in [Calls -> Nat]

(* A handler has at most one operation under way: it is with the runtime,  *)
(* in the completion queue or in waitingStreams_, in one of them and there *)
(* once.  gRPC forbids a second Write before the first is done, and a tag  *)
(* that comes back twice would be proceeded twice.                         *)
SingleOwner ==
  /\ \A a \in Addr : Len(ops[a]) <= 1
  /\ \A a \in Addr : ops[a] # <<>> => a \notin Completed \cup Waiting
  /\ Completed \cap Waiting = {}
  /\ \A e, f \in cq : e.tag = f.tag => e = f
  /\ IsInjective(waitingStreams)

(* No address of a deleted handler is left with the runtime, in the        *)
(* completion queue or in waitingStreams_: delete this and delete req come *)
(* after the last use.                                                     *)
NoDanglingTag ==
  \A a \in Addr : IsFree(a) => ops[a] = <<>> /\ a \notin Completed \cup Waiting

(* Handler a waits for a call, or is about to start one it was given.      *)
Listener(a) ==
  \/ \E i \in DOMAIN ops[a] : ops[a][i] = "accept"
  \/ /\ a \in Completed
     /\ handler[a].status = IF IsStreamingRequest(a) THEN "BUSY" ELSE "PROCESS"

(* From Run on every method has exactly one listener, however often calls  *)
(* are cancelled and handlers throw: spawning the next handler before the  *)
(* handler runs is what keeps a throwing method callable.                  *)
OneListener ==
  initialized =>
    \A m \in Methods :
      /\ \E a \in Addr : handler[a].method = m /\ Listener(a)
      /\ \A a, b \in Addr : /\ handler[a].method = m /\ Listener(a)
                            /\ handler[b].method = m /\ Listener(b)
                            => a = b

(* waitingStreams_ holds the handlers whose state_ is WAITING, all of them *)
(* and no others.                                                          *)
WaitingStreamsExact == \A a \in Addr : a \in Waiting <=> handler[a].state = "WAITING"

(* A handler that exists but that nothing will ever proceed again.         *)
Orphan(a) == ~ IsFree(a) /\ ops[a] = <<>> /\ a \notin Completed \cup Waiting

(* Only a unary handler is ever orphaned, and only when its client had     *)
(* gone before the answer went out or its method threw: no stream, and no  *)
(* handler whose client still waits for a result, is lost.                 *)
OrphansExplained ==
  \A a \in Addr : Orphan(a) =>
    /\ handler[a].method \in Unary
    /\ \/ handler[a].status = "FINISH" /\ rpc[handler[a].call] = "dead"
       \/ handler[a].status = "PROCESS" /\ handler[a].method \in Throwing

-----------------------------------------------------------------------------
(* Action properties.                                                      *)

(* A stream is never sent an event twice, nor an older one after a newer   *)
(* one, whatever the order in which writes complete, nor one that was not  *)
(* pushed.                                                                 *)
InOrder ==
  [][\A a \in Addr : ops'[a] = Append(ops[a], "write") =>
        LET c == handler[a].call
        IN  last[c] < last'[c] /\ last'[c] <= pushed[MethodOf[c]]]_vars

(* Handle drops an event only when no stream of its type waits: whoever    *)
(* waited when the frame began was given the event.                        *)
NoMissedEvent ==
  [][\A t \in Streams : Len(events'[t]) < Len(events[t]) =>
        \A a \in Waiting : handler[a].method # t]_vars

-----------------------------------------------------------------------------
(* What the streams promise, without handlers, queues and frames.          *)

Subscribers == {c \in Calls : MethodOf[c] \in Streams}
Removed(t) == pushed[t] - Len(events[t])

Feed == INSTANCE EventFeed WITH
          Types <- EventTypes,
          Subscribers <- Subscribers,
          TypeOf <- MethodOf,
          published <- pushed,
          dropped <- [t \in EventTypes |-> Removed(t)],
          sent <- [c \in Subscribers |-> last[c]],
          waiting <- {handler[a].call : a \in Waiting}

(* The server implements EventFeed: every step of hooks, Handle and the    *)
(* runtime publishes, delivers, waits or drops as EventFeed allows, or is  *)
(* invisible to the subscribers.                                           *)
ImplementsFeed == Feed!Spec

-----------------------------------------------------------------------------
(* Liveness, under FairSpec.                                               *)

(* A handler whose answer went out deletes itself.                         *)
AnsweredFreed ==
  \A a \in Addr :
    (handler[a].status = "FINISH" /\ rpc[handler[a].call] = "answered") ~> IsFree(a)

(* A failed write deletes the stream of a client that has gone.            *)
DeadStreamFreed ==
  \A a \in Addr :
    (/\ handler[a].call # None /\ IsStreamingRequest(a)
     /\ rpc[handler[a].call] = "dead" /\ ops[a] # <<>>) ~> IsFree(a)

(* A waiting stream is given an event that came, and waits no longer.      *)
WaitingServed == \A a \in Addr : (a \in Waiting /\ HasEvent(a)) ~> (a \notin Waiting)

(* Every event is removed in the end, whether or not anybody listens to    *)
(* its type and whatever is pushed behind it, provided that exceptions do  *)
(* not cut the frames short for ever.  (A queue that is given more than    *)
(* one event per frame does grow: Handle removes one.)                     *)
EventsPass ==
  ([]<><<RemoveEvents>>_vars) =>
    \A t \in EventTypes, n \in 1 .. MaxEvents : (pushed[t] >= n) ~> (n \notin ToSet(events[t]))

-----------------------------------------------------------------------------
(* What comments of the code say and the code does not do.                 *)

(* "If the stream waits for data add to another container": only streams   *)
(* are put into waitingStreams_.                                           *)
OnlyStreamsWait == \A a \in Waiting : IsStreamingRequest(a)

(* "The instance will deallocate itself as part of its FINISH state": a    *)
(* unary handler that was given a call reaches FINISH ...                  *)
ReachesFinish ==
  \A a \in Addr :
    (handler[a].method \in Unary /\ handler[a].call # None)
      ~> (handler[a].status \in {"FINISH", "FREED"})

(* ... and one in FINISH is freed.                                         *)
FinishedFreed ==
  \A a \in Addr :
    (handler[a].method \in Unary /\ handler[a].status = "FINISH") ~> IsFree(a)
=============================================================================
