------------------------ MODULE RPCServerOrderProofs ------------------------
(***************************************************************************)
(* What follows from the places of RPCServerProofs for any instance of     *)
(* RPCServer: a method has one listener at all times, a stream's events    *)
(* are sent in order, and a waiting stream misses none.                    *)
(***************************************************************************)
EXTENDS RPCServerProofs

-----------------------------------------------------------------------------
(* The listener of a method.                                               *)

StartStatus(m) == IF m \in Streams THEN "BUSY" ELSE "PROCESS"

(* Handler a is armed for m, or was given a call that it has not begun.    *)
ListensFor(a, m) ==
  /\ handler[a].method = m
  /\ ops[a] = Op("accept") \/ (Done(a) /\ handler[a].status = StartStatus(m))

ListenInv ==
  initialized => \A m \in Methods : \E a \in Addr : \A b \in Addr : ListensFor(b, m) <=> b = a

(* A step that changes nobody's listening ...                              *)
LEMMA SameListeners ==
  ASSUME ListenInv, initialized' = initialized,
         \A b \in Addr, m \in Methods : ListensFor(b, m)' <=> ListensFor(b, m)
  PROVE  ListenInv'
  BY DEF ListenInv

(* ... and one that hands it from a to the handler that a spawns at n.     *)
LEMMA ListenerMoves ==
  ASSUME ListenInv, initialized' = initialized, NEW a \in Addr, NEW n \in Addr, a # n,
         NEW m \in Methods, ListensFor(a, m), \A k \in Methods : ~ ListensFor(a, k)',
         \A k \in Methods : ListensFor(n, k)' <=> k = m,
         \A k \in Methods : ~ ListensFor(n, k),
         \A b \in Addr \ {a, n}, k \in Methods : ListensFor(b, k)' <=> ListensFor(b, k)
  PROVE  ListenInv'
<1> SUFFICES ASSUME initialized, NEW k \in Methods
             PROVE \E x \in Addr : \A b \in Addr : ListensFor(b, k)' <=> b = x
  BY DEF ListenInv
<1>1. PICK x \in Addr : \A b \in Addr : ListensFor(b, k) <=> b = x
  BY DEF ListenInv
<1>2. CASE k = m
  <2>1. x = a
    BY <1>1, <1>2
  <2>2. \A b \in Addr : ListensFor(b, k)' <=> b = n
    BY <1>1, <1>2, <2>1
  <2> QED
    BY <2>2
<1>3. CASE k # m
  <2>1. x # a /\ x # n
    BY <1>1, <1>3 DEF ListensFor
  <2>2. \A b \in Addr : ListensFor(b, k)' <=> b = x
    BY <1>1, <1>3, <2>1
  <2> QED
    BY <2>2
<1> QED
  BY <1>2, <1>3

(* A handler that a step leaves alone.                                     *)
LEMMA KeepsListening ==
  ASSUME NEW b \in Addr, handler'[b] = handler[b], ops'[b] = ops[b], Done(b)' <=> Done(b)
  PROVE  \A m \in Methods : ListensFor(b, m)' <=> ListensFor(b, m)
  BY DEF ListensFor

(* The three steps that spawn.                                             *)
LEMMA SpawnListens ==
  ASSUME OwnerInv, ListenInv, NEW a \in Addr, NEW n \in Addr,
         ServeUnary(a, n) \/ ThrowUnary(a, n) \/ OpenStream(a, n)
  PROVE  ListenInv'
<1> DEFINE m == handler[a].method
<1>1. TypeOK /\ HandlerInv(a) /\ HandlerInv(n) /\ AsyncNext(a, "ok") /\ IsFree(n)
  BY DEF OwnerInv, ServeUnary, ThrowUnary, OpenStream
<1>2. /\ Done(a) /\ ops[a] = <<>> /\ ~ IsFree(a) /\ ~ Done(a)'
      /\ \A b \in Addr \ {a} : Done(b)' <=> Done(b)
  BY <1>1, Taken
<1>3. /\ ops[n] = <<>> /\ ~ Done(n) /\ n # a
      /\ handler[n].method \notin Methods
  BY <1>1, <1>2, NoneNotMethod DEF HandlerInv, OnePlace, FieldsFit
<1>4. m \in Methods /\ initialized' = initialized
  BY MethodsAssumption DEF Methods, IsStreamingRequest, ServeUnary, ThrowUnary, OpenStream
<1>5. handler[a].status = StartStatus(m)
  BY MethodsAssumption DEF ServeUnary, ThrowUnary, OpenStream, IsStreamingRequest, StartStatus
<1>6. /\ ops'[a] # Op("accept") /\ ops'[n] = Op("accept")
      /\ \A b \in Addr \ {a, n} : ops'[b] = ops[b]
  <2>1. Append(<<>>, "accept") = Op("accept") /\ Append(<<>>, "finish") = Op("finish")
    BY OpFacts DEF OpKinds
  <2>2. Op("accept") # Op("finish") /\ Op("accept") # Op("write") /\ Op("accept") # <<>>
    BY OpFacts DEF OpKinds
  <2>3. CASE ServeUnary(a, n)
    BY <1>1, <1>2, <1>3, <2>1, <2>2, <2>3 DEF ServeUnary, TypeOK
  <2>4. CASE ThrowUnary(a, n)
    BY <1>1, <1>2, <1>3, <2>1, <2>2, <2>4 DEF ThrowUnary, TypeOK
  <2>5. CASE OpenStream(a, n)
    <3>1. \A b \in Addr : StreamOps(a)[b] = IF b = a /\ HasEvent(a) THEN Op("write") ELSE ops[b]
      BY <1>1, <1>2, StreamStep DEF TypeOK
    <3>2. \A b \in Addr : ops'[b] = IF b = n THEN Append(StreamOps(a)[n], "accept") ELSE StreamOps(a)[b]
      BY <1>1, <2>5, StreamStepType DEF OpenStream
    <3> QED
      BY <1>2, <1>3, <2>1, <2>2, <3>1, <3>2
  <2> QED
    BY <2>3, <2>4, <2>5
<1>7. /\ handler'[n].method = m
      /\ \A b \in Addr \ {a, n} : handler'[b] = handler[b]
  BY <1>1, <1>3, NewHandlerFields DEF ServeUnary, ThrowUnary, OpenStream, TypeOK
<1>8. ListensFor(a, m) /\ \A k \in Methods : ~ ListensFor(a, k)'
  BY <1>2, <1>5, <1>6 DEF ListensFor
<1>9. \A k \in Methods : (ListensFor(n, k)' <=> k = m) /\ ~ ListensFor(n, k)
  BY <1>3, <1>6, <1>7 DEF ListensFor
<1>10. \A b \in Addr \ {a, n}, k \in Methods : ListensFor(b, k)' <=> ListensFor(b, k)
  BY <1>2, <1>6, <1>7, KeepsListening
<1> HIDE DEF m
<1> QED
  BY <1>3, <1>4, <1>8, <1>9, <1>10, ListenerMoves

(* The steps of Handle that proceed a handler which is past its start.     *)
LEMMA ProceedListens ==
  ASSUME OwnerInv, ListenInv, NEW a \in Addr,
         FreeUnary(a) \/ ContinueStream(a) \/ HandleFailure(a) \/ VisitStream(a)
  PROVE  ListenInv'
<1>1. TypeOK /\ HandlerInv(a)
  BY DEF OwnerInv
<1>2. ops[a] = <<>> /\ (Done(a) => handler[a].status # StartStatus(handler[a].method)) /\ ~ Done(a)'
  <2>1. CASE FreeUnary(a)
    BY <1>1, <2>1, Taken, UnaryNotStream DEF FreeUnary, StartStatus
  <2>2. CASE ContinueStream(a)
    BY <1>1, <2>2, Taken DEF ContinueStream, StartStatus, IsStreamingRequest
  <2>3. CASE HandleFailure(a)
    <3>1. ops[a] = <<>> /\ Failed(a) /\ ~ Done(a)'
      BY <1>1, <2>3, Taken DEF HandleFailure
    <3> QED
      BY <1>1, <3>1 DEF HandlerInv, OnePlace
  <2>4. CASE VisitStream(a)
    <3>1. Parked(a)
      BY <1>1, <2>4 DEF VisitStream, Parked, Waiting, ToSet, TypeOK
    <3>2. ops[a] = <<>> /\ ~ Done(a)
      BY <1>1, <3>1 DEF HandlerInv, OnePlace
    <3> QED
      BY <2>4, <3>2 DEF VisitStream, Done
  <2> QED
    BY <2>1, <2>2, <2>3, <2>4
<1>3. \A b \in Addr \ {a} : handler'[b] = handler[b] /\ (Done(b)' <=> Done(b))
  <2>1. CASE VisitStream(a)
    BY <1>1, <2>1 DEF VisitStream, Done, TypeOK
  <2>2. CASE FreeUnary(a) \/ ContinueStream(a) \/ HandleFailure(a)
    <3>1. \A b \in Addr \ {a} : Done(b)' <=> Done(b)
      BY <1>1, <2>2, Taken DEF FreeUnary, ContinueStream, HandleFailure
    <3> QED
      BY <1>1, <2>2, <3>1 DEF FreeUnary, ContinueStream, HandleFailure, TypeOK
  <2> QED
    BY <2>1, <2>2
<1>4. ops'[a] # Op("accept") /\ \A b \in Addr \ {a} : ops'[b] = ops[b]
  <2>1. CASE FreeUnary(a) \/ HandleFailure(a)
    BY <1>2, <2>1, OpFacts DEF FreeUnary, HandleFailure, OpKinds
  <2>2. CASE ContinueStream(a) \/ VisitStream(a)
    <3>1. \A b \in Addr : ops'[b] = IF b = a /\ HasEvent(a) THEN Op("write") ELSE ops[b]
      BY <1>1, <1>2, <2>2, StreamStep DEF ContinueStream, VisitStream, TypeOK
    <3> QED
      BY <1>2, <3>1, OpFacts DEF OpKinds
  <2> QED
    BY <2>1, <2>2
<1>5. \A k \in Methods : ~ ListensFor(a, k) /\ ~ ListensFor(a, k)'
  BY <1>2, <1>4, OpFacts DEF ListensFor, OpKinds
<1>6. \A b \in Addr \ {a}, k \in Methods : ListensFor(b, k)' <=> ListensFor(b, k)
  BY <1>3, <1>4, KeepsListening
<1>7. initialized' = initialized
  BY DEF FreeUnary, ContinueStream, HandleFailure, VisitStream
<1> QED
  BY <1>5, <1>6, <1>7, SameListeners

(* The runtime: an armed handler is given a call and listens on until the  *)
(* call is begun; a handler that wrote or finished does not listen.        *)
LEMMA RuntimeListens ==
  ASSUME OwnerInv, ListenInv, NEW a \in Addr,
         CompleteOp(a) \/ \E c \in Calls : AcceptCall(a, c)
  PROVE  ListenInv'
<1>1. TypeOK /\ HandlerInv(a)
  BY DEF OwnerInv
<1>2. PICK k \in OpKinds : ops[a] = Op(k)
  <2>1. ops[a] # <<>>
    <3>1. PICK i : i \in DOMAIN ops[a]
      BY DEF CompleteOp, AcceptCall
    <3> QED
      BY <3>1
  <2> QED
    BY <1>1, <2>1 DEF HandlerInv, OnePlace
<1>3. ~ Done(a) /\ ~ Failed(a) /\ ~ IsFree(a)
  BY <1>1, <1>2, OpFacts DEF HandlerInv, OnePlace
<1>4. ops' = [ops EXCEPT ![a] = <<>>] /\ (CompleteOp(a) => k # "accept")
      /\ ((\E c \in Calls : AcceptCall(a, c)) => k = "accept")
  <2>1. PICK i \in DOMAIN ops[a] :
          /\ ops' = [ops EXCEPT ![a] = RemoveAt(@, i)]
          /\ CompleteOp(a) => ops[a][i] # "accept"
          /\ (\E c \in Calls : AcceptCall(a, c)) => ops[a][i] = "accept"
    <3>1. CASE CompleteOp(a)
      <4>1. PICK i \in DOMAIN ops[a] : ops[a][i] # "accept" /\ ops' = [ops EXCEPT ![a] = RemoveAt(@, i)]
        BY <3>1 DEF CompleteOp
      <4>2. i = 1
        BY <1>2, <4>1, OpFacts
      <4>3. ASSUME NEW c \in Calls, AcceptCall(a, c) PROVE FALSE
        <5>1. PICK j \in DOMAIN ops[a] : ops[a][j] = "accept"
          BY <4>3 DEF AcceptCall
        <5> QED
          BY <1>2, <4>1, <4>2, <5>1, OpFacts
      <4> QED
        BY <4>1, <4>3
    <3>2. CASE ~ CompleteOp(a) /\ \E c \in Calls : AcceptCall(a, c)
      BY <3>2 DEF AcceptCall
    <3> QED
      BY <3>1, <3>2
  <2>2. i = 1 /\ ops[a][i] = k /\ RemoveAt(ops[a], 1) = <<>>
    BY <1>2, <2>1, OpFacts
  <2> QED
    BY <2>1, <2>2
<1>5. /\ ops'[a] = <<>> /\ \A b \in Addr \ {a} : ops'[b] = ops[b]
      /\ handler'[a].method = handler[a].method /\ handler'[a].status = handler[a].status
      /\ \A b \in Addr \ {a} : handler'[b] = handler[b]
      /\ initialized' = initialized
  <2>1. ops'[a] = <<>> /\ \A b \in Addr \ {a} : ops'[b] = ops[b]
    BY <1>1, <1>4 DEF TypeOK
  <2>2. CASE CompleteOp(a)
    BY <2>1, <2>2 DEF CompleteOp, serverVars
  <2>3. CASE \E c \in Calls : AcceptCall(a, c)
    <3>1. PICK c \in Calls : handler' = [handler EXCEPT ![a].call = c] /\ initialized' = initialized
      BY <2>3 DEF AcceptCall, serverVars
    <3> QED
      BY <1>1, <2>1, <3>1 DEF TypeOK, Handler
  <2> QED
    BY <2>2, <2>3
<1>6. \A b \in Addr \ {a} : Done(b)' <=> Done(b)
  BY <1>1 DEF CompleteOp, AcceptCall, Done
<1>7. \A m \in Methods : ListensFor(a, m)' <=> ListensFor(a, m)
  <2>1. CASE CompleteOp(a)
    <3>1. handler[a].status # StartStatus(handler[a].method)
      BY <1>1, <1>2, <1>4, <2>1, OpFacts, UnaryNotStream
      DEF HandlerInv, PlaceFits, OpKinds, StartStatus, IsStreamingRequest
    <3> QED
      BY <1>2, <1>3, <1>4, <1>5, <2>1, <3>1, OpFacts DEF ListensFor, OpKinds
  <2>2. CASE \E c \in Calls : AcceptCall(a, c)
    <3>1. ops[a] = Op("accept") /\ Done(a)'
      BY <1>2, <1>4, <2>2 DEF AcceptCall, Done
    <3>2. handler[a].status = StartStatus(handler[a].method)
      BY <1>1, <1>3, <3>1 DEF HandlerInv, PlaceFits, FieldsFit, StartStatus, IsStreamingRequest
    <3> QED
      BY <1>5, <3>1, <3>2 DEF ListensFor
  <2> QED
    BY <2>1, <2>2
<1>8. \A b \in Addr \ {a}, m \in Methods : ListensFor(b, m)' <=> ListensFor(b, m)
  BY <1>5, <1>6, KeepsListening
<1> QED
  BY <1>5, <1>7, <1>8, SameListeners

LEMMA RunListens ==
  ASSUME OwnerInv, Run
  PROVE  ListenInv'
<1>1. PICK place \in [Methods -> Addr] :
        /\ IsInjective(place)
        /\ handler' = [a \in Addr |-> IF \E m \in Methods : place[m] = a
                                      THEN NewHandler(CHOOSE m \in Methods : place[m] = a)
                                      ELSE Freed]
        /\ ops' = [a \in Addr |-> IF \E m \in Methods : place[m] = a THEN <<"accept">> ELSE <<>>]
  BY DEF Run
<1>2. ASSUME NEW k \in Methods, NEW b \in Addr PROVE ListensFor(b, k)' <=> b = place[k]
  <2>1. CASE \E m \in Methods : place[m] = b
    <3>1. PICK m \in Methods : place[m] = b /\ (CHOOSE l \in Methods : place[l] = b) = m
      BY <2>1
    <3>2. handler'[b].method = m /\ ops'[b] = Op("accept")
      BY <1>1, <3>1, NewHandlerFields DEF Op
    <3>3. b = place[k] <=> m = k
      BY <1>1, <3>1 DEF IsInjective
    <3> QED
      BY <3>2, <3>3 DEF ListensFor
  <2>2. CASE ~ \E m \in Methods : place[m] = b
    <3>1. handler'[b].method = None
      BY <1>1, <2>2 DEF Freed
    <3> QED
      BY <2>2, <3>1, NoneNotMethod DEF ListensFor
  <2> QED
    BY <2>1, <2>2
<1>3. \A k \in Methods : place[k] \in Addr
  OBVIOUS
<1> QED
  BY <1>2, <1>3 DEF ListenInv

LEMMA IdleListens ==
  ASSUME ListenInv, UNCHANGED <<initialized, handler, ops, cq>>
  PROVE  ListenInv'
<1>1. \A b \in Addr : Done(b)' <=> Done(b)
  BY DEF Done
<1> QED
  BY <1>1, SameListeners, KeepsListening

LEMMA NextListens ==
  ASSUME OwnerInv, ListenInv, [Next]_vars
  PROVE  ListenInv'
<1>1. CASE Run
  BY <1>1, RunListens
<1>2. CASE \E t \in EventTypes : PushEvent(t)
  BY <1>2, IdleListens DEF PushEvent, serverVars
<1>3. CASE HandleStep
  <2>1. CASE EnterHandle \/ AsyncNextTimeout \/ RemoveEvents
    BY <2>1, IdleListens DEF EnterHandle, AsyncNextTimeout, RemoveEvents
  <2>2. CASE \E a \in Addr : Dispatch(a) \/ VisitStream(a)
    BY <2>2, SpawnListens, ProceedListens DEF Dispatch
  <2> QED
    BY <1>3, <2>1, <2>2 DEF HandleStep
<1>4. CASE \E c \in Calls : ClientCall(c) \/ ClientCancel(c)
  BY <1>4, IdleListens DEF ClientCall, ClientCancel, serverVars
<1>5. CASE Runtime
  BY <1>5, RuntimeListens DEF Runtime
<1>6. CASE UNCHANGED vars
  BY <1>6, IdleListens DEF vars
<1> QED
  BY <1>1, <1>2, <1>3, <1>4, <1>5, <1>6 DEF Next

LEMMA ListenMeans == OwnerInv /\ ListenInv => OneListener
<1> SUFFICES ASSUME OwnerInv, ListenInv PROVE OneListener
  OBVIOUS
<1>1. ASSUME NEW a \in Addr, NEW m \in Methods
      PROVE ListensFor(a, m) <=> handler[a].method = m /\ Listener(a)
  <2>1. HandlerInv(a) /\ TypeOK
    BY DEF OwnerInv
  <2>2. (\E i \in DOMAIN ops[a] : ops[a][i] = "accept") <=> ops[a] = Op("accept")
    BY <2>1, OpFacts DEF HandlerInv, OnePlace, OpKinds
  <2>3. a \in Completed <=> Done(a) \/ Failed(a)
    <3>1. \A e \in cq : e = [tag |-> e.tag, ok |-> e.ok] /\ e.ok \in {"ok", "failed"}
      BY <2>1 DEF TypeOK
    <3> QED
      BY <3>1 DEF Completed, Done, Failed
  <2>4. Failed(a) => handler[a].status # StartStatus(handler[a].method)
    BY <2>1 DEF HandlerInv, PlaceFits, StartStatus, IsStreamingRequest
  <2>5. StartStatus(handler[a].method) = IF IsStreamingRequest(a) THEN "BUSY" ELSE "PROCESS"
    BY DEF StartStatus, IsStreamingRequest
  <2> QED
    BY <2>2, <2>3, <2>4, <2>5 DEF ListensFor, Listener
<1>2. ASSUME initialized, NEW m \in Methods
      PROVE \E x \in Addr : \A b \in Addr : (handler[b].method = m /\ Listener(b)) <=> b = x
  BY <1>1, <1>2 DEF ListenInv
<1>3. ASSUME initialized, NEW m \in Methods
      PROVE /\ \E a \in Addr : handler[a].method = m /\ Listener(a)
            /\ \A a, b \in Addr : /\ handler[a].method = m /\ Listener(a)
                                  /\ handler[b].method = m /\ Listener(b)
                                  => a = b
  BY <1>2, <1>3, Zenon
<1> QED
  BY <1>3 DEF OneListener

LEMMA ListenInvariant ==
  ASSUME FreedReads \subseteq {"COMPLETED"}
  PROVE  Spec => [](OwnerInv /\ ListenInv)
<1>1. Init => OwnerInv /\ ListenInv
  BY InitOwner DEF Init, ListenInv
<1>2. (OwnerInv /\ ListenInv) /\ [Next]_vars => (OwnerInv /\ ListenInv)'
  BY NextOwner, NextListens
<1> QED
  BY <1>1, <1>2, PTL DEF Spec

(* From the first frame on every method has exactly one listener, however  *)
(* calls are cancelled and methods throw (datacall.h:80): under the        *)
(* assumption of OwnerInvariant on the freed handler.                      *)
THEOREM OneListenerCorrect ==
  ASSUME FreedReads \subseteq {"COMPLETED"}
  PROVE  Spec => []OneListener
  BY ListenInvariant, ListenMeans, PTL

-----------------------------------------------------------------------------
(* The events of the streams.                                              *)

(* No two handlers serve one call.                                         *)
CallsDistinct ==
  \A a, b \in Addr : handler[a].call = handler[b].call /\ handler[a].call # None => a = b

(* The queue of a type holds the youngest events of the type, in order.    *)
EventsNumbered ==
  \A t \in EventTypes :
    /\ Len(events[t]) <= pushed[t]
    /\ \A i \in 1..Len(events[t]) : events[t][i] = Removed(t) + i

(* Only in the frame in which it is dropped can an event have been written,*)
(* and a stream that waits has not written it.                             *)
LastWritten ==
  /\ \A c \in Calls : MethodOf[c] \in Streams =>
       /\ last[c] <= Removed(MethodOf[c]) + 1
       /\ last[c] <= Removed(MethodOf[c]) \/ (pc = "streams" /\ events[MethodOf[c]] # <<>>)
  /\ \A a \in Waiting : last[handler[a].call] <= Removed(handler[a].method)

(* The loop over the waiting streams: whom it has passed had no event.     *)
PassedHadNone ==
  /\ it <= Len(waitingStreams) + 1
  /\ pc # "streams" => it = 1
  /\ \A j \in 1..it - 1 : events[handler[waitingStreams[j]].method] = <<>>

EventInv == CallsDistinct /\ EventsNumbered /\ LastWritten /\ PassedHadNone

LEMMA CallType ==
  ASSUME OwnerInv, NEW a \in Addr
  PROVE  /\ handler[a].call \in Calls \cup {None} /\ handler[a].method \in Methods \cup {None}
         /\ handler[a].call # None => MethodOf[handler[a].call] = handler[a].method
  BY DEF OwnerInv, TypeOK, Handler, HandlerInv, FieldsFit

LEMMA WaitingType ==
  ASSUME OwnerInv
  PROVE  /\ waitingStreams \in Seq(Addr) /\ Waiting \subseteq Addr
         /\ \A j \in 1..Len(waitingStreams) : waitingStreams[j] \in Waiting
         /\ \A a \in Waiting : \E j \in 1..Len(waitingStreams) : waitingStreams[j] = a
<1>1. waitingStreams \in Seq(Addr)
  BY DEF OwnerInv, TypeOK
<1>2. DOMAIN waitingStreams = 1..Len(waitingStreams)
  BY <1>1, LenProperties
<1>3. Waiting \subseteq Addr
  BY <1>1, ToSetType DEF Waiting
<1> QED
  BY <1>1, <1>2, <1>3 DEF Waiting, ToSet

LEMMA WaitingFacts ==
  ASSUME OwnerInv, NEW a \in Waiting
  PROVE  /\ a \in Addr /\ handler[a].method \in Streams /\ handler[a].call \in Calls
         /\ ~ Done(a) /\ ~ Failed(a) /\ ops[a] = <<>> /\ ~ IsFree(a)
<1>1. a \in Addr /\ HandlerInv(a)
  BY WaitingType DEF OwnerInv
<1>2. handler[a].method \in Streams /\ ~ Done(a) /\ ~ Failed(a) /\ ops[a] = <<>> /\ ~ IsFree(a)
  BY <1>1 DEF HandlerInv, OnePlace, PlaceFits, Parked, IsStreamingRequest
<1> QED
  BY <1>1, <1>2, HasCall, CallType, OpFacts DEF OpKinds

(* Handlers keep their calls or lose them, unless the runtime accepts one. *)
LEMMA CallsStayDistinct ==
  ASSUME OwnerInv, CallsDistinct, [Next]_vars
  PROVE  CallsDistinct'
<1>1. ASSUME \A b \in Addr : handler'[b].call \in {handler[b].call, None}
      PROVE  CallsDistinct'
  BY <1>1 DEF CallsDistinct
<1>2. TypeOK
  BY DEF OwnerInv
<1>3. CASE Run
  BY <1>1, <1>3, NewHandlerFields DEF Run, Freed
<1>4. CASE (\E t \in EventTypes : PushEvent(t)) \/ EnterHandle \/ AsyncNextTimeout \/ RemoveEvents
           \/ (\E c \in Calls : ClientCall(c) \/ ClientCancel(c)) \/ (\E a \in Addr : CompleteOp(a))
           \/ UNCHANGED vars
  BY <1>1, <1>4 DEF PushEvent, EnterHandle, AsyncNextTimeout, RemoveEvents, ClientCall, ClientCancel,
     CompleteOp, vars
<1>5. ASSUME NEW a \in Addr, NEW n \in Addr, ServeUnary(a, n) \/ ThrowUnary(a, n) \/ OpenStream(a, n)
      PROVE  CallsDistinct'
  <2>1. handler'[n].call = None /\ \A b \in Addr \ {a, n} : handler'[b] = handler[b]
    BY <1>2, <1>5, NewHandlerFields DEF ServeUnary, ThrowUnary, OpenStream, TypeOK
  <2>2. a # n => handler'[a].call = handler[a].call
    <3>1. CASE ServeUnary(a, n)
      BY <1>2, <3>1 DEF ServeUnary, TypeOK, Handler
    <3>2. CASE ThrowUnary(a, n)
      BY <1>2, <3>2 DEF ThrowUnary, TypeOK
    <3>3. CASE OpenStream(a, n)
      BY <1>2, <3>3 DEF OpenStream, TypeOK, Handler
    <3> QED
      BY <1>5, <3>1, <3>2, <3>3
  <2> QED
    BY <1>1, <2>1, <2>2
<1>6. ASSUME NEW a \in Addr, FreeUnary(a) \/ ContinueStream(a) \/ HandleFailure(a) \/ VisitStream(a)
      PROVE  CallsDistinct'
  <2>1. \A b \in Addr \ {a} : handler'[b] = handler[b]
    BY <1>2, <1>6 DEF FreeUnary, ContinueStream, HandleFailure, VisitStream, TypeOK
  <2>2. handler'[a].call \in {handler[a].call, None}
    <3>1. CASE FreeUnary(a) \/ HandleFailure(a)
      BY <1>2, <3>1 DEF FreeUnary, HandleFailure, TypeOK, Freed
    <3>2. CASE ContinueStream(a) \/ VisitStream(a)
      BY <1>2, <3>2 DEF ContinueStream, VisitStream, TypeOK, Handler
    <3> QED
      BY <1>6, <3>1, <3>2
  <2> QED
    BY <1>1, <2>1, <2>2
<1>7. ASSUME NEW a \in Addr, NEW c \in Calls, AcceptCall(a, c)
      PROVE  CallsDistinct'
  <2>1. \A b \in Addr : handler[b].call # c
    BY <1>7, NoneNotMethod DEF AcceptCall, OwnerInv, HandlerInv, FieldsFit
  <2>2. \A b \in Addr : handler'[b].call = IF b = a THEN c ELSE handler[b].call
    BY <1>2, <1>7 DEF AcceptCall, TypeOK, Handler
  <2> QED
    BY <2>1, <2>2 DEF CallsDistinct
<1> QED
  BY <1>3, <1>4, <1>5, <1>6, <1>7 DEF Next, HandleStep, Dispatch, Runtime

(* Steps that neither hand an event to a stream nor take one from a queue. *)
QuietStep ==
  \/ Run \/ EnterHandle \/ AsyncNextTimeout \/ UNCHANGED vars
  \/ \E a, n \in Addr : ServeUnary(a, n) \/ ThrowUnary(a, n)
  \/ \E a \in Addr : FreeUnary(a) \/ HandleFailure(a) \/ CompleteOp(a)
  \/ \E c \in Calls : ClientCall(c) \/ ClientCancel(c) \/ \E a \in Addr : AcceptCall(a, c)

(* They leave the events, the written numbers and waitingStreams_ alone    *)
(* and do not end a frame.                                                 *)
Quiet ==
  /\ UNCHANGED <<events, pushed, last, waitingStreams, it>>
  /\ pc = "streams" => pc' = "streams"
  /\ \A b \in Waiting : handler'[b].call = handler[b].call /\ handler'[b].method = handler[b].method

LEMMA QuietEvents ==
  ASSUME OwnerInv, EventInv, Quiet
  PROVE  EventsNumbered' /\ LastWritten' /\ PassedHadNone'
<1>1. EventsNumbered'
  BY DEF EventInv, EventsNumbered, Removed, Quiet
<1>2. LastWritten'
  BY DEF EventInv, LastWritten, Removed, Waiting, Quiet
<1>3. PassedHadNone'
  <2>1. \A j \in 1..it - 1 : j \in 1..Len(waitingStreams)
    BY WaitingType DEF EventInv, PassedHadNone, OwnerInv, TypeOK
  <2> QED
    BY <2>1, WaitingType DEF EventInv, PassedHadNone, Quiet
<1> QED
  BY <1>1, <1>2, <1>3

LEMMA QuietSteps ==
  ASSUME OwnerInv, FreedReads \subseteq {"COMPLETED"}, QuietStep
  PROVE  Quiet
<1>1. TypeOK
  BY DEF OwnerInv
<1>2. CASE Run
  <2>1. Waiting = {}
    BY <1>2, WaitingFacts, WaitingType DEF Run, OwnerInv
  <2> QED
    BY <1>2, <2>1 DEF Run, Quiet
<1>3. CASE EnterHandle \/ AsyncNextTimeout \/ UNCHANGED vars
  BY <1>3 DEF EnterHandle, AsyncNextTimeout, vars, feedVars, Quiet
<1>4. ASSUME NEW a \in Addr, NEW n \in Addr, ServeUnary(a, n) \/ ThrowUnary(a, n)
      PROVE  Quiet
  <2>1. a \notin Waiting /\ n \notin Waiting
    BY <1>4, WaitingFacts DEF ServeUnary, ThrowUnary, AsyncNext, Done
  <2>2. \A b \in Waiting : handler'[b] = handler[b]
    BY <1>1, <1>4, <2>1, WaitingType DEF ServeUnary, ThrowUnary, TypeOK
  <2> QED
    BY <1>4, <2>2 DEF ServeUnary, ThrowUnary, AsyncNext, feedVars, Quiet
<1>5. ASSUME NEW a \in Addr, FreeUnary(a) \/ HandleFailure(a) \/ CompleteOp(a)
      PROVE  Quiet
  <2>1. FreeUnary(a) \/ HandleFailure(a) => a \notin Waiting
    BY WaitingFacts DEF FreeUnary, HandleFailure, AsyncNext, Done, Failed
  <2>2. \A b \in Waiting : handler'[b] = handler[b]
    BY <1>1, <1>5, <2>1, WaitingType DEF FreeUnary, HandleFailure, CompleteOp, TypeOK
  <2>3. UNCHANGED <<events, pushed, last, waitingStreams, it>> /\ (pc = "streams" => pc' = "streams")
    BY <1>5 DEF FreeUnary, HandleFailure, CompleteOp, AsyncNext, feedVars, serverVars
  <2> QED
    BY <2>2, <2>3 DEF Quiet
<1>6. ASSUME NEW c \in Calls, ClientCall(c) \/ ClientCancel(c)
      PROVE  Quiet
  BY <1>6 DEF ClientCall, ClientCancel, serverVars, feedVars, Quiet
<1>7. ASSUME NEW c \in Calls, NEW a \in Addr, AcceptCall(a, c)
      PROVE  Quiet
  <2>1. a \notin Waiting
    BY <1>7, WaitingFacts DEF AcceptCall
  <2>2. \A b \in Waiting : handler'[b] = handler[b]
    BY <1>1, <1>7, <2>1, WaitingType DEF AcceptCall, TypeOK
  <2> QED
    BY <1>7, <2>2 DEF AcceptCall, serverVars, feedVars, Quiet
<1> QED
  BY <1>2, <1>3, <1>4, <1>5, <1>6, <1>7 DEF QuietStep

(* The steps that are not quiet.                                           *)
LEMMA StepKinds ==
  ASSUME [Next]_vars
  PROVE  \/ QuietStep
         \/ \E t \in EventTypes : PushEvent(t)
         \/ RemoveEvents
         \/ \E a \in Addr : ContinueStream(a) \/ \E n \in Addr : OpenStream(a, n)
         \/ \E a \in Addr : VisitStream(a)
  BY DEF QuietStep, Next, HandleStep, Dispatch, Runtime

LEMMA EventTypesFacts ==
  ASSUME OwnerInv, EventInv, NEW t \in EventTypes
  PROVE  /\ events[t] \in Seq(Nat) /\ pushed[t] \in Nat /\ Len(events[t]) \in Nat
         /\ Len(events[t]) <= pushed[t] /\ Removed(t) \in Nat
         /\ events[t] # <<>> => Len(events[t]) > 0 /\ Head(events[t]) = Removed(t) + 1
<1>1. events[t] \in Seq(Nat) /\ pushed[t] \in Nat /\ Len(events[t]) \in Nat
  BY DEF OwnerInv, TypeOK
<1>2. Len(events[t]) <= pushed[t] /\ Removed(t) \in Nat
  BY <1>1 DEF EventInv, EventsNumbered, Removed
<1>3. events[t] # <<>> => Len(events[t]) > 0 /\ Head(events[t]) = events[t][1]
  BY <1>1, EmptySeq
<1> QED
  BY <1>1, <1>2, <1>3 DEF EventInv, EventsNumbered

LEMMA LastType ==
  ASSUME OwnerInv, NEW c \in Calls
  PROVE  last[c] \in Nat
  BY DEF OwnerInv, TypeOK

(* A hook pushes an event between two frames.                              *)
LEMMA PushEvents ==
  ASSUME OwnerInv, EventInv, NEW t \in EventTypes, PushEvent(t)
  PROVE  EventsNumbered' /\ LastWritten' /\ PassedHadNone'
<1>1. pc # "streams" /\ UNCHANGED <<pc, it, waitingStreams, handler, last>>
  BY DEF PushEvent, Locked, serverVars
<1>2. /\ pushed'[t] = pushed[t] + 1 /\ events'[t] = Append(events[t], pushed[t] + 1)
      /\ \A u \in EventTypes \ {t} : pushed'[u] = pushed[u] /\ events'[u] = events[u]
  BY DEF PushEvent, OwnerInv, TypeOK
<1>3. /\ Len(events'[t]) = Len(events[t]) + 1
      /\ \A i \in 1..Len(events[t]) : events'[t][i] = events[t][i]
      /\ events'[t][Len(events[t]) + 1] = pushed[t] + 1
  BY <1>2, EventTypesFacts, AppendProperties
<1>4. ASSUME NEW u \in EventTypes PROVE Removed(u)' = Removed(u)
  <2>1. CASE u = t
    BY <1>2, <1>3, <2>1, EventTypesFacts DEF Removed
  <2>2. CASE u # t
    BY <1>2, <2>2 DEF Removed
  <2> QED
    BY <2>1, <2>2
<1>5. EventsNumbered'
  <2>1. ASSUME NEW u \in EventTypes \ {t}
        PROVE Len(events'[u]) <= pushed'[u]
              /\ \A i \in 1..Len(events'[u]) : events'[u][i] = Removed(u)' + i
    BY <1>2, <1>4 DEF EventInv, EventsNumbered
  <2>2. Len(events'[t]) <= pushed'[t]
    BY <1>2, <1>3, EventTypesFacts
  <2>3. ASSUME NEW i \in 1..Len(events'[t]) PROVE events'[t][i] = Removed(t)' + i
    <3>1. CASE i \in 1..Len(events[t])
      BY <1>3, <1>4, <3>1 DEF EventInv, EventsNumbered
    <3>2. CASE i \notin 1..Len(events[t])
      <4>1. i = Len(events[t]) + 1
        BY <1>3, <3>2, EventTypesFacts
      <4> QED
        BY <1>3, <1>4, <4>1, EventTypesFacts DEF Removed
    <3> QED
      BY <3>1, <3>2
  <2> QED
    BY <2>1, <2>2, <2>3 DEF EventsNumbered
<1>6. LastWritten'
  <2>1. \A c \in Calls : MethodOf[c] \in Streams => MethodOf[c] \in EventTypes
    BY MethodsAssumption
  <2>2. \A a \in Waiting : handler[a].method \in EventTypes
    BY WaitingFacts, MethodsAssumption
  <2> QED
    BY <1>1, <1>4, <2>1, <2>2 DEF EventInv, LastWritten, Waiting
<1>7. PassedHadNone'
  <2>1. it = 1
    BY <1>1 DEF EventInv, PassedHadNone
  <2> QED
    BY <1>1, <2>1 DEF EventInv, PassedHadNone
<1> QED
  BY <1>5, <1>6, <1>7

(* The end of a frame drops the front of each queue.                       *)
LEMMA RemoveEventsEvents ==
  ASSUME OwnerInv, EventInv, RemoveEvents
  PROVE  EventsNumbered' /\ LastWritten' /\ PassedHadNone'
<1>1. UNCHANGED <<waitingStreams, handler, last, pushed>> /\ pc' = "outside" /\ it' = 1
  BY DEF RemoveEvents
<1>2. ASSUME NEW t \in EventTypes
      PROVE  /\ Len(events'[t]) <= pushed'[t]
             /\ \A i \in 1..Len(events'[t]) : events'[t][i] = Removed(t)' + i
             /\ Removed(t)' = Removed(t) + (IF events[t] = <<>> THEN 0 ELSE 1)
  <2>1. CASE events[t] = <<>>
    <3>1. events'[t] = events[t]
      BY <2>1 DEF RemoveEvents
    <3> QED
      BY <1>1, <2>1, <3>1, EventTypesFacts DEF EventInv, EventsNumbered, Removed
  <2>2. CASE events[t] # <<>>
    <3>1. events'[t] = Tail(events[t])
      BY <2>2 DEF RemoveEvents
    <3>2. /\ Len(events'[t]) = Len(events[t]) - 1
          /\ \A i \in 1..Len(events[t]) - 1 : events'[t][i] = events[t][i + 1]
      BY <2>2, <3>1, EventTypesFacts, HeadTailProperties
    <3>3. Removed(t)' = Removed(t) + 1
      BY <1>1, <3>2, EventTypesFacts DEF Removed
    <3>4. ASSUME NEW i \in 1..Len(events'[t]) PROVE events'[t][i] = Removed(t)' + i
      <4>1. i + 1 \in 1..Len(events[t]) /\ events'[t][i] = events[t][i + 1]
        BY <3>2, EventTypesFacts
      <4>2. events[t][i + 1] = Removed(t) + (i + 1)
        BY <4>1 DEF EventInv, EventsNumbered
      <4> QED
        BY <3>2, <3>3, <4>1, <4>2, EventTypesFacts
    <3> QED
      BY <1>1, <2>2, <3>2, <3>3, <3>4, EventTypesFacts
  <2> QED
    BY <2>1, <2>2
<1>3. LastWritten'
  <2>1. ASSUME NEW c \in Calls, MethodOf[c] \in Streams PROVE last[c] <= Removed(MethodOf[c])'
    <3>1. MethodOf[c] \in EventTypes
      BY <2>1, MethodsAssumption
    <3> QED
      BY <1>2, <2>1, <3>1, LastType, EventTypesFacts DEF EventInv, LastWritten
  <2>2. ASSUME NEW c \in Calls, MethodOf[c] \in Streams PROVE Removed(MethodOf[c])' \in Nat
    BY <1>2, <2>2, EventTypesFacts, MethodsAssumption
  <2>3. ASSUME NEW a \in Waiting, NEW t \in EventTypes, handler[a].method = t
        PROVE last[handler[a].call] <= Removed(t)'
    <3>1. handler[a].call \in Calls
      BY WaitingFacts
    <3>2. last[handler[a].call] <= Removed(t)
      BY <2>3 DEF EventInv, LastWritten
    <3> QED
      BY <1>2, <3>1, <3>2, LastType, EventTypesFacts
  <2>4. \A a \in Waiting : handler[a].method \in EventTypes
    BY WaitingFacts, MethodsAssumption
  <2>5. \A a \in Waiting : last'[handler'[a].call] <= Removed(handler[a].method)'
    BY <1>1, <2>3, <2>4 DEF Removed
  <2>6. ASSUME NEW c \in Calls, MethodOf[c] \in Streams PROVE last[c] <= Removed(MethodOf[c])' + 1
    BY <2>1, <2>2, <2>6, LastType
  <2> QED
    BY <1>1, <2>1, <2>5, <2>6 DEF LastWritten, Waiting
<1>4. PassedHadNone'
  BY <1>1, WaitingType, LenProperties DEF PassedHadNone
<1> QED
  BY <1>2, <1>3, <1>4 DEF EventsNumbered

(* A stream that is proceeded writes the event behind those that are gone, *)
(* if there is one, and nothing otherwise.                                 *)
StreamMay(a) ==
  /\ handler[a].method \in Streams /\ handler[a].call \in Calls
  /\ MethodOf[handler[a].call] = handler[a].method
  /\ last[handler[a].call] <= Removed(handler[a].method)

LEMMA StreamWrites ==
  ASSUME OwnerInv, EventInv, NEW a \in Addr, StreamMay(a), last' = StreamLast(a)
  PROVE  /\ HasEvent(a) => /\ last'[handler[a].call] = Removed(handler[a].method) + 1
                           /\ Removed(handler[a].method) + 1 <= pushed[handler[a].method]
         /\ ~ HasEvent(a) => last' = last
         /\ \A d \in Calls \ {handler[a].call} : last'[d] = last[d]
<1>1. handler[a].method \in EventTypes
  BY MethodsAssumption DEF StreamMay
<1>2. HasEvent(a) => Head(events[handler[a].method]) = Removed(handler[a].method) + 1
  BY <1>1, EventTypesFacts DEF HasEvent
<1>3. HasEvent(a) => Removed(handler[a].method) + 1 <= pushed[handler[a].method]
  BY <1>1, EventTypesFacts DEF HasEvent, Removed
<1>4. last \in [Calls -> Nat]
  BY DEF OwnerInv, TypeOK
<1> QED
  BY <1>2, <1>3, <1>4 DEF StreamMay, StreamLast

LEMMA StreamStepEvents ==
  ASSUME OwnerInv, EventInv, NEW a \in Addr, StreamMay(a), last' = StreamLast(a),
         UNCHANGED feedVars, pc' = "streams",
         \A b \in Waiting' : /\ b \in Waiting \/ b = a
                             /\ b = a => ~ HasEvent(a)
                             /\ handler'[b].call = handler[b].call /\ handler'[b].method = handler[b].method
  PROVE  EventsNumbered' /\ LastWritten'
<1> DEFINE c == handler[a].call
           t == handler[a].method
<1>1. /\ HasEvent(a) => last'[c] = Removed(t) + 1
      /\ ~ HasEvent(a) => last' = last
      /\ \A d \in Calls \ {c} : last'[d] = last[d]
  BY StreamWrites
<1>2. \A u : Removed(u)' = Removed(u)
  BY DEF Removed, feedVars
<1>3. EventsNumbered'
  BY <1>2 DEF EventInv, EventsNumbered, feedVars
<1>4. ASSUME NEW d \in Calls, MethodOf[d] \in Streams
      PROVE  /\ last'[d] <= Removed(MethodOf[d]) + 1
             /\ last'[d] <= Removed(MethodOf[d]) \/ events[MethodOf[d]] # <<>>
  <2>1. MethodOf[d] \in EventTypes
    BY <1>4, MethodsAssumption
  <2>2. CASE d = c /\ HasEvent(a)
    BY <1>1, <2>1, <2>2, EventTypesFacts DEF StreamMay, HasEvent
  <2>3. CASE d # c \/ ~ HasEvent(a)
    <3>1. last'[d] = last[d]
      BY <1>1, <2>3
    <3> QED
      BY <1>4, <3>1 DEF EventInv, LastWritten
  <2> QED
    BY <2>2, <2>3
<1>5. ASSUME NEW b \in Waiting' PROVE last'[handler'[b].call] <= Removed(handler'[b].method)
  <2>1. CASE b = a
    BY <1>1, <1>5, <2>1 DEF StreamMay
  <2>2. CASE b # a
    <3>1. b \in Waiting /\ b \in Addr /\ handler[b].call \in Calls /\ handler[b].call # None
      BY <1>5, <2>2, WaitingFacts, NoneNotMethod
    <3>2. handler[b].call # c
      BY <2>2, <3>1 DEF EventInv, CallsDistinct
    <3> QED
      BY <1>1, <1>5, <3>1, <3>2 DEF EventInv, LastWritten
  <2> QED
    BY <2>1, <2>2
<1> QED
  BY <1>2, <1>3, <1>4, <1>5 DEF LastWritten, feedVars

(* A stream that the completion queue returns, opened or written to.       *)
LEMMA PolledStreamMay ==
  ASSUME OwnerInv, EventInv, NEW a \in Addr,
         ContinueStream(a) \/ \E n \in Addr : OpenStream(a, n)
  PROVE  StreamMay(a) /\ pc = "polling" /\ a \notin Waiting /\ last' = StreamLast(a) /\ ops[a] = <<>>
<1>1. AsyncNext(a, "ok") /\ handler[a].method \in Streams /\ last' = StreamLast(a)
  BY DEF ContinueStream, OpenStream, IsStreamingRequest
<1>2. pc = "polling" /\ a \notin Waiting
  BY <1>1, WaitingFacts DEF AsyncNext, Done
<1>3. handler[a].call # None /\ ops[a] = <<>>
  BY <1>1, Taken DEF OwnerInv
<1>4. handler[a].call \in Calls /\ MethodOf[handler[a].call] = handler[a].method
  BY <1>3, CallType
<1>5. last[handler[a].call] <= Removed(handler[a].method)
  BY <1>1, <1>2, <1>4 DEF EventInv, LastWritten
<1> QED
  BY <1>1, <1>2, <1>3, <1>4, <1>5 DEF StreamMay

LEMMA PolledStreamEvents ==
  ASSUME OwnerInv, EventInv, NEW a \in Addr,
         ContinueStream(a) \/ \E n \in Addr : OpenStream(a, n)
  PROVE  /\ EventsNumbered' /\ LastWritten' /\ PassedHadNone'
         /\ UNCHANGED feedVars /\ Waiting' = IF HasEvent(a) THEN Waiting ELSE Waiting \cup {a}
         /\ \A b \in Waiting' : handler'[b].call = handler[b].call
<1>1. StreamMay(a) /\ pc = "polling" /\ a \notin Waiting /\ last' = StreamLast(a) /\ ops[a] = <<>>
  BY PolledStreamMay
<1>2. TypeOK /\ waitingStreams \in Seq(Addr)
  BY DEF OwnerInv, TypeOK
<1>3. /\ UNCHANGED <<feedVars, it>> /\ pc' = "streams"
      /\ waitingStreams' = IF HasEvent(a) THEN waitingStreams ELSE Append(waitingStreams, a)
  BY DEF ContinueStream, OpenStream
<1>4. it = 1
  BY <1>1 DEF EventInv, PassedHadNone
<1>5. Waiting' = IF HasEvent(a) THEN Waiting ELSE Waiting \cup {a}
  <2>1. IsInjective(waitingStreams)
    BY DEF OwnerInv
  <2> QED
    BY <1>1, <1>2, <1>3, <2>1, AppendNew DEF Waiting
<1>6. ASSUME NEW b \in Waiting' PROVE handler'[b].call = handler[b].call /\ handler'[b].method = handler[b].method
  <2>1. CASE b = a
    <3>1. CASE ContinueStream(a)
      BY <1>2, <2>1, <3>1 DEF ContinueStream, TypeOK, Handler
    <3>2. ASSUME NEW n \in Addr, OpenStream(a, n)
          PROVE handler'[a].call = handler[a].call /\ handler'[a].method = handler[a].method
      <4>1. a # n
        BY <3>2, Taken DEF OpenStream, OwnerInv
      <4> QED
        BY <1>2, <3>2, <4>1 DEF OpenStream, TypeOK, Handler
    <3> QED
      BY <2>1, <3>1, <3>2
  <2>2. CASE b # a
    <3>1. b \in Waiting /\ b \in Addr /\ ~ IsFree(b)
      BY <1>5, <1>6, <2>2, WaitingFacts
    <3>2. handler'[b] = handler[b]
      BY <1>2, <2>2, <3>1 DEF ContinueStream, OpenStream, TypeOK
    <3> QED
      BY <3>2
  <2> QED
    BY <2>1, <2>2
<1>7. EventsNumbered' /\ LastWritten'
  BY <1>1, <1>3, <1>5, <1>6, StreamStepEvents
<1>8. PassedHadNone'
  <2>1. Len(waitingStreams') \in Nat
    BY <1>2, <1>3, AppendProperties, LenProperties
  <2> QED
    BY <1>3, <1>4, <2>1 DEF PassedHadNone
<1> QED
  BY <1>3, <1>5, <1>6, <1>7, <1>8

(* A waiting stream that the loop visits.                                  *)
LEMMA VisitedStreamMay ==
  ASSUME OwnerInv, EventInv, NEW a \in Addr, VisitStream(a)
  PROVE  /\ StreamMay(a) /\ a \in Waiting /\ last' = StreamLast(a) /\ ops[a] = <<>>
         /\ it \in 1..Len(waitingStreams) /\ waitingStreams[it] = a
<1>1. it \in 1..Len(waitingStreams) /\ waitingStreams[it] = a
  BY DEF VisitStream, OwnerInv, TypeOK
<1>2. a \in Waiting
  BY <1>1, WaitingType
<1>3. handler[a].method \in Streams /\ handler[a].call \in Calls /\ ops[a] = <<>>
  BY <1>2, WaitingFacts
<1>4. MethodOf[handler[a].call] = handler[a].method
  BY <1>3, CallType, NoneNotMethod
<1> QED
  BY <1>1, <1>2, <1>3, <1>4 DEF StreamMay, EventInv, LastWritten, VisitStream

LEMMA VisitedStreamEvents ==
  ASSUME OwnerInv, EventInv, NEW a \in Addr, VisitStream(a)
  PROVE  /\ EventsNumbered' /\ LastWritten' /\ PassedHadNone'
         /\ UNCHANGED feedVars /\ Waiting' = IF HasEvent(a) THEN Waiting \ {a} ELSE Waiting
         /\ \A b \in Waiting' : handler'[b].call = handler[b].call
<1>1. /\ StreamMay(a) /\ a \in Waiting /\ last' = StreamLast(a)
      /\ it \in 1..Len(waitingStreams) /\ waitingStreams[it] = a
  BY VisitedStreamMay
<1>2. TypeOK /\ waitingStreams \in Seq(Addr) /\ IsInjective(waitingStreams) /\ Len(waitingStreams) \in Nat
  BY DEF OwnerInv, TypeOK
<1>3. /\ UNCHANGED feedVars /\ pc = "streams" /\ pc' = "streams"
      /\ HasEvent(a) => waitingStreams' = RemoveAt(waitingStreams, it) /\ it' = it
      /\ ~ HasEvent(a) => waitingStreams' = waitingStreams /\ it' = it + 1
  BY DEF VisitStream
<1>4. Waiting' = IF HasEvent(a) THEN Waiting \ {a} ELSE Waiting
  BY <1>1, <1>2, <1>3, RemoveAtLeaves DEF Waiting
<1>5. ASSUME NEW b \in Addr PROVE handler'[b].call = handler[b].call /\ handler'[b].method = handler[b].method
  BY <1>2 DEF VisitStream, TypeOK, Handler
<1>6. EventsNumbered' /\ LastWritten'
  <2>1. \A b \in Waiting' : (b \in Waiting \/ b = a) /\ (b = a => ~ HasEvent(a)) /\ b \in Addr
    BY <1>4, WaitingType
  <2> QED
    BY <1>1, <1>3, <1>5, <2>1, StreamStepEvents
<1>7. PassedHadNone'
  <2>1. \A j \in 1..it - 1 : events[handler[waitingStreams[j]].method] = <<>>
    BY DEF EventInv, PassedHadNone
  <2>2. CASE HasEvent(a)
    <3>1. /\ Len(waitingStreams') = Len(waitingStreams) - 1
          /\ \A j \in 1..it - 1 : waitingStreams'[j] = waitingStreams[j]
      <4>1. /\ Len(RemoveAt(waitingStreams, it)) = Len(waitingStreams) - 1
            /\ \A j \in 1..Len(waitingStreams) - 1 :
                 RemoveAt(waitingStreams, it)[j] = waitingStreams[IF j < it THEN j ELSE j + 1]
        BY <1>1, <1>2, RemoveAtType
      <4>2. \A j \in 1..it - 1 : j \in 1..Len(waitingStreams) - 1 /\ j < it
        BY <1>1, <1>2
      <4>3. waitingStreams' = RemoveAt(waitingStreams, it)
        BY <1>3, <2>2
      <4> QED
        BY <4>1, <4>2, <4>3
    <3>2. \A j \in 1..it - 1 : waitingStreams[j] \in Addr
      BY <1>1, <1>2
    <3> QED
      BY <1>1, <1>2, <1>3, <1>5, <2>1, <2>2, <3>1, <3>2 DEF PassedHadNone, feedVars
  <2>3. CASE ~ HasEvent(a)
    <3>1. \A j \in 1..it : j \in 1..it - 1 \/ j = it
      BY <1>1, <1>2
    <3>2. \A j \in 1..it : waitingStreams[j] \in Addr
      BY <1>1, <1>2
    <3>3. \A j \in 1..it : events[handler[waitingStreams[j]].method] = <<>>
      BY <1>1, <2>1, <2>3, <3>1 DEF HasEvent
    <3> QED
      BY <1>1, <1>2, <1>3, <1>5, <2>3, <3>2, <3>3 DEF PassedHadNone, feedVars
  <2> QED
    BY <2>2, <2>3
<1> QED
  BY <1>3, <1>4, <1>5, <1>6, <1>7, WaitingType

LEMMA NextEvents ==
  ASSUME OwnerInv, EventInv, FreedReads \subseteq {"COMPLETED"}, [Next]_vars
  PROVE  EventInv'
<1>1. CallsDistinct'
  BY CallsStayDistinct DEF EventInv
<1>2. EventsNumbered' /\ LastWritten' /\ PassedHadNone'
  <2>1. CASE QuietStep
    BY <2>1, QuietSteps, QuietEvents
  <2>2. CASE \E t \in EventTypes : PushEvent(t)
    BY <2>2, PushEvents
  <2>3. CASE RemoveEvents
    BY <2>3, RemoveEventsEvents
  <2>4. CASE \E a \in Addr : ContinueStream(a) \/ \E n \in Addr : OpenStream(a, n)
    BY <2>4, PolledStreamEvents
  <2>5. CASE \E a \in Addr : VisitStream(a)
    BY <2>5, VisitedStreamEvents
  <2> QED
    BY <2>1, <2>2, <2>3, <2>4, <2>5, StepKinds
<1> QED
  BY <1>1, <1>2 DEF EventInv

LEMMA InitEvents == Init => EventInv
<1> SUFFICES ASSUME Init PROVE EventInv
  OBVIOUS
<1>1. CallsDistinct
  BY DEF Init, CallsDistinct, Freed
<1>2. \A t \in EventTypes : events[t] = <<>> /\ pushed[t] = 0 /\ Len(events[t]) = 0
  BY EmptySeq DEF Init
<1>3. EventsNumbered
  BY <1>2 DEF EventsNumbered
<1>4. LastWritten
  <2>1. Waiting = {}
    BY EmptySeq DEF Init, Waiting, ToSet
  <2>2. \A c \in Calls : last[c] = 0
    BY DEF Init
  <2>3. \A c \in Calls : MethodOf[c] \in Streams => Removed(MethodOf[c]) = 0
    BY <1>2, MethodsAssumption DEF Removed
  <2> QED
    BY <2>1, <2>2, <2>3 DEF LastWritten
<1>5. PassedHadNone
  BY EmptySeq DEF Init, PassedHadNone
<1> QED
  BY <1>1, <1>3, <1>4, <1>5 DEF EventInv

LEMMA EventInvariant ==
  ASSUME FreedReads \subseteq {"COMPLETED"}
  PROVE  Spec => [](OwnerInv /\ EventInv)
<1>1. Init => OwnerInv /\ EventInv
  BY InitOwner, InitEvents
<1>2. (OwnerInv /\ EventInv) /\ [Next]_vars => (OwnerInv /\ EventInv)'
  BY NextOwner, NextEvents
<1> QED
  BY <1>1, <1>2, PTL DEF Spec

(* Who writes: a stream that has an event, in one of its three steps.      *)
LEMMA WritersAre ==
  ASSUME OwnerInv, OwnerInv', [Next]_vars, NEW a \in Addr, ops'[a] = Append(ops[a], "write")
  PROVE  /\ HasEvent(a)
         /\ ContinueStream(a) \/ VisitStream(a) \/ \E n \in Addr : OpenStream(a, n)
<1>1. TypeOK /\ ops[a] \in Seq(OpKinds) /\ ops \in [Addr -> Seq(OpKinds)]
  BY DEF OwnerInv, TypeOK, OpKinds
<1>2. ops'[a] # ops[a] /\ Len(ops'[a]) = Len(ops[a]) + 1
  BY <1>1, AppendProperties DEF OpKinds
<1>3. ops[a] = <<>> /\ ops'[a] = Op("write")
  <2>1. ops'[a] = <<>> \/ \E k \in OpKinds : ops'[a] = Op(k)
    BY DEF OwnerInv, HandlerInv, OnePlace
  <2>2. Len(ops'[a]) <= 1
    BY <2>1 DEF Op
  <2>3. ops[a] = <<>>
    BY <1>1, <1>2, <2>2, LenProperties, EmptySeq
  <2> QED
    BY <2>3, OpFacts DEF OpKinds
<1>4. Op("write") # <<>> /\ Op("write") # Op("accept") /\ Op("write") # Op("finish")
  BY OpFacts DEF OpKinds
<1>5. CASE Run
  BY <1>3, <1>4, <1>5 DEF Run, Op
<1>6. CASE (\E t \in EventTypes : PushEvent(t)) \/ EnterHandle \/ AsyncNextTimeout \/ RemoveEvents
           \/ (\E c \in Calls : ClientCall(c) \/ ClientCancel(c)) \/ UNCHANGED vars
           \/ \E b \in Addr : FreeUnary(b) \/ HandleFailure(b)
  BY <1>2, <1>6 DEF PushEvent, EnterHandle, AsyncNextTimeout, RemoveEvents, ClientCall, ClientCancel,
     FreeUnary, HandleFailure, vars
<1>7. ASSUME NEW b \in Addr, NEW n \in Addr, ServeUnary(b, n) \/ ThrowUnary(b, n)
      PROVE  FALSE
  <2>1. Append(<<>>, "accept") = Op("accept") /\ Append(<<>>, "finish") = Op("finish")
    BY OpFacts DEF OpKinds
  <2> QED
    BY <1>1, <1>2, <1>3, <1>4, <1>7, <2>1 DEF ServeUnary, ThrowUnary
<1>8. ASSUME NEW b \in Addr, (\E c \in Calls : AcceptCall(b, c)) \/ CompleteOp(b)
      PROVE  FALSE
  <2>1. PICK i \in DOMAIN ops[b] : ops' = [ops EXCEPT ![b] = RemoveAt(@, i)]
    BY <1>8 DEF AcceptCall, CompleteOp
  <2>2. b = a
    BY <1>1, <1>2, <2>1
  <2> QED
    BY <1>3, <2>1, <2>2
<1>9. ASSUME NEW b \in Addr, ContinueStream(b) \/ VisitStream(b) \/ \E n \in Addr : OpenStream(b, n)
      PROVE  HasEvent(a) /\ b = a
  <2>1. CASE ContinueStream(b) \/ VisitStream(b)
    BY <1>1, <1>2, <1>9, <2>1 DEF ContinueStream, VisitStream, StreamOps
  <2>2. ASSUME NEW n \in Addr, OpenStream(b, n) PROVE HasEvent(a) /\ b = a
    <3>1. StreamOps(b) \in [Addr -> Seq(OpKinds)]
      <4>1. IsStreamingRequest(b)
        BY <2>2 DEF OpenStream
      <4> QED
        BY <1>1, <4>1, StreamStepType DEF OpKinds
    <3>2. \A x \in Addr : ops'[x] = IF x = n THEN Append(StreamOps(b)[n], "accept") ELSE StreamOps(b)[x]
      BY <2>2, <3>1 DEF OpenStream
    <3>3. \A x \in Addr : x # b \/ ~ HasEvent(b) => StreamOps(b)[x] = ops[x]
      BY <1>1 DEF StreamOps
    <3>4. n # b
      BY <2>2, Taken DEF OpenStream, OwnerInv
    <3>5. a # n
      <4>1. StreamOps(b)[n] = ops[n]
        BY <3>3, <3>4
      <4>2. Append(<<>>, "accept") = Op("accept")
        BY OpFacts DEF OpKinds
      <4> QED
        BY <1>3, <1>4, <3>2, <4>1, <4>2
    <3> QED
      BY <1>2, <3>2, <3>3, <3>5
  <2> QED
    BY <1>9, <2>1, <2>2
<1> QED
  BY <1>5, <1>6, <1>7, <1>8, <1>9 DEF Next, HandleStep, Dispatch, Runtime

LEMMA WritesInOrder ==
  ASSUME OwnerInv, EventInv, FreedReads \subseteq {"COMPLETED"}, [Next]_vars,
         NEW a \in Addr, ops'[a] = Append(ops[a], "write")
  PROVE  LET c == handler[a].call
         IN  last[c] < last'[c] /\ last'[c] <= pushed[MethodOf[c]]
<1>1. HasEvent(a) /\ (ContinueStream(a) \/ VisitStream(a) \/ \E n \in Addr : OpenStream(a, n))
  BY WritersAre, NextOwner
<1>2. StreamMay(a) /\ last' = StreamLast(a)
  BY <1>1, PolledStreamMay, VisitedStreamMay
<1>3. /\ last'[handler[a].call] = Removed(handler[a].method) + 1
      /\ Removed(handler[a].method) + 1 <= pushed[handler[a].method]
  BY <1>1, <1>2, StreamWrites
<1>4. last[handler[a].call] \in Nat /\ Removed(handler[a].method) \in Nat
  BY <1>2, LastType, EventTypesFacts, MethodsAssumption DEF StreamMay
<1> QED
  BY <1>2, <1>3, <1>4 DEF StreamMay

(* A stream is never sent an event twice, nor an older one after a newer   *)
(* one, nor one that was not pushed (Server.h:42, Server.cpp:537), for any *)
(* number of subscribers and events and any order in which writes end.     *)
THEOREM InOrderCorrect ==
  ASSUME FreedReads \subseteq {"COMPLETED"}
  PROVE  Spec => InOrder
<1>1. OwnerInv /\ EventInv /\ [Next]_vars =>
        [\A a \in Addr : ops'[a] = Append(ops[a], "write") =>
           LET c == handler[a].call
           IN  last[c] < last'[c] /\ last'[c] <= pushed[MethodOf[c]]]_vars
  BY WritesInOrder
<1> QED
  BY <1>1, EventInvariant, PTL DEF Spec, InOrder

LEMMA DropsAreDue ==
  ASSUME OwnerInv, EventInv, [Next]_vars, NEW t \in Streams, Len(events'[t]) < Len(events[t]),
         NEW a \in Waiting
  PROVE  handler[a].method # t
<1>1. t \in EventTypes
  BY MethodsAssumption
<1>2. Len(events[t]) \in Nat /\ events[t] \in Seq(Nat) /\ events \in [EventTypes -> Seq(Nat)]
      /\ pushed \in [EventTypes -> Nat]
  BY <1>1 DEF OwnerInv, TypeOK
<1>3. events'[t] # events[t]
  BY <1>2
<1>4. ASSUME NEW u \in EventTypes, PushEvent(u) PROVE FALSE
  <2>1. events' = [events EXCEPT ![u] = Append(@, pushed[u] + 1)]
    BY <1>2, <1>4 DEF PushEvent
  <2>2. events'[t] = Append(events[t], pushed[t] + 1)
    BY <1>1, <1>2, <1>3, <2>1
  <2>3. Len(events'[t]) = Len(events[t]) + 1
    BY <1>1, <1>2, <2>2, AppendProperties
  <2> QED
    BY <1>2, <2>3
<1>5. RemoveEvents
  BY <1>3, <1>4 DEF Next, HandleStep, Dispatch, Runtime, Run, EnterHandle, AsyncNextTimeout, ServeUnary,
     ThrowUnary, OpenStream, FreeUnary, ContinueStream, HandleFailure, VisitStream, ClientCall, ClientCancel,
     AcceptCall, CompleteOp, feedVars, vars
<1>6. events[t] # <<>>
  BY <1>2, EmptySeq
<1>7. PICK j \in 1..Len(waitingStreams) : waitingStreams[j] = a
  BY WaitingType
<1>8. j \in 1..it - 1
  BY <1>5, WaitingType, LenProperties DEF RemoveEvents, OwnerInv, TypeOK
<1> QED
  BY <1>6, <1>7, <1>8 DEF EventInv, PassedHadNone

(* Handle drops an event only when no stream of its type waits             *)
(* (Server.cpp:525-540), although the loop erases entries as it goes.      *)
THEOREM NoMissedEventCorrect ==
  ASSUME FreedReads \subseteq {"COMPLETED"}
  PROVE  Spec => NoMissedEvent
<1>1. OwnerInv /\ EventInv /\ [Next]_vars =>
        [\A t \in Streams : Len(events'[t]) < Len(events[t]) =>
           \A a \in Waiting : handler[a].method # t]_vars
  BY DropsAreDue
<1> QED
  BY <1>1, EventInvariant, PTL DEF Spec, NoMissedEvent
-----------------------------------------------------------------------------
(* RPCServer implements EventFeed: every step is one that EventFeed allows, *)
(* or changes nothing that it sees.                                        *)

(* The feed's variables, as the server holds them.                         *)
Dropped == [t \in EventTypes |-> Removed(t)]
Sent == [c \in Subscribers |-> last[c]]
Waiters == {handler[a].call : a \in Waiting}

LEMMA FeedInit == Init => Feed!Init
<1> SUFFICES ASSUME Init PROVE Feed!Init
  OBVIOUS
<1>1. pushed = [t \in EventTypes |-> 0]
  BY DEF Init
<1>2. \A t \in EventTypes : Removed(t) = 0
  BY EmptySeq DEF Init, Removed
<1>3. Sent = [c \in Subscribers |-> 0]
  BY DEF Init, Sent, Subscribers
<1>4. Waiters = {}
  BY EmptySeq DEF Init, Waiters, Waiting, ToSet
<1> QED
  BY <1>1, <1>2, <1>3, <1>4 DEF Feed!Init, Sent, Waiters

LEMMA FeedPending ==
  ASSUME OwnerInv, EventInv, NEW t \in EventTypes
  PROVE  Feed!Pending(t) <=> events[t] # <<>>
<1>1. /\ Len(events[t]) \in Nat /\ pushed[t] \in Nat /\ events[t] \in Seq(Nat)
      /\ events[t] # <<>> => Len(events[t]) > 0
  BY EventTypesFacts
<1>2. events[t] = <<>> => Len(events[t]) = 0
  BY <1>1, EmptySeq
<1>3. Feed!Pending(t) <=> pushed[t] - Len(events[t]) < pushed[t]
  BY DEF Feed!Pending, Removed
<1> QED
  BY <1>1, <1>2, <1>3

LEMMA FeedQuiet ==
  ASSUME OwnerInv, Quiet
  PROVE  UNCHANGED Feed!vars
<1>1. UNCHANGED <<pushed, Dropped, Sent>>
  BY DEF Quiet, Dropped, Sent, Removed
<1>2. Waiters' = Waiters
  <2>1. Waiting' = Waiting
    BY DEF Quiet, Waiting
  <2> QED
    BY <2>1 DEF Quiet, Waiters
<1> QED
  BY <1>1, <1>2 DEF Feed!vars, Dropped, Sent, Waiters

LEMMA FeedPublish ==
  ASSUME OwnerInv, EventInv, NEW t \in EventTypes, PushEvent(t)
  PROVE  Feed!Publish(t)
<1>1. /\ pushed' = [pushed EXCEPT ![t] = @ + 1]
      /\ UNCHANGED <<last, handler, waitingStreams>>
  BY DEF PushEvent, serverVars
<1>2. ASSUME NEW u \in EventTypes PROVE Removed(u)' = Removed(u)
  <2>1. pushed \in [EventTypes -> Nat] /\ events \in [EventTypes -> Seq(Nat)]
    BY DEF OwnerInv, TypeOK
  <2>2. events' = [events EXCEPT ![t] = Append(@, pushed[t] + 1)]
    BY <1>1, <2>1 DEF PushEvent
  <2>3. CASE u = t
    <3>1. events'[t] = Append(events[t], pushed[t] + 1) /\ pushed'[t] = pushed[t] + 1
      BY <1>1, <2>1, <2>2
    <3>2. Len(events'[t]) = Len(events[t]) + 1 /\ Len(events[t]) \in Nat
      BY <2>1, <3>1, AppendProperties
    <3> QED
      BY <2>1, <2>3, <3>1, <3>2 DEF Removed
  <2>4. CASE u # t
    BY <1>1, <2>1, <2>2, <2>4 DEF Removed
  <2> QED
    BY <2>3, <2>4
<1>3. UNCHANGED <<Dropped, Sent, Waiters>>
  BY <1>1, <1>2 DEF Dropped, Sent, Waiters, Waiting
<1> QED
  BY <1>1, <1>3 DEF Feed!Publish, Dropped, Sent, Waiters

(* A stream that is proceeded is delivered an event, or waits.             *)
LEMMA FeedStream ==
  ASSUME OwnerInv, EventInv, NEW a \in Addr, StreamMay(a), last' = StreamLast(a), UNCHANGED feedVars,
         \A b \in Waiting' : handler'[b].call = handler[b].call,
         HasEvent(a) => Waiting' = Waiting \ {a},
         ~ HasEvent(a) => Waiting' = Waiting \cup {a}
  PROVE  \/ \E s \in Subscribers : Feed!Deliver(s) \/ Feed!Wait(s)
         \/ UNCHANGED Feed!vars
<1> PICK c : c = handler[a].call
  OBVIOUS
<1> PICK t : t = handler[a].method
  OBVIOUS
<1>1. c \in Subscribers /\ MethodOf[c] = t /\ t \in EventTypes /\ c # None
  BY MethodsAssumption, NoneNotMethod DEF StreamMay, Subscribers
<1>2. UNCHANGED <<pushed, Dropped>>
  BY DEF feedVars, Dropped, Removed
<1>3. \A b \in Waiting : b \in Addr /\ (handler[b].call = c => b = a)
  BY <1>1, WaitingType DEF EventInv, CallsDistinct
<1>4. CASE HasEvent(a)
  <2>1. Feed!Pending(t)
    BY <1>1, <1>4, FeedPending DEF HasEvent
  <2>2. last'[c] = Removed(t) + 1 /\ \A d \in Calls \ {c} : last'[d] = last[d]
    BY <1>4, StreamWrites
  <2>3. Sent' = [Sent EXCEPT ![c] = Dropped[t] + 1]
    BY <1>1, <2>2 DEF Sent, Dropped, Subscribers
  <2>4. Sent[c] <= Dropped[t]
    BY <1>1 DEF Sent, Dropped, StreamMay
  <2>5. Waiters' = Waiters \ {c}
    BY <1>3, <1>4 DEF Waiters
  <2>6. Feed!Deliver(c)
    BY <1>1, <1>2, <2>1, <2>3, <2>4, <2>5 DEF Feed!Deliver, Dropped, Sent, Waiters
  <2> QED
    BY <1>1, <2>6
<1>5. CASE ~ HasEvent(a)
  <2>1. ~ Feed!Pending(t)
    BY <1>1, <1>5, FeedPending DEF HasEvent
  <2>2. Sent' = Sent
    BY <1>5, StreamWrites DEF Sent
  <2>3. Waiters' = Waiters \cup {c}
    BY <1>5 DEF Waiters
  <2>4. CASE c \in Waiters
    <3>1. Waiters' = Waiters
      BY <2>3, <2>4
    <3> QED
      BY <1>2, <2>2, <3>1 DEF Feed!vars, Dropped, Sent, Waiters
  <2>5. CASE c \notin Waiters
    <3>1. Feed!Wait(c)
      BY <1>1, <1>2, <2>1, <2>2, <2>3, <2>5 DEF Feed!Wait, Dropped, Sent, Waiters
    <3> QED
      BY <1>1, <3>1
  <2> QED
    BY <2>4, <2>5
<1> QED
  BY <1>4, <1>5

(* The end of a frame.                                                     *)
LEMMA FeedDrop ==
  ASSUME OwnerInv, EventInv, RemoveEvents
  PROVE  Feed!DropFronts
<1>1. UNCHANGED <<pushed, last, handler, waitingStreams>>
  BY DEF RemoveEvents
<1>2. ASSUME NEW t \in EventTypes
      PROVE Removed(t)' = IF Feed!Pending(t) THEN Removed(t) + 1 ELSE Removed(t)
  <2>1. /\ events[t] \in Seq(Nat) /\ Len(events[t]) \in Nat /\ pushed[t] \in Nat
    BY EventTypesFacts
  <2>2. CASE events[t] = <<>>
    <3>1. events'[t] = events[t]
      BY <2>2 DEF RemoveEvents
    <3> QED
      BY <1>1, <2>2, <3>1, FeedPending DEF Removed
  <2>3. CASE events[t] # <<>>
    <3>1. events'[t] = Tail(events[t])
      BY <2>3 DEF RemoveEvents
    <3>2. Len(events'[t]) = Len(events[t]) - 1
      BY <2>1, <2>3, <3>1, HeadTailProperties
    <3>3. Removed(t)' = Removed(t) + 1
      BY <1>1, <2>1, <3>2 DEF Removed
    <3> QED
      BY <2>3, <3>3, FeedPending
  <2> QED
    BY <2>2, <2>3
<1>3. ASSUME NEW s \in Waiters PROVE ~ Feed!Pending(MethodOf[s])
  <2>1. PICK a \in Waiting : s = handler[a].call
    BY DEF Waiters
  <2>2. handler[a].method \in EventTypes /\ MethodOf[s] = handler[a].method
    BY <2>1, WaitingFacts, CallType, NoneNotMethod, MethodsAssumption
  <2>3. events[handler[a].method] = <<>>
    <3>1. PICK j \in 1..Len(waitingStreams) : waitingStreams[j] = a
      BY WaitingType
    <3>2. j \in 1..it - 1
      BY WaitingType, LenProperties DEF RemoveEvents, OwnerInv, TypeOK
    <3> QED
      BY <3>1, <3>2 DEF EventInv, PassedHadNone
  <2> QED
    BY <2>2, <2>3, FeedPending
<1>4. Dropped' = [t \in EventTypes |-> IF Feed!Pending(t) THEN Dropped[t] + 1 ELSE Dropped[t]]
  BY <1>2 DEF Dropped
<1>5. UNCHANGED <<pushed, Sent, Waiters>>
  BY <1>1 DEF Sent, Waiters, Waiting
<1> QED
  BY <1>3, <1>4, <1>5 DEF Feed!DropFronts, Dropped, Sent, Waiters

LEMMA FeedStep ==
  ASSUME OwnerInv, EventInv, FreedReads \subseteq {"COMPLETED"}, [Next]_vars
  PROVE  [Feed!Next]_Feed!vars
<1>1. CASE QuietStep
  BY <1>1, QuietSteps, FeedQuiet
<1>2. CASE \E t \in EventTypes : PushEvent(t)
  BY <1>2, FeedPublish DEF Feed!Next
<1>3. CASE RemoveEvents
  BY <1>3, FeedDrop DEF Feed!Next
<1>4. ASSUME NEW a \in Addr, ContinueStream(a) \/ \E n \in Addr : OpenStream(a, n)
      PROVE  [Feed!Next]_Feed!vars
  <2>1. StreamMay(a) /\ last' = StreamLast(a) /\ a \notin Waiting
    BY <1>4, PolledStreamMay
  <2>2. /\ UNCHANGED feedVars /\ Waiting' = IF HasEvent(a) THEN Waiting ELSE Waiting \cup {a}
        /\ \A b \in Waiting' : handler'[b].call = handler[b].call
    BY <1>4, PolledStreamEvents
  <2>3. (\E s \in Subscribers : Feed!Deliver(s) \/ Feed!Wait(s)) \/ UNCHANGED Feed!vars
    BY <2>1, <2>2, FeedStream
  <2> QED
    BY <2>3 DEF Feed!Next
<1>5. ASSUME NEW a \in Addr, VisitStream(a)
      PROVE  [Feed!Next]_Feed!vars
  <2>1. StreamMay(a) /\ last' = StreamLast(a) /\ a \in Waiting
    BY <1>5, VisitedStreamMay
  <2>2. /\ UNCHANGED feedVars /\ Waiting' = IF HasEvent(a) THEN Waiting \ {a} ELSE Waiting
        /\ \A b \in Waiting' : handler'[b].call = handler[b].call
    BY <1>5, VisitedStreamEvents
  <2>3. (\E s \in Subscribers : Feed!Deliver(s) \/ Feed!Wait(s)) \/ UNCHANGED Feed!vars
    BY <2>1, <2>2, FeedStream
  <2> QED
    BY <2>3 DEF Feed!Next
<1> QED
  BY <1>1, <1>2, <1>3, <1>4, <1>5, StepKinds

(* The streams of the server keep what EventFeed promises: subscribers are *)
(* sent ever newer events, each while it is the oldest there is, and       *)
(* nothing is dropped in front of one that waits (Server.cpp:525-540).     *)
THEOREM FeedImplemented ==
  ASSUME FreedReads \subseteq {"COMPLETED"}
  PROVE  Spec => ImplementsFeed
<1>1. Init => Feed!Init
  BY FeedInit
<1>2. OwnerInv /\ EventInv /\ [Next]_vars => [Feed!Next]_Feed!vars
  BY FeedStep
<1> QED
  BY <1>1, <1>2, EventInvariant, PTL DEF Spec, ImplementsFeed, Feed!Spec
=============================================================================
