-------------------------- MODULE RPCServerProofs --------------------------
(***************************************************************************)
(* What holds of RPCServer for any methods, calls, addresses and events:   *)
(* its types, and that each handler is in one place of its life at a time, *)
(* from which four of its invariants follow.                               *)
(***************************************************************************)
EXTENDS RPCServer, SequenceTheorems, TLAPS

-----------------------------------------------------------------------------
(* Lemmas about sequences.                                                 *)

LEMMA RemoveAtType ==
  ASSUME NEW S, NEW s \in Seq(S), NEW i \in 1..Len(s)
  PROVE  /\ RemoveAt(s, i) \in Seq(S)
         /\ Len(RemoveAt(s, i)) = Len(s) - 1
         /\ \A j \in 1..Len(s) - 1 : RemoveAt(s, i)[j] = s[IF j < i THEN j ELSE j + 1]
<1> DEFINE u == SubSeq(s, 1, i - 1)
           v == SubSeq(s, i + 1, Len(s))
<1>0. Len(s) \in Nat /\ i \in Nat
  OBVIOUS
<1>1. u \in Seq(S) /\ Len(u) = i - 1 /\ \A j \in 1..i - 1 : u[j] = s[j]
  BY <1>0
<1>2. v \in Seq(S) /\ Len(v) = Len(s) - i /\ \A j \in 1..Len(s) - i : v[j] = s[i + j]
  BY <1>0
<1>3. RemoveAt(s, i) = u \o v
  BY DEF RemoveAt
<1> HIDE DEF u, v
<1>4. u \o v \in Seq(S) /\ Len(u \o v) = Len(s) - 1
  <2>1. u \o v \in Seq(S) /\ Len(u \o v) = Len(u) + Len(v)
    BY <1>1, <1>2, ConcatProperties, Zenon
  <2> QED
    BY <1>0, <1>1, <1>2, <2>1
<1>5. ASSUME NEW j \in 1..Len(s) - 1
      PROVE (u \o v)[j] = s[IF j < i THEN j ELSE j + 1]
  <2>1. CASE j < i
    BY <1>0, <1>1, <1>2, <2>1, ConcatProperties
  <2>2. CASE j >= i
    <3>1. (u \o v)[j] = v[j - (i - 1)]
      BY <1>0, <1>1, <1>2, <2>2, ConcatProperties
    <3>2. j - (i - 1) \in 1..Len(s) - i
      BY <1>0, <2>2
    <3> QED
      BY <1>0, <1>2, <2>2, <3>1, <3>2
  <2>3. j < i \/ j >= i
    BY <1>0
  <2> QED
    BY <2>1, <2>2, <2>3, Zenon
<1> QED
  BY <1>3, <1>4, <1>5

LEMMA ToSetType ==
  ASSUME NEW S, NEW s \in Seq(S)
  PROVE  ToSet(s) \subseteq S
  BY DEF ToSet

LEMMA AppendNew ==
  ASSUME NEW S, NEW s \in Seq(S), NEW x \in S, x \notin ToSet(s), IsInjective(s)
  PROVE  IsInjective(Append(s, x)) /\ ToSet(Append(s, x)) = ToSet(s) \cup {x}
<1>1. /\ Append(s, x) \in Seq(S) /\ Len(Append(s, x)) = Len(s) + 1 /\ Len(s) \in Nat
      /\ \A i \in 1..Len(s) : Append(s, x)[i] = s[i]
      /\ Append(s, x)[Len(s) + 1] = x
  BY AppendProperties, LenProperties
<1>2. DOMAIN s = 1..Len(s) /\ DOMAIN Append(s, x) = 1..Len(s) + 1
  BY <1>1, LenProperties
<1>3. ToSet(Append(s, x)) = ToSet(s) \cup {x}
  <2>1. \A i \in 1..Len(s) + 1 : i \in 1..Len(s) \/ i = Len(s) + 1
    BY <1>1
  <2> QED
    BY <1>1, <1>2, <2>1 DEF ToSet
<1>4. IsInjective(Append(s, x))
  BY <1>1, <1>2 DEF IsInjective, ToSet
<1> QED
  BY <1>3, <1>4

LEMMA RemoveAtLeaves ==
  ASSUME NEW S, NEW s \in Seq(S), NEW i \in 1..Len(s), IsInjective(s)
  PROVE  IsInjective(RemoveAt(s, i)) /\ ToSet(RemoveAt(s, i)) = ToSet(s) \ {s[i]}
<1> DEFINE r == RemoveAt(s, i)
<1>1. /\ r \in Seq(S) /\ Len(r) = Len(s) - 1
      /\ \A j \in 1..Len(s) - 1 : r[j] = s[IF j < i THEN j ELSE j + 1]
  BY RemoveAtType
<1>2. Len(s) \in Nat /\ DOMAIN s = 1..Len(s) /\ DOMAIN r = 1..Len(s) - 1
  BY <1>1, LenProperties
<1> HIDE DEF r
<1>3. IsInjective(r)
  <2> SUFFICES ASSUME NEW a \in 1..Len(s) - 1, NEW b \in 1..Len(s) - 1, r[a] = r[b] PROVE a = b
    BY <1>2 DEF IsInjective
  <2> DEFINE at(j) == IF j < i THEN j ELSE j + 1
  <2>1. at(a) \in 1..Len(s) /\ at(b) \in 1..Len(s) /\ (at(a) = at(b) => a = b)
    BY <1>2
  <2>2. s[at(a)] = s[at(b)]
    BY <1>1
  <2> HIDE DEF at
  <2> QED
    BY <1>2, <2>1, <2>2 DEF IsInjective
<1>4. ASSUME NEW x PROVE x \in ToSet(r) => x \in ToSet(s) \ {s[i]}
  BY <1>1, <1>2 DEF ToSet, IsInjective
<1>5. ASSUME NEW x PROVE x \in ToSet(s) \ {s[i]} => x \in ToSet(r)
  <2> SUFFICES ASSUME NEW k \in 1..Len(s), s[k] # s[i] PROVE s[k] \in ToSet(r)
    BY <1>2 DEF ToSet
  <2>1. CASE k < i
    BY <1>1, <1>2, <2>1 DEF ToSet
  <2>2. CASE k > i
    <3>1. k - 1 \in 1..Len(s) - 1 /\ r[k - 1] = s[k]
      BY <1>1, <1>2, <2>2
    <3> QED
      BY <1>2, <3>1 DEF ToSet
  <2> QED
    BY <1>2, <2>1, <2>2
<1> QED
  BY <1>3, <1>4, <1>5 DEF r

-----------------------------------------------------------------------------
(* Type correctness.                                                       *)

LEMMA NewHandlerType ==
  ASSUME NEW m \in Methods
  PROVE  NewHandler(m) \in Handler
  BY DEF NewHandler, Handler, CallStatus, CompletionState

LEMMA FreedType == Freed \in Handler
  BY DEF Freed, Handler, CallStatus, CompletionState

LEMMA InitType == Init => TypeOK
<1> SUFFICES ASSUME Init PROVE TypeOK
  OBVIOUS
<1>1. handler \in [Addr -> Handler]
  BY FreedType DEF Init
<1>2. ops \in [Addr -> Seq({"accept", "write", "finish"})]
  BY EmptySeq, Zenon DEF Init
<1>3. waitingStreams \in Seq(Addr)
  BY EmptySeq, Zenon DEF Init
<1>4. events \in [EventTypes -> Seq(Nat)]
  BY EmptySeq, Zenon DEF Init
<1>5. /\ pushed \in [EventTypes -> Nat]
      /\ rpc \in [Calls -> {"idle", "queued", "open", "answered", "dead"}]
      /\ last \in [Calls -> Nat]
  BY DEF Init
<1>6. pc \in {"outside", "polling", "streams"} /\ it \in Nat \ {0}
  BY DEF Init
<1>7. initialized \in BOOLEAN /\ cq \subseteq [tag : Addr, ok : {"ok", "failed"}]
  BY Zenon DEF Init
<1> QED
  BY <1>1, <1>2, <1>3, <1>4, <1>5, <1>6, <1>7, Zenon DEF TypeOK

LEMMA TypeOKUnchanged == TypeOK /\ UNCHANGED vars => TypeOK'
  BY DEF TypeOK, vars

LEMMA RunType == TypeOK /\ Run => TypeOK'
<1> SUFFICES ASSUME TypeOK, Run PROVE TypeOK'
  OBVIOUS
<1>1. PICK place \in [Methods -> Addr] :
        /\ handler' = [a \in Addr |-> IF \E m \in Methods : place[m] = a
                                      THEN NewHandler(CHOOSE m \in Methods : place[m] = a)
                                      ELSE Freed]
        /\ ops' = [a \in Addr |-> IF \E m \in Methods : place[m] = a THEN <<"accept">> ELSE <<>>]
  BY DEF Run
<1>2. handler' \in [Addr -> Handler]
  <2>1. \A a \in Addr : (IF \E m \in Methods : place[m] = a
                         THEN NewHandler(CHOOSE m \in Methods : place[m] = a)
                         ELSE Freed) \in Handler
    BY NewHandlerType, FreedType
  <2> QED
    BY <1>1, <2>1
<1>3. ops' \in [Addr -> Seq({"accept", "write", "finish"})]
  <2>1. <<"accept">> \in Seq({"accept", "write", "finish"}) /\ <<>> \in Seq({"accept", "write", "finish"})
    OBVIOUS
  <2> QED
    BY <1>1, <2>1
<1> QED
  BY <1>2, <1>3 DEF Run, TypeOK

LEMMA PushEventType == \A t \in EventTypes : TypeOK /\ PushEvent(t) => TypeOK'
  BY DEF TypeOK, PushEvent, serverVars

LEMMA PollType == TypeOK /\ (EnterHandle \/ AsyncNextTimeout) => TypeOK'
  BY DEF TypeOK, EnterHandle, AsyncNextTimeout, feedVars

LEMMA AppendOp ==
  ASSUME NEW f \in [Addr -> Seq({"accept", "write", "finish"})],
         NEW a, NEW k \in {"accept", "write", "finish"}
  PROVE  [f EXCEPT ![a] = Append(@, k)] \in [Addr -> Seq({"accept", "write", "finish"})]
<1>1. ASSUME a \in Addr PROVE Append(f[a], k) \in Seq({"accept", "write", "finish"})
  BY <1>1
<1> QED
  BY <1>1

LEMMA ExceptTwo ==
  ASSUME NEW D, NEW S, NEW f \in [D -> S], NEW a, NEW x, NEW b, NEW y,
         a \in D => x \in S, b \in D => y \in S
  PROVE  [f EXCEPT ![a] = x, ![b] = y] \in [D -> S]
  OBVIOUS

LEMMA AppendTwoOps ==
  ASSUME NEW f \in [Addr -> Seq({"accept", "write", "finish"})],
         NEW a, NEW k \in {"accept", "write", "finish"},
         NEW b, NEW l \in {"accept", "write", "finish"}
  PROVE  [f EXCEPT ![a] = Append(@, k), ![b] = Append(@, l)]
           \in [Addr -> Seq({"accept", "write", "finish"})]
<1>1. a \in Addr => Append(f[a], k) \in Seq({"accept", "write", "finish"})
  OBVIOUS
<1>2. b \in Addr => Append(f[b], l) \in Seq({"accept", "write", "finish"})
  OBVIOUS
<1> QED
  BY <1>1, <1>2, ExceptTwo, Zenon

LEMMA ServeUnaryType == \A a, n \in Addr : TypeOK /\ ServeUnary(a, n) => TypeOK'
<1> SUFFICES ASSUME NEW a \in Addr, NEW n \in Addr, TypeOK, ServeUnary(a, n) PROVE TypeOK'
  OBVIOUS
<1>1. NewHandler(handler[a].method) \in Handler
  BY NewHandlerType DEF ServeUnary, Methods
<1>2. handler' \in [Addr -> Handler]
  BY <1>1 DEF TypeOK, ServeUnary, Handler, CallStatus
<1>3. ops' \in [Addr -> Seq({"accept", "write", "finish"})]
  BY AppendTwoOps DEF TypeOK, ServeUnary
<1> QED
  BY <1>2, <1>3 DEF TypeOK, ServeUnary, AsyncNext, feedVars

LEMMA ThrowUnaryType == \A a, n \in Addr : TypeOK /\ ThrowUnary(a, n) => TypeOK'
<1> SUFFICES ASSUME NEW a \in Addr, NEW n \in Addr, TypeOK, ThrowUnary(a, n) PROVE TypeOK'
  OBVIOUS
<1>1. NewHandler(handler[a].method) \in Handler
  BY NewHandlerType, MethodsAssumption DEF ThrowUnary, Methods
<1>2. handler' \in [Addr -> Handler]
  BY <1>1 DEF TypeOK, ThrowUnary
<1>3. ops' \in [Addr -> Seq({"accept", "write", "finish"})]
  BY AppendOp DEF TypeOK, ThrowUnary
<1> QED
  BY <1>2, <1>3 DEF TypeOK, ThrowUnary, AsyncNext, feedVars

LEMMA FreeUnaryType == \A a \in Addr : TypeOK /\ FreeUnary(a) => TypeOK'
<1> SUFFICES ASSUME NEW a \in Addr, TypeOK, FreeUnary(a) PROVE TypeOK'
  OBVIOUS
<1>1. handler' \in [Addr -> Handler]
  BY FreedType DEF TypeOK, FreeUnary
<1>2. waitingStreams' \in Seq(Addr)
  BY DEF TypeOK, FreeUnary
<1> QED
  BY <1>1, <1>2 DEF TypeOK, FreeUnary, AsyncNext, feedVars

LEMMA StreamStepType ==
  ASSUME TypeOK, NEW a \in Addr, IsStreamingRequest(a)
  PROVE  /\ StreamState(a) \in CompletionState
         /\ StreamOps(a) \in [Addr -> Seq({"accept", "write", "finish"})]
         /\ StreamLast(a) \in [Calls -> Nat]
<1>1. StreamState(a) \in CompletionState
  BY DEF StreamState, CompletionState
<1>2. StreamOps(a) \in [Addr -> Seq({"accept", "write", "finish"})]
  BY AppendOp DEF StreamOps, TypeOK
<1>3. HasEvent(a) => Head(events[handler[a].method]) \in Nat
  BY MethodsAssumption, HeadTailProperties DEF HasEvent, TypeOK, IsStreamingRequest
<1>4. StreamLast(a) \in [Calls -> Nat]
  BY <1>3 DEF StreamLast, TypeOK
<1> QED
  BY <1>1, <1>2, <1>4

LEMMA OpenStreamType == \A a, n \in Addr : TypeOK /\ OpenStream(a, n) => TypeOK'
<1> SUFFICES ASSUME NEW a \in Addr, NEW n \in Addr, TypeOK, OpenStream(a, n) PROVE TypeOK'
  OBVIOUS
<1>1. /\ StreamState(a) \in CompletionState
      /\ StreamOps(a) \in [Addr -> Seq({"accept", "write", "finish"})]
      /\ StreamLast(a) \in [Calls -> Nat]
  BY StreamStepType DEF OpenStream
<1>2. NewHandler(handler[a].method) \in Handler
  BY NewHandlerType DEF OpenStream, IsStreamingRequest, Methods
<1>3. handler' \in [Addr -> Handler]
  BY <1>1, <1>2 DEF TypeOK, OpenStream, Handler, CallStatus
<1>4. ops' \in [Addr -> Seq({"accept", "write", "finish"})]
  BY <1>1, AppendOp DEF OpenStream
<1>5. waitingStreams' \in Seq(Addr)
  BY DEF TypeOK, OpenStream
<1> QED
  BY <1>1, <1>3, <1>4, <1>5 DEF TypeOK, OpenStream, AsyncNext, feedVars

LEMMA ContinueStreamType == \A a \in Addr : TypeOK /\ ContinueStream(a) => TypeOK'
<1> SUFFICES ASSUME NEW a \in Addr, TypeOK, ContinueStream(a) PROVE TypeOK'
  OBVIOUS
<1>1. /\ StreamState(a) \in CompletionState
      /\ StreamOps(a) \in [Addr -> Seq({"accept", "write", "finish"})]
      /\ StreamLast(a) \in [Calls -> Nat]
  BY StreamStepType DEF ContinueStream
<1>2. handler' \in [Addr -> Handler]
  BY <1>1 DEF TypeOK, ContinueStream, Handler
<1>3. waitingStreams' \in Seq(Addr)
  BY DEF TypeOK, ContinueStream
<1> QED
  BY <1>1, <1>2, <1>3 DEF TypeOK, ContinueStream, AsyncNext, feedVars

LEMMA HandleFailureType == \A a \in Addr : TypeOK /\ HandleFailure(a) => TypeOK'
<1> SUFFICES ASSUME NEW a \in Addr, TypeOK, HandleFailure(a) PROVE TypeOK'
  OBVIOUS
<1>1. handler' \in [Addr -> Handler]
  BY FreedType DEF TypeOK, HandleFailure
<1> QED
  BY <1>1 DEF TypeOK, HandleFailure, AsyncNext, feedVars

LEMMA VisitStreamType == \A a \in Addr : TypeOK /\ VisitStream(a) => TypeOK'
<1> SUFFICES ASSUME NEW a \in Addr, TypeOK, VisitStream(a) PROVE TypeOK'
  OBVIOUS
<1>1. /\ StreamState(a) \in CompletionState
      /\ StreamOps(a) \in [Addr -> Seq({"accept", "write", "finish"})]
      /\ StreamLast(a) \in [Calls -> Nat]
  BY StreamStepType DEF VisitStream
<1>2. handler' \in [Addr -> Handler]
  <2>0. handler[a] \in Handler
    BY DEF TypeOK
  <2>1. [handler[a] EXCEPT !.state = StreamState(a)] \in Handler
    BY <1>1, <2>0 DEF Handler
  <2>2. handler' = [handler EXCEPT ![a] = [handler[a] EXCEPT !.state = StreamState(a)]]
    BY DEF VisitStream
  <2>3. handler \in [Addr -> Handler]
    BY DEF TypeOK
  <2> QED
    BY <2>1, <2>2, <2>3
<1>3. waitingStreams' \in Seq(Addr) /\ it' \in Nat \ {0}
  BY RemoveAtType DEF TypeOK, VisitStream
<1> QED
  BY <1>1, <1>2, <1>3 DEF TypeOK, VisitStream, feedVars

LEMMA RemoveEventsType == TypeOK /\ RemoveEvents => TypeOK'
<1> SUFFICES ASSUME TypeOK, RemoveEvents PROVE TypeOK'
  OBVIOUS
<1>1. \A t \in EventTypes :
        (IF events[t] = <<>> THEN <<>> ELSE Tail(events[t])) \in Seq(Nat)
  BY HeadTailProperties, EmptySeq DEF TypeOK
<1>2. events' \in [EventTypes -> Seq(Nat)]
  BY <1>1 DEF RemoveEvents
<1> QED
  BY <1>2 DEF TypeOK, RemoveEvents

LEMMA ClientType == \A c \in Calls : TypeOK /\ (ClientCall(c) \/ ClientCancel(c)) => TypeOK'
  BY DEF TypeOK, ClientCall, ClientCancel, serverVars, feedVars

LEMMA RemoveOp ==
  ASSUME NEW f \in [Addr -> Seq({"accept", "write", "finish"})], NEW a \in Addr, NEW i \in DOMAIN f[a]
  PROVE  [f EXCEPT ![a] = RemoveAt(@, i)] \in [Addr -> Seq({"accept", "write", "finish"})]
<1>1. RemoveAt(f[a], i) \in Seq({"accept", "write", "finish"})
  BY RemoveAtType, LenProperties
<1> QED
  BY <1>1

LEMMA AcceptCallType == \A a \in Addr, c \in Calls : TypeOK /\ AcceptCall(a, c) => TypeOK'
<1> SUFFICES ASSUME NEW a \in Addr, NEW c \in Calls, TypeOK, AcceptCall(a, c) PROVE TypeOK'
  OBVIOUS
<1>1. PICK i \in DOMAIN ops[a] : ops' = [ops EXCEPT ![a] = RemoveAt(@, i)]
  BY DEF AcceptCall
<1>2. ops' \in [Addr -> Seq({"accept", "write", "finish"})]
  BY <1>1, RemoveOp, Zenon DEF TypeOK
<1>3. handler' \in [Addr -> Handler]
  <2>0. handler[a] \in Handler
    BY DEF TypeOK
  <2>1. [handler[a] EXCEPT !.call = c] \in Handler
    BY <2>0 DEF Handler
  <2> QED
    BY <2>1 DEF TypeOK, AcceptCall
<1>4. cq' \subseteq [tag : Addr, ok : {"ok", "failed"}]
  BY DEF TypeOK, AcceptCall
<1>5. rpc' \in [Calls -> {"idle", "queued", "open", "answered", "dead"}]
  BY DEF TypeOK, AcceptCall
<1> QED
  BY <1>2, <1>3, <1>4, <1>5 DEF TypeOK, AcceptCall, serverVars, feedVars

LEMMA CompleteOpType == \A a \in Addr : TypeOK /\ CompleteOp(a) => TypeOK'
<1> SUFFICES ASSUME NEW a \in Addr, TypeOK, CompleteOp(a) PROVE TypeOK'
  OBVIOUS
<1>1. PICK i \in DOMAIN ops[a] :
        /\ ops' = [ops EXCEPT ![a] = RemoveAt(@, i)]
        /\ cq' = cq \cup {[tag |-> a, ok |-> IF rpc[handler[a].call] # "dead" THEN "ok" ELSE "failed"]}
        /\ UNCHANGED <<serverVars, handler, feedVars, last>>
  BY DEF CompleteOp
<1>2. ops' \in [Addr -> Seq({"accept", "write", "finish"})]
  BY <1>1, RemoveOp, Zenon DEF TypeOK
<1>3. rpc' \in [Calls -> {"idle", "queued", "open", "answered", "dead"}]
  BY DEF TypeOK, CompleteOp
<1>4. cq' \subseteq [tag : Addr, ok : {"ok", "failed"}]
  BY <1>1 DEF TypeOK
<1> QED
  BY <1>1, <1>2, <1>3, <1>4 DEF TypeOK, serverVars, feedVars

(* Every value of every variable has its type in every reachable state.    *)
THEOREM TypeCorrect == Spec => []TypeOK
<1>1. Init => TypeOK
  BY InitType
<1>2. TypeOK /\ [Next]_vars => TypeOK'
  <2> SUFFICES ASSUME TypeOK, [Next]_vars PROVE TypeOK'
    OBVIOUS
  <2> USE DEF Runtime, HandleStep, Dispatch
  <2>1. CASE Run
    BY <2>1, RunType
  <2>2. CASE \E t \in EventTypes : PushEvent(t)
    BY <2>2, PushEventType
  <2>3. CASE HandleStep
    BY <2>3, PollType, ServeUnaryType, ThrowUnaryType, FreeUnaryType, OpenStreamType,
       ContinueStreamType, HandleFailureType, VisitStreamType, RemoveEventsType
  <2>4. CASE \E c \in Calls : ClientCall(c) \/ ClientCancel(c)
    BY <2>4, ClientType
  <2>5. CASE Runtime
    BY <2>5, AcceptCallType, CompleteOpType
  <2>6. CASE UNCHANGED vars
    BY <2>6, TypeOKUnchanged
  <2> QED
    BY <2>1, <2>2, <2>3, <2>4, <2>5, <2>6 DEF Next
<1> QED
  BY <1>1, <1>2, PTL DEF Spec

-----------------------------------------------------------------------------
(* Where a handler is in its life.  At any time it is in one place: with   *)
(* the runtime, in the completion queue, in waitingStreams_, or nowhere.   *)

OpKinds == {"accept", "write", "finish"}
Op(k) == <<k>>
Done(a) == [tag |-> a, ok |-> "ok"] \in cq
Failed(a) == [tag |-> a, ok |-> "failed"] \in cq
Parked(a) == a \in Waiting

OnePlace(a) ==
  /\ ops[a] = <<>> \/ \E k \in OpKinds : ops[a] = Op(k)
  /\ ops[a] # <<>> => ~ Done(a) /\ ~ Failed(a) /\ ~ Parked(a)
  /\ Parked(a) => ~ Done(a) /\ ~ Failed(a)
  /\ ~ (Done(a) /\ Failed(a))
  /\ IsFree(a) => ops[a] = <<>> /\ ~ Done(a) /\ ~ Failed(a) /\ ~ Parked(a)

(* The place fits the handler's fields.                                    *)
PlaceFits(a) ==
  /\ ops[a] = Op("accept") => handler[a].call = None
  /\ ops[a] = Op("write") => IsStreamingRequest(a) /\ handler[a].status = "PROCESS"
  /\ ops[a] = Op("finish") => handler[a].method \in Unary /\ handler[a].status = "FINISH"
  /\ Parked(a) => IsStreamingRequest(a) /\ handler[a].status = "PROCESS"
  /\ Parked(a) <=> handler[a].state = "WAITING"
  /\ Failed(a) => /\ rpc[handler[a].call] = "dead"
                  /\ handler[a].status = IF IsStreamingRequest(a) THEN "PROCESS" ELSE "FINISH"

(* The handler's fields fit each other and its call.                       *)
FieldsFit(a) ==
  /\ IsFree(a) => handler[a].method = None /\ handler[a].call = None
  /\ ~ IsFree(a) => handler[a].method \in Methods
  /\ handler[a].method \in Unary => handler[a].status \in {"PROCESS", "FINISH"}
  /\ IsStreamingRequest(a) => handler[a].status \in {"BUSY", "PROCESS"}
  /\ handler[a].call = None =>
       \/ IsFree(a)
       \/ /\ ops[a] = Op("accept")
          /\ handler[a].status = IF IsStreamingRequest(a) THEN "BUSY" ELSE "PROCESS"
  /\ handler[a].call # None =>
       /\ MethodOf[handler[a].call] = handler[a].method
       /\ rpc[handler[a].call] \in {"open", "answered", "dead"}

LeakFits(a) ==
  ~ IsFree(a) /\ ops[a] = <<>> /\ ~ Done(a) /\ ~ Failed(a) /\ ~ Parked(a) =>
    /\ handler[a].method \in Unary
    /\ \/ handler[a].status = "FINISH" /\ rpc[handler[a].call] = "dead"
       \/ handler[a].status = "PROCESS" /\ handler[a].method \in Throwing

HandlerInv(a) == OnePlace(a) /\ PlaceFits(a) /\ FieldsFit(a) /\ LeakFits(a)

OwnerInv ==
  /\ TypeOK
  /\ IsInjective(waitingStreams)
  /\ \A a \in Addr : HandlerInv(a)
  /\ ~ initialized => \A a \in Addr : IsFree(a)

LEMMA OpFacts ==
  /\ \A k \in OpKinds : /\ Op(k) # <<>> /\ Append(<<>>, k) = Op(k)
                        /\ RemoveAt(Op(k), 1) = <<>>
                        /\ DOMAIN Op(k) = {1} /\ Op(k)[1] = k
  /\ \A k, l \in OpKinds : Op(k) = Op(l) => k = l
<1>1. ASSUME NEW k \in OpKinds PROVE RemoveAt(Op(k), 1) = <<>>
  <2>1. Op(k) \in Seq(OpKinds) /\ Len(Op(k)) = 1
    BY DEF Op
  <2>2. 1 \in 1..Len(Op(k))
    BY <2>1
  <2>3. RemoveAt(Op(k), 1) \in Seq(OpKinds) /\ Len(RemoveAt(Op(k), 1)) = Len(Op(k)) - 1
    BY <2>1, <2>2, RemoveAtType, Zenon
  <2> QED
    BY <2>1, <2>3, EmptySeq
<1> QED
  BY <1>1 DEF Op

(* A call that the runtime knows stays known, and a dead one dead.         *)
CallsAdvance ==
  \A c \in Calls : /\ rpc[c] \in {"open", "answered", "dead"} => rpc'[c] \in {"open", "answered", "dead"}
                   /\ rpc[c] = "dead" => rpc'[c] = "dead"

(* A live handler without an outstanding accept has its call.              *)
LEMMA HasCall ==
  ASSUME NEW a \in Addr, HandlerInv(a), ~ IsFree(a), ops[a] # Op("accept")
  PROVE  handler[a].call # None
  BY DEF HandlerInv, FieldsFit

(* A step that leaves a handler where it is keeps the handler's invariant. *)
LEMMA Untouched ==
  ASSUME TypeOK, NEW b \in Addr, HandlerInv(b), CallsAdvance,
         handler'[b] = handler[b], ops'[b] = ops[b],
         Done(b)' <=> Done(b), Failed(b)' <=> Failed(b), Parked(b)' <=> Parked(b)
  PROVE  HandlerInv(b)'
<1>1. handler[b].call # None => handler[b].call \in Calls
  BY DEF TypeOK, Handler
<1>2. (IsFree(b)' <=> IsFree(b)) /\ (IsStreamingRequest(b)' <=> IsStreamingRequest(b))
  BY DEF IsFree, IsStreamingRequest
<1>3. OnePlace(b)'
  BY <1>2 DEF HandlerInv, OnePlace
<1>4. FieldsFit(b)'
  BY <1>1, <1>2 DEF HandlerInv, FieldsFit, CallsAdvance
<1>5. Failed(b) => handler[b].call # None
  BY HasCall, OpFacts DEF HandlerInv, OnePlace, OpKinds
<1>6. PlaceFits(b)'
  BY <1>1, <1>2, <1>5 DEF HandlerInv, PlaceFits, CallsAdvance
<1>7. LeakFits(b)'
  BY <1>1, <1>2, HasCall, OpFacts DEF HandlerInv, LeakFits, CallsAdvance, OpKinds
<1> QED
  BY <1>3, <1>4, <1>6, <1>7 DEF HandlerInv

(* The handler that AsyncNext returns is live, has its call, and is in no  *)
(* place any more; the others stay where they are.                         *)
LEMMA Taken ==
  ASSUME NEW a \in Addr, NEW r \in {"ok", "failed"}, AsyncNext(a, r), HandlerInv(a)
  PROVE  /\ IF r = "ok" THEN Done(a) ELSE Failed(a)
         /\ ops[a] = <<>> /\ ~ Parked(a) /\ handler[a].call # None /\ ~ IsFree(a)
         /\ ~ Done(a)' /\ ~ Failed(a)'
         /\ \A b \in Addr \ {a} : (Done(b)' <=> Done(b)) /\ (Failed(b)' <=> Failed(b))
<1>1. IF r = "ok" THEN Done(a) ELSE Failed(a)
  BY DEF AsyncNext, Done, Failed
<1>2. ops[a] = <<>> /\ ~ Parked(a) /\ ~ IsFree(a)
  BY <1>1 DEF HandlerInv, OnePlace
<1>3. handler[a].call # None
  BY <1>2, HasCall, OpFacts DEF OpKinds
<1>4. /\ ~ Done(a)' /\ ~ Failed(a)'
      /\ \A b \in Addr \ {a} : (Done(b)' <=> Done(b)) /\ (Failed(b)' <=> Failed(b))
  BY <1>1 DEF AsyncNext, Done, Failed, HandlerInv, OnePlace
<1> QED
  BY <1>1, <1>2, <1>3, <1>4

LEMMA UnaryNotStream == \A m \in Unary : m \notin Streams
  BY MethodsAssumption

LEMMA NoneNotMethod == None \notin Methods /\ None \notin Calls
  BY CallsAssumption

LEMMA NewHandlerFields ==
  ASSUME NEW m
  PROVE  /\ NewHandler(m).method = m /\ NewHandler(m).call = None
         /\ NewHandler(m).state = "COMPLETED"
         /\ NewHandler(m).status = IF m \in Streams THEN "BUSY" ELSE "PROCESS"
  BY DEF NewHandler

LEMMA ServeUnaryOwner == \A a, n \in Addr : OwnerInv /\ ServeUnary(a, n) => OwnerInv'
<1> SUFFICES ASSUME NEW a \in Addr, NEW n \in Addr, OwnerInv, ServeUnary(a, n) PROVE OwnerInv'
  OBVIOUS
<1>1. TypeOK /\ TypeOK' /\ HandlerInv(a) /\ HandlerInv(n)
  BY ServeUnaryType DEF OwnerInv
<1>2. /\ Done(a) /\ ops[a] = <<>> /\ ~ Parked(a) /\ handler[a].call # None /\ ~ IsFree(a)
      /\ ~ Done(a)' /\ ~ Failed(a)'
      /\ \A b \in Addr \ {a} : (Done(b)' <=> Done(b)) /\ (Failed(b)' <=> Failed(b))
  BY <1>1, Taken DEF ServeUnary
<1>3. IsFree(n) /\ ops[n] = <<>> /\ ~ Done(n) /\ ~ Failed(n) /\ ~ Parked(n)
  BY <1>1 DEF ServeUnary, HandlerInv, OnePlace
<1>4. n # a
  BY <1>2, <1>3
<1>5. waitingStreams' = waitingStreams /\ rpc' = rpc /\ \A b \in Addr : Parked(b)' <=> Parked(b)
  BY DEF ServeUnary, Parked, Waiting
<1>6. \A b \in Addr : ops'[b] = IF b = a THEN Op("finish") ELSE IF b = n THEN Op("accept") ELSE ops[b]
  BY <1>1, <1>2, <1>3, <1>4, OpFacts DEF ServeUnary, TypeOK, OpKinds
<1>7. \A b \in Addr : handler'[b] = IF b = a THEN [handler[a] EXCEPT !.status = "FINISH"]
                                    ELSE IF b = n THEN NewHandler(handler[a].method) ELSE handler[b]
  BY <1>1, <1>4 DEF ServeUnary, TypeOK
<1>8. HandlerInv(a)'
  <2>1. /\ handler'[a].method = handler[a].method /\ handler'[a].call = handler[a].call
        /\ handler'[a].state = handler[a].state /\ handler'[a].status = "FINISH"
    BY <1>1, <1>7 DEF TypeOK, Handler
  <2> QED
    BY <1>1, <1>2, <1>4, <1>5, <1>6, <2>1, OpFacts, MethodsAssumption
    DEF ServeUnary, HandlerInv, OnePlace, PlaceFits, FieldsFit, LeakFits, IsFree, OpKinds,
        IsStreamingRequest, Methods
<1>9. HandlerInv(n)'
  <2>1. /\ handler'[n].method = handler[a].method /\ handler'[n].call = None
        /\ handler'[n].state = "COMPLETED" /\ handler'[n].status = "PROCESS"
    <3>1. handler'[n] = NewHandler(handler[a].method)
      BY <1>4, <1>7
    <3>2. handler[a].method \notin Streams
      BY UnaryNotStream DEF ServeUnary
    <3> QED
      BY <3>1, <3>2, NewHandlerFields
  <2> QED
    BY <1>1, <1>2, <1>3, <1>4, <1>5, <1>6, <2>1, OpFacts, MethodsAssumption
    DEF ServeUnary, HandlerInv, OnePlace, PlaceFits, FieldsFit, LeakFits, IsFree, OpKinds,
        IsStreamingRequest, Methods
<1>10. ASSUME NEW b \in Addr, b # a, b # n PROVE HandlerInv(b)'
  BY <1>1, <1>2, <1>5, <1>6, <1>7, <1>10, Untouched DEF OwnerInv, CallsAdvance
<1> QED
  BY <1>1, <1>2, <1>5, <1>8, <1>9, <1>10 DEF OwnerInv, ServeUnary

LEMMA ThrowUnaryOwner == \A a, n \in Addr : OwnerInv /\ ThrowUnary(a, n) => OwnerInv'
<1> SUFFICES ASSUME NEW a \in Addr, NEW n \in Addr, OwnerInv, ThrowUnary(a, n) PROVE OwnerInv'
  OBVIOUS
<1>1. TypeOK /\ TypeOK' /\ HandlerInv(a) /\ HandlerInv(n)
  BY ThrowUnaryType DEF OwnerInv
<1>2. /\ Done(a) /\ ops[a] = <<>> /\ ~ Parked(a) /\ handler[a].call # None /\ ~ IsFree(a)
      /\ ~ Done(a)' /\ ~ Failed(a)'
      /\ \A b \in Addr \ {a} : (Done(b)' <=> Done(b)) /\ (Failed(b)' <=> Failed(b))
  BY <1>1, Taken DEF ThrowUnary
<1>3. IsFree(n) /\ ops[n] = <<>> /\ ~ Done(n) /\ ~ Failed(n) /\ ~ Parked(n)
  BY <1>1 DEF ThrowUnary, HandlerInv, OnePlace
<1>4. n # a
  BY <1>2, <1>3
<1>5. waitingStreams' = waitingStreams /\ rpc' = rpc /\ \A b \in Addr : Parked(b)' <=> Parked(b)
  BY DEF ThrowUnary, Parked, Waiting
<1>6. \A b \in Addr : ops'[b] = IF b = n THEN Op("accept") ELSE ops[b]
  BY <1>1, <1>3, OpFacts DEF ThrowUnary, TypeOK, OpKinds
<1>7. \A b \in Addr : handler'[b] = IF b = n THEN NewHandler(handler[a].method) ELSE handler[b]
  BY <1>1 DEF ThrowUnary, TypeOK
<1>8. HandlerInv(a)'
  <2>1. handler'[a] = handler[a] /\ ops'[a] = <<>>
    BY <1>2, <1>4, <1>6, <1>7
  <2> QED
    BY <1>1, <1>2, <1>4, <1>5, <2>1, OpFacts, MethodsAssumption
    DEF ThrowUnary, HandlerInv, OnePlace, PlaceFits, FieldsFit, LeakFits, IsFree, OpKinds,
        IsStreamingRequest, Methods
<1>9. HandlerInv(n)'
  <2>1. handler'[n] = NewHandler(handler[a].method)
    BY <1>7
  <2>2. handler[a].method \in Unary /\ handler[a].method \notin Streams
    BY UnaryNotStream, MethodsAssumption DEF ThrowUnary
  <2>3. /\ handler'[n].method = handler[a].method /\ handler'[n].call = None
        /\ handler'[n].state = "COMPLETED" /\ handler'[n].status = "PROCESS"
    BY <2>1, <2>2, NewHandlerFields
  <2> QED
    BY <1>1, <1>2, <1>3, <1>4, <1>5, <1>6, <2>2, <2>3, OpFacts
    DEF HandlerInv, OnePlace, PlaceFits, FieldsFit, LeakFits, IsFree, OpKinds,
        IsStreamingRequest, Methods
<1>10. ASSUME NEW b \in Addr, b # a, b # n PROVE HandlerInv(b)'
  BY <1>1, <1>2, <1>5, <1>6, <1>7, <1>10, Untouched DEF OwnerInv, CallsAdvance
<1> QED
  BY <1>1, <1>2, <1>5, <1>8, <1>9, <1>10 DEF OwnerInv, ThrowUnary

LEMMA FreeUnaryOwner ==
  ASSUME FreedReads \subseteq {"COMPLETED"}
  PROVE  \A a \in Addr : OwnerInv /\ FreeUnary(a) => OwnerInv'
<1> SUFFICES ASSUME NEW a \in Addr, OwnerInv, FreeUnary(a) PROVE OwnerInv'
  OBVIOUS
<1>1. TypeOK /\ TypeOK' /\ HandlerInv(a)
  BY FreeUnaryType DEF OwnerInv
<1>2. /\ Done(a) /\ ops[a] = <<>> /\ ~ Parked(a) /\ handler[a].call # None /\ ~ IsFree(a)
      /\ ~ Done(a)' /\ ~ Failed(a)'
      /\ \A b \in Addr \ {a} : (Done(b)' <=> Done(b)) /\ (Failed(b)' <=> Failed(b))
  BY <1>1, Taken DEF FreeUnary
<1>3. waitingStreams' = waitingStreams /\ rpc' = rpc /\ \A b \in Addr : Parked(b)' <=> Parked(b)
  BY DEF FreeUnary, Parked, Waiting
<1>4. \A b \in Addr : ops'[b] = ops[b] /\ handler'[b] = IF b = a THEN Freed ELSE handler[b]
  BY <1>1 DEF FreeUnary, TypeOK
<1>5. HandlerInv(a)'
  <2>1. /\ handler'[a].method = None /\ handler'[a].call = None
        /\ handler'[a].state = "COMPLETED" /\ handler'[a].status = "FREED"
    BY <1>4 DEF Freed
  <2> QED
    BY <1>2, <1>3, <1>4, <2>1, OpFacts, NoneNotMethod
    DEF HandlerInv, OnePlace, PlaceFits, FieldsFit, LeakFits, IsFree, OpKinds,
        IsStreamingRequest, Methods
<1>6. ASSUME NEW b \in Addr, b # a PROVE HandlerInv(b)'
  BY <1>1, <1>2, <1>3, <1>4, <1>6, Untouched DEF OwnerInv, CallsAdvance
<1> QED
  BY <1>1, <1>2, <1>3, <1>5, <1>6 DEF OwnerInv, FreeUnary

LEMMA HandleFailureOwner == \A a \in Addr : OwnerInv /\ HandleFailure(a) => OwnerInv'
<1> SUFFICES ASSUME NEW a \in Addr, OwnerInv, HandleFailure(a) PROVE OwnerInv'
  OBVIOUS
<1>1. TypeOK /\ TypeOK' /\ HandlerInv(a)
  BY HandleFailureType DEF OwnerInv
<1>2. /\ Failed(a) /\ ops[a] = <<>> /\ ~ Parked(a) /\ handler[a].call # None /\ ~ IsFree(a)
      /\ ~ Done(a)' /\ ~ Failed(a)'
      /\ \A b \in Addr \ {a} : (Done(b)' <=> Done(b)) /\ (Failed(b)' <=> Failed(b))
  BY <1>1, Taken DEF HandleFailure
<1>3. waitingStreams' = waitingStreams /\ rpc' = rpc /\ \A b \in Addr : Parked(b)' <=> Parked(b)
  BY DEF HandleFailure, Parked, Waiting
<1>4. \A b \in Addr : ops'[b] = ops[b] /\ (b # a => handler'[b] = handler[b])
  BY <1>1 DEF HandleFailure, TypeOK
<1>5. HandlerInv(a)'
  <2>1. CASE IsStreamingRequest(a)
    <3>1. /\ handler'[a].method = None /\ handler'[a].call = None
          /\ handler'[a].state = "COMPLETED" /\ handler'[a].status = "FREED"
      BY <1>1, <2>1 DEF Freed, HandleFailure, TypeOK
    <3> QED
      BY <1>2, <1>3, <1>4, <3>1, OpFacts, NoneNotMethod
      DEF HandlerInv, OnePlace, PlaceFits, FieldsFit, LeakFits, IsFree, OpKinds,
          IsStreamingRequest, Methods
  <2>2. CASE ~ IsStreamingRequest(a)
    <3>1. handler'[a] = handler[a]
      BY <2>2 DEF HandleFailure
    <3> QED
      BY <1>1, <1>2, <1>3, <1>4, <2>2, <3>1, OpFacts
      DEF HandlerInv, OnePlace, PlaceFits, FieldsFit, LeakFits, IsFree, OpKinds,
          IsStreamingRequest, Methods
  <2> QED
    BY <2>1, <2>2
<1>6. ASSUME NEW b \in Addr, b # a PROVE HandlerInv(b)'
  BY <1>1, <1>2, <1>3, <1>4, <1>6, Untouched DEF OwnerInv, CallsAdvance
<1> QED
  BY <1>1, <1>2, <1>3, <1>5, <1>6 DEF OwnerInv, HandleFailure

(* The handler of a stream writes, or leaves everything to waitingStreams_.*)
LEMMA StreamStep ==
  ASSUME TypeOK, NEW a \in Addr, ops[a] = <<>>
  PROVE  /\ HasEvent(a) => StreamState(a) = "COMPLETED" /\ StreamOps(a) = [ops EXCEPT ![a] = Op("write")]
         /\ ~ HasEvent(a) => StreamState(a) = "WAITING" /\ StreamOps(a) = ops
<1>1. Append(ops[a], "write") = Op("write")
  BY OpFacts DEF OpKinds
<1> QED
  BY <1>1 DEF StreamState, StreamOps

LEMMA StreamNotUnary == \A m \in Streams : m \notin Unary /\ m \in Methods
  BY MethodsAssumption DEF Methods

LEMMA OpenStreamOwner == \A a, n \in Addr : OwnerInv /\ OpenStream(a, n) => OwnerInv'
<1> SUFFICES ASSUME NEW a \in Addr, NEW n \in Addr, OwnerInv, OpenStream(a, n) PROVE OwnerInv'
  OBVIOUS
<1>1. TypeOK /\ TypeOK' /\ HandlerInv(a) /\ HandlerInv(n)
  BY OpenStreamType DEF OwnerInv
<1>2. /\ Done(a) /\ ops[a] = <<>> /\ ~ Parked(a) /\ handler[a].call # None /\ ~ IsFree(a)
      /\ ~ Done(a)' /\ ~ Failed(a)'
      /\ \A b \in Addr \ {a} : (Done(b)' <=> Done(b)) /\ (Failed(b)' <=> Failed(b))
  BY <1>1, Taken DEF OpenStream
<1>3. IsFree(n) /\ ops[n] = <<>> /\ ~ Done(n) /\ ~ Failed(n) /\ ~ Parked(n)
  BY <1>1 DEF OpenStream, HandlerInv, OnePlace
<1>4. n # a
  BY <1>2, <1>3
<1>5. /\ rpc' = rpc
      /\ IsInjective(waitingStreams')
      /\ \A b \in Addr : Parked(b)' <=> Parked(b) \/ (b = a /\ ~ HasEvent(a))
  <2>1. CASE HasEvent(a)
    BY <2>1 DEF OpenStream, Parked, Waiting, OwnerInv
  <2>2. CASE ~ HasEvent(a)
    <3>1. waitingStreams' = Append(waitingStreams, a) /\ waitingStreams \in Seq(Addr)
      BY <1>1, <2>2 DEF OpenStream, TypeOK
    <3>2. IsInjective(waitingStreams') /\ Waiting' = Waiting \cup {a}
      BY <1>2, <3>1, AppendNew DEF Parked, Waiting, OwnerInv
    <3> QED
      BY <2>2, <3>2 DEF OpenStream, Parked
  <2> QED
    BY <2>1, <2>2
<1>6. \A b \in Addr : ops'[b] = IF b = a THEN (IF HasEvent(a) THEN Op("write") ELSE <<>>)
                                ELSE IF b = n THEN Op("accept") ELSE ops[b]
  <2>1. \A b \in Addr : StreamOps(a)[b] = IF b = a /\ HasEvent(a) THEN Op("write") ELSE ops[b]
    BY <1>1, <1>2, StreamStep DEF TypeOK
  <2>2. StreamOps(a)[n] = <<>>
    BY <1>3, <1>4, <2>1
  <2>3. Append(<<>>, "accept") = Op("accept")
    BY OpFacts DEF OpKinds
  <2>4. \A b \in Addr : ops'[b] = IF b = n THEN Op("accept") ELSE StreamOps(a)[b]
    BY <1>1, <2>2, <2>3, StreamStepType DEF OpenStream
  <2> QED
    BY <1>2, <1>4, <2>1, <2>4
<1>7. /\ handler'[a] = [handler[a] EXCEPT !.status = "PROCESS", !.state = StreamState(a)]
      /\ handler'[n] = NewHandler(handler[a].method)
      /\ \A b \in Addr \ {a, n} : handler'[b] = handler[b]
  BY <1>1, <1>4 DEF OpenStream, TypeOK
<1>8. IsStreamingRequest(a) /\ handler[a].method \in Streams
  BY DEF OpenStream, IsStreamingRequest
<1>9. HandlerInv(a)'
  <2>1. /\ handler'[a].method = handler[a].method /\ handler'[a].call = handler[a].call
        /\ handler'[a].status = "PROCESS" /\ handler'[a].state = StreamState(a)
    BY <1>1, <1>7 DEF TypeOK, Handler
  <2>2. StreamState(a) = IF HasEvent(a) THEN "COMPLETED" ELSE "WAITING"
    BY DEF StreamState
  <2> QED
    BY <1>1, <1>2, <1>5, <1>6, <1>8, <2>1, <2>2, OpFacts, StreamNotUnary
    DEF HandlerInv, OnePlace, PlaceFits, FieldsFit, LeakFits, IsFree, OpKinds, IsStreamingRequest
<1>10. HandlerInv(n)'
  <2>1. /\ handler'[n].method = handler[a].method /\ handler'[n].call = None
        /\ handler'[n].state = "COMPLETED" /\ handler'[n].status = "BUSY"
    BY <1>7, <1>8, NewHandlerFields
  <2> QED
    BY <1>2, <1>3, <1>4, <1>5, <1>6, <1>8, <2>1, OpFacts, StreamNotUnary
    DEF HandlerInv, OnePlace, PlaceFits, FieldsFit, LeakFits, IsFree, OpKinds, IsStreamingRequest
<1>11. ASSUME NEW b \in Addr, b # a, b # n PROVE HandlerInv(b)'
  BY <1>1, <1>2, <1>5, <1>6, <1>7, <1>11, Untouched DEF OwnerInv, CallsAdvance
<1> QED
  BY <1>1, <1>2, <1>5, <1>9, <1>10, <1>11 DEF OwnerInv, OpenStream

LEMMA ContinueStreamOwner == \A a \in Addr : OwnerInv /\ ContinueStream(a) => OwnerInv'
<1> SUFFICES ASSUME NEW a \in Addr, OwnerInv, ContinueStream(a) PROVE OwnerInv'
  OBVIOUS
<1>1. TypeOK /\ TypeOK' /\ HandlerInv(a)
  BY ContinueStreamType DEF OwnerInv
<1>2. /\ Done(a) /\ ops[a] = <<>> /\ ~ Parked(a) /\ handler[a].call # None /\ ~ IsFree(a)
      /\ ~ Done(a)' /\ ~ Failed(a)'
      /\ \A b \in Addr \ {a} : (Done(b)' <=> Done(b)) /\ (Failed(b)' <=> Failed(b))
  BY <1>1, Taken DEF ContinueStream
<1>3. /\ rpc' = rpc
      /\ IsInjective(waitingStreams')
      /\ \A b \in Addr : Parked(b)' <=> Parked(b) \/ (b = a /\ ~ HasEvent(a))
  <2>1. CASE HasEvent(a)
    BY <2>1 DEF ContinueStream, Parked, Waiting, OwnerInv
  <2>2. CASE ~ HasEvent(a)
    <3>1. waitingStreams' = Append(waitingStreams, a) /\ waitingStreams \in Seq(Addr)
      BY <1>1, <2>2 DEF ContinueStream, TypeOK
    <3>2. IsInjective(waitingStreams') /\ Waiting' = Waiting \cup {a}
      BY <1>2, <3>1, AppendNew DEF Parked, Waiting, OwnerInv
    <3> QED
      BY <2>2, <3>2 DEF ContinueStream, Parked
  <2> QED
    BY <2>1, <2>2
<1>4. \A b \in Addr : ops'[b] = IF b = a /\ HasEvent(a) THEN Op("write") ELSE ops[b]
  BY <1>1, <1>2, StreamStep DEF TypeOK, ContinueStream
<1>5. /\ handler'[a] = [handler[a] EXCEPT !.state = StreamState(a)]
      /\ \A b \in Addr \ {a} : handler'[b] = handler[b]
  BY <1>1 DEF ContinueStream, TypeOK
<1>6. HandlerInv(a)'
  <2>1. /\ handler'[a].method = handler[a].method /\ handler'[a].call = handler[a].call
        /\ handler'[a].status = handler[a].status /\ handler'[a].state = StreamState(a)
    BY <1>1, <1>5 DEF TypeOK, Handler
  <2>2. StreamState(a) = IF HasEvent(a) THEN "COMPLETED" ELSE "WAITING"
    BY DEF StreamState
  <2> QED
    BY <1>1, <1>2, <1>3, <1>4, <2>1, <2>2, OpFacts, StreamNotUnary
    DEF ContinueStream, HandlerInv, OnePlace, PlaceFits, FieldsFit, LeakFits, IsFree, OpKinds,
        IsStreamingRequest
<1>7. ASSUME NEW b \in Addr, b # a PROVE HandlerInv(b)'
  BY <1>1, <1>2, <1>3, <1>4, <1>5, <1>7, Untouched DEF OwnerInv, CallsAdvance
<1> QED
  BY <1>1, <1>2, <1>3, <1>6, <1>7 DEF OwnerInv, ContinueStream

LEMMA VisitStreamOwner == \A a \in Addr : OwnerInv /\ VisitStream(a) => OwnerInv'
<1> SUFFICES ASSUME NEW a \in Addr, OwnerInv, VisitStream(a) PROVE OwnerInv'
  OBVIOUS
<1>1. TypeOK /\ TypeOK' /\ HandlerInv(a)
  BY VisitStreamType DEF OwnerInv
<1>2. waitingStreams \in Seq(Addr) /\ it \in 1..Len(waitingStreams) /\ waitingStreams[it] = a
  BY <1>1 DEF VisitStream, TypeOK
<1>3. Parked(a)
  BY <1>2 DEF Parked, Waiting, ToSet
<1>4. ops[a] = <<>> /\ ~ Done(a) /\ ~ Failed(a) /\ handler[a].call # None /\ ~ IsFree(a)
  <2>1. ops[a] = <<>> /\ ~ Done(a) /\ ~ Failed(a) /\ ~ IsFree(a)
    BY <1>1, <1>3 DEF HandlerInv, OnePlace
  <2> QED
    BY <1>1, <2>1, HasCall, OpFacts DEF OpKinds
<1>5. /\ rpc' = rpc
      /\ IsInjective(waitingStreams')
      /\ \A b \in Addr : Parked(b)' <=> Parked(b) /\ ~ (b = a /\ HasEvent(a))
  <2>1. CASE ~ HasEvent(a)
    BY <2>1 DEF VisitStream, Parked, Waiting, OwnerInv
  <2>2. CASE HasEvent(a)
    <3>1. waitingStreams' = RemoveAt(waitingStreams, it)
      BY <2>2 DEF VisitStream
    <3>2. IsInjective(waitingStreams') /\ Waiting' = Waiting \ {a}
      BY <1>2, <3>1, RemoveAtLeaves DEF Waiting, OwnerInv
    <3> QED
      BY <2>2, <3>2 DEF VisitStream, Parked
  <2> QED
    BY <2>1, <2>2
<1>6. \A b \in Addr : ops'[b] = IF b = a /\ HasEvent(a) THEN Op("write") ELSE ops[b]
  <2>1. ops' = StreamOps(a)
    BY DEF VisitStream
  <2> QED
    BY <1>1, <1>4, <2>1, StreamStep DEF TypeOK
<1>7. /\ handler'[a] = [handler[a] EXCEPT !.state = StreamState(a)]
      /\ \A b \in Addr \ {a} : handler'[b] = handler[b]
  BY <1>1 DEF VisitStream, TypeOK
<1>8. \A b \in Addr : (Done(b)' <=> Done(b)) /\ (Failed(b)' <=> Failed(b))
  BY DEF VisitStream, Done, Failed
<1>9. HandlerInv(a)'
  <2>1. /\ handler'[a].method = handler[a].method /\ handler'[a].call = handler[a].call
        /\ handler'[a].status = handler[a].status /\ handler'[a].state = StreamState(a)
    BY <1>1, <1>7 DEF TypeOK, Handler
  <2>2. StreamState(a) = IF HasEvent(a) THEN "COMPLETED" ELSE "WAITING"
    BY DEF StreamState
  <2> QED
    BY <1>1, <1>3, <1>4, <1>5, <1>6, <1>8, <2>1, <2>2, OpFacts, StreamNotUnary
    DEF VisitStream, HandlerInv, OnePlace, PlaceFits, FieldsFit, LeakFits, IsFree, OpKinds,
        IsStreamingRequest
<1>10. ASSUME NEW b \in Addr, b # a PROVE HandlerInv(b)'
  BY <1>1, <1>5, <1>6, <1>7, <1>8, <1>10, Untouched DEF OwnerInv, CallsAdvance
<1> QED
  BY <1>1, <1>4, <1>5, <1>9, <1>10 DEF OwnerInv, VisitStream

LEMMA AcceptCallOwner == \A a \in Addr, c \in Calls : OwnerInv /\ AcceptCall(a, c) => OwnerInv'
<1> SUFFICES ASSUME NEW a \in Addr, NEW c \in Calls, OwnerInv, AcceptCall(a, c) PROVE OwnerInv'
  OBVIOUS
<1>1. TypeOK /\ TypeOK' /\ HandlerInv(a) /\ c # None
  BY AcceptCallType, NoneNotMethod DEF OwnerInv
<1>2. ops[a] = Op("accept") /\ ops' = [ops EXCEPT ![a] = RemoveAt(@, 1)]
  <2>1. PICK i \in DOMAIN ops[a] : ops[a][i] = "accept" /\ ops' = [ops EXCEPT ![a] = RemoveAt(@, i)]
    BY DEF AcceptCall
  <2>2. PICK k \in OpKinds : ops[a] = Op(k)
    BY <1>1, <2>1 DEF HandlerInv, OnePlace
  <2>3. i = 1 /\ k = "accept"
    BY <2>1, <2>2, OpFacts
  <2> QED
    BY <2>1, <2>2, <2>3
<1>3. /\ ~ Done(a) /\ ~ Failed(a) /\ ~ Parked(a) /\ ~ IsFree(a) /\ handler[a].call = None
  BY <1>1, <1>2, OpFacts DEF HandlerInv, OnePlace, PlaceFits, OpKinds
<1>4. /\ Done(a)' /\ ~ Failed(a)'
      /\ \A b \in Addr \ {a} : (Done(b)' <=> Done(b)) /\ (Failed(b)' <=> Failed(b))
  BY <1>3 DEF AcceptCall, Done, Failed
<1>5. waitingStreams' = waitingStreams /\ \A b \in Addr : Parked(b)' <=> Parked(b)
  BY DEF AcceptCall, serverVars, Parked, Waiting
<1>6. ops'[a] = <<>> /\ \A b \in Addr \ {a} : ops'[b] = ops[b] /\ handler'[b] = handler[b]
  <2>1. RemoveAt(Op("accept"), 1) = <<>>
    BY OpFacts DEF OpKinds
  <2> QED
    BY <1>1, <1>2, <2>1 DEF AcceptCall, TypeOK
<1>7. CallsAdvance /\ rpc'[c] = "open"
  BY <1>1 DEF AcceptCall, TypeOK, CallsAdvance
<1>8. HandlerInv(a)'
  <2>1. /\ handler'[a].method = handler[a].method /\ handler'[a].call = c
        /\ handler'[a].status = handler[a].status /\ handler'[a].state = handler[a].state
    BY <1>1 DEF TypeOK, AcceptCall, Handler
  <2>2. MethodOf[c] = handler[a].method
    BY DEF AcceptCall
  <2> QED
    BY <1>1, <1>2, <1>3, <1>4, <1>5, <1>6, <1>7, <2>1, <2>2, OpFacts
    DEF HandlerInv, OnePlace, PlaceFits, FieldsFit, LeakFits, IsFree, OpKinds, IsStreamingRequest
<1>9. ASSUME NEW b \in Addr, b # a PROVE HandlerInv(b)'
  BY <1>1, <1>4, <1>5, <1>6, <1>7, <1>9, Untouched DEF OwnerInv
<1> QED
  BY <1>1, <1>3, <1>5, <1>8, <1>9 DEF OwnerInv, AcceptCall, serverVars

LEMMA CompleteOpOwner == \A a \in Addr : OwnerInv /\ CompleteOp(a) => OwnerInv'
<1> SUFFICES ASSUME NEW a \in Addr, OwnerInv, CompleteOp(a) PROVE OwnerInv'
  OBVIOUS
<1> DEFINE c == handler[a].call
           sent == rpc[c] # "dead"
<1>1. TypeOK /\ TypeOK' /\ HandlerInv(a)
  BY CompleteOpType DEF OwnerInv
<1>2. PICK k \in {"write", "finish"} :
        /\ ops[a] = Op(k) /\ ops' = [ops EXCEPT ![a] = RemoveAt(@, 1)]
        /\ cq' = cq \cup {[tag |-> a, ok |-> IF sent THEN "ok" ELSE "failed"]}
        /\ rpc' = IF k = "finish" /\ sent THEN [rpc EXCEPT ![c] = "answered"] ELSE rpc
        /\ UNCHANGED <<serverVars, handler, feedVars, last>>
  <2>1. PICK i \in DOMAIN ops[a] :
          /\ ops[a][i] # "accept"
          /\ ops' = [ops EXCEPT ![a] = RemoveAt(@, i)]
          /\ cq' = cq \cup {[tag |-> a, ok |-> IF sent THEN "ok" ELSE "failed"]}
          /\ rpc' = IF ops[a][i] = "finish" /\ sent THEN [rpc EXCEPT ![c] = "answered"] ELSE rpc
          /\ UNCHANGED <<serverVars, handler, feedVars, last>>
    BY DEF CompleteOp
  <2>2. PICK k \in OpKinds : ops[a] = Op(k)
    BY <1>1, <2>1 DEF HandlerInv, OnePlace
  <2>3. i = 1 /\ ops[a][i] = k /\ k # "accept"
    BY <2>1, <2>2, OpFacts
  <2> QED
    BY <2>1, <2>2, <2>3 DEF OpKinds
<1>3. /\ ~ Done(a) /\ ~ Failed(a) /\ ~ Parked(a) /\ ~ IsFree(a)
      /\ c # None /\ c \in Calls
  <2>1. ops[a] # <<>> /\ ops[a] # Op("accept")
    BY <1>2, OpFacts DEF OpKinds
  <2>2. ~ Done(a) /\ ~ Failed(a) /\ ~ Parked(a) /\ ~ IsFree(a)
    BY <1>1, <2>1 DEF HandlerInv, OnePlace
  <2>3. c # None
    BY <1>1, <2>1, <2>2, HasCall
  <2> QED
    BY <1>1, <2>2, <2>3 DEF TypeOK, Handler
<1>4. /\ Done(a)' <=> sent
      /\ Failed(a)' <=> ~ sent
      /\ \A b \in Addr \ {a} : (Done(b)' <=> Done(b)) /\ (Failed(b)' <=> Failed(b))
  BY <1>2, <1>3 DEF Done, Failed
<1>5. /\ waitingStreams' = waitingStreams /\ initialized' = initialized
      /\ \A b \in Addr : Parked(b)' <=> Parked(b)
  BY <1>2 DEF serverVars, Parked, Waiting
<1>6. /\ handler' = handler /\ ops'[a] = <<>> /\ \A b \in Addr \ {a} : ops'[b] = ops[b]
  <2>1. RemoveAt(ops[a], 1) = <<>>
    BY <1>2, OpFacts DEF OpKinds
  <2> QED
    BY <1>1, <1>2, <2>1 DEF TypeOK
<1>7. CallsAdvance
  BY <1>1, <1>2, <1>3 DEF TypeOK, CallsAdvance
<1>8. HandlerInv(a)'
  <2>1. rpc[c] \in {"open", "answered", "dead"} /\ rpc'[c] \in {"open", "answered", "dead"}
    BY <1>1, <1>3, <1>7 DEF HandlerInv, FieldsFit, CallsAdvance
  <2> QED
    BY <1>1, <1>2, <1>3, <1>4, <1>5, <1>6, <1>7, <2>1, OpFacts, StreamNotUnary
    DEF HandlerInv, OnePlace, PlaceFits, FieldsFit, LeakFits, IsFree, OpKinds, IsStreamingRequest,
        CallsAdvance
<1>9. ASSUME NEW b \in Addr, b # a PROVE HandlerInv(b)'
  BY <1>1, <1>4, <1>5, <1>6, <1>7, <1>9, Untouched DEF OwnerInv
<1> QED
  BY <1>1, <1>3, <1>5, <1>6, <1>8, <1>9 DEF OwnerInv, IsFree

LEMMA RunOwner == OwnerInv /\ Run => OwnerInv'
<1> SUFFICES ASSUME OwnerInv, Run PROVE OwnerInv'
  OBVIOUS
<1>1. TypeOK /\ TypeOK'
  BY RunType DEF OwnerInv
<1>2. \A b \in Addr : ~ Done(b) /\ ~ Failed(b) /\ ~ Parked(b)
  BY DEF OwnerInv, Run, HandlerInv, OnePlace
<1>3. \A b \in Addr : ~ Done(b)' /\ ~ Failed(b)' /\ ~ Parked(b)'
  BY <1>2 DEF Run, Done, Failed, Parked, Waiting
<1>4. PICK place \in [Methods -> Addr] :
        /\ handler' = [a \in Addr |-> IF \E m \in Methods : place[m] = a
                                      THEN NewHandler(CHOOSE m \in Methods : place[m] = a)
                                      ELSE Freed]
        /\ ops' = [a \in Addr |-> IF \E m \in Methods : place[m] = a THEN <<"accept">> ELSE <<>>]
  BY DEF Run
<1>5. ASSUME NEW b \in Addr PROVE HandlerInv(b)'
  <2>1. CASE \E m \in Methods : place[m] = b
    <3>1. PICK m \in Methods : handler'[b] = NewHandler(m)
      BY <1>4, <2>1
    <3>2. ops'[b] = Op("accept")
      BY <1>4, <2>1 DEF Op
    <3>3. /\ handler'[b].method = m /\ handler'[b].call = None /\ handler'[b].state = "COMPLETED"
          /\ handler'[b].status = IF m \in Streams THEN "BUSY" ELSE "PROCESS"
      BY <3>1, NewHandlerFields
    <3> QED
      BY <1>3, <3>2, <3>3, OpFacts, StreamNotUnary
      DEF HandlerInv, OnePlace, PlaceFits, FieldsFit, LeakFits, IsFree, OpKinds, IsStreamingRequest
  <2>2. CASE ~ \E m \in Methods : place[m] = b
    <3>1. ops'[b] = <<>> /\ handler'[b] = Freed
      BY <1>4, <2>2
    <3>2. /\ handler'[b].method = None /\ handler'[b].call = None
          /\ handler'[b].state = "COMPLETED" /\ handler'[b].status = "FREED"
      BY <3>1 DEF Freed
    <3> QED
      BY <1>3, <3>1, <3>2, OpFacts, NoneNotMethod
      DEF HandlerInv, OnePlace, PlaceFits, FieldsFit, LeakFits, IsFree, OpKinds,
          IsStreamingRequest, Methods
  <2> QED
    BY <2>1, <2>2
<1> QED
  BY <1>1, <1>5 DEF OwnerInv, Run

(* A step that touches neither the handlers nor their places.              *)
LEMMA IdleOwner ==
  ASSUME OwnerInv, TypeOK', CallsAdvance, UNCHANGED <<initialized, handler, ops, cq, waitingStreams>>
  PROVE  OwnerInv'
<1>1. \A b \in Addr : /\ Done(b)' <=> Done(b)
                      /\ Failed(b)' <=> Failed(b)
                      /\ Parked(b)' <=> Parked(b)
  BY DEF Done, Failed, Parked, Waiting
<1>2. ASSUME NEW b \in Addr PROVE HandlerInv(b)'
  BY <1>1, Untouched DEF OwnerInv
<1> QED
  BY <1>2 DEF OwnerInv, IsFree

LEMMA IdleStepsOwner ==
  /\ \A t \in EventTypes : OwnerInv /\ PushEvent(t) => OwnerInv'
  /\ OwnerInv /\ (EnterHandle \/ AsyncNextTimeout \/ RemoveEvents) => OwnerInv'
  /\ \A c \in Calls : OwnerInv /\ (ClientCall(c) \/ ClientCancel(c)) => OwnerInv'
  /\ OwnerInv /\ UNCHANGED vars => OwnerInv'
<1>1. ASSUME rpc' = rpc PROVE CallsAdvance
  BY <1>1 DEF CallsAdvance
<1>2. ASSUME NEW t \in EventTypes, OwnerInv, PushEvent(t) PROVE OwnerInv'
  BY <1>1, <1>2, PushEventType, IdleOwner DEF PushEvent, serverVars, OwnerInv
<1>3. ASSUME OwnerInv, EnterHandle \/ AsyncNextTimeout \/ RemoveEvents PROVE OwnerInv'
  BY <1>1, <1>3, PollType, RemoveEventsType, IdleOwner
  DEF EnterHandle, AsyncNextTimeout, RemoveEvents, OwnerInv
<1>4. ASSUME NEW c \in Calls, OwnerInv, ClientCall(c) \/ ClientCancel(c) PROVE OwnerInv'
  <2>1. CallsAdvance
    BY <1>4 DEF ClientCall, ClientCancel, CallsAdvance, OwnerInv, TypeOK
  <2> QED
    BY <1>4, <2>1, ClientType, IdleOwner DEF ClientCall, ClientCancel, serverVars, OwnerInv
<1>5. ASSUME OwnerInv, UNCHANGED vars PROVE OwnerInv'
  BY <1>1, <1>5, TypeOKUnchanged, IdleOwner DEF vars, OwnerInv
<1> QED
  BY <1>2, <1>3, <1>4, <1>5

LEMMA InitOwner == Init => OwnerInv
<1> SUFFICES ASSUME Init PROVE OwnerInv
  OBVIOUS
<1>1. TypeOK
  BY InitType
<1>2. Waiting = {} /\ IsInjective(waitingStreams)
  BY EmptySeq DEF Init, Waiting, ToSet, IsInjective
<1>3. ASSUME NEW b \in Addr PROVE HandlerInv(b)
  <2>1. /\ ops[b] = <<>> /\ ~ Done(b) /\ ~ Failed(b) /\ ~ Parked(b)
        /\ handler[b].method = None /\ handler[b].call = None
        /\ handler[b].state = "COMPLETED" /\ handler[b].status = "FREED"
    BY <1>2 DEF Init, Freed, Done, Failed, Parked
  <2> QED
    BY <2>1, OpFacts, NoneNotMethod
    DEF HandlerInv, OnePlace, PlaceFits, FieldsFit, LeakFits, IsFree, OpKinds,
        IsStreamingRequest, Methods
<1> QED
  BY <1>1, <1>2, <1>3 DEF OwnerInv, Init, IsFree, Freed

LEMMA NextOwner ==
  ASSUME FreedReads \subseteq {"COMPLETED"}
  PROVE  OwnerInv /\ [Next]_vars => OwnerInv'
<1> SUFFICES ASSUME OwnerInv, [Next]_vars PROVE OwnerInv'
  OBVIOUS
<1>1. CASE Run
  BY <1>1, RunOwner
<1>2. CASE \E t \in EventTypes : PushEvent(t)
  BY <1>2, IdleStepsOwner
<1>3. CASE HandleStep
  <2>1. CASE EnterHandle \/ AsyncNextTimeout \/ RemoveEvents
    BY <2>1, IdleStepsOwner
  <2>2. CASE \E a \in Addr : Dispatch(a) \/ VisitStream(a)
    BY <2>2, ServeUnaryOwner, ThrowUnaryOwner, FreeUnaryOwner, OpenStreamOwner,
       ContinueStreamOwner, HandleFailureOwner, VisitStreamOwner DEF Dispatch
  <2> QED
    BY <1>3, <2>1, <2>2 DEF HandleStep
<1>4. CASE \E c \in Calls : ClientCall(c) \/ ClientCancel(c)
  BY <1>4, IdleStepsOwner
<1>5. CASE Runtime
  BY <1>5, AcceptCallOwner, CompleteOpOwner DEF Runtime
<1>6. CASE UNCHANGED vars
  BY <1>6, IdleStepsOwner
<1> QED
  BY <1>1, <1>2, <1>3, <1>4, <1>5, <1>6 DEF Next

LEMMA OwnerInvariant ==
  ASSUME FreedReads \subseteq {"COMPLETED"}
  PROVE  Spec => []OwnerInv
  BY InitOwner, NextOwner, PTL DEF Spec

(* What the per-handler invariant says of the whole server.                *)
LEMMA OwnerMeans ==
  OwnerInv => SingleOwner /\ NoDanglingTag /\ WaitingStreamsExact /\ OrphansExplained
<1> SUFFICES ASSUME OwnerInv PROVE SingleOwner /\ NoDanglingTag /\ WaitingStreamsExact /\ OrphansExplained
  OBVIOUS
<1>1. \A e \in cq : e = [tag |-> e.tag, ok |-> e.ok] /\ e.tag \in Addr /\ e.ok \in {"ok", "failed"}
  BY DEF OwnerInv, TypeOK
<1>2. \A a \in Addr : a \in Completed <=> Done(a) \/ Failed(a)
  BY <1>1 DEF Completed, Done, Failed
<1>3. \A a \in Addr : Len(ops[a]) <= 1
  <2>1. \A a \in Addr : ops[a] = <<>> \/ \E k \in OpKinds : ops[a] = Op(k)
    BY DEF OwnerInv, HandlerInv, OnePlace
  <2>2. Len(<<>>) = 0 /\ \A k \in OpKinds : Len(Op(k)) = 1
    BY DEF Op
  <2>3. \A a \in Addr : Len(ops[a]) = 0 \/ Len(ops[a]) = 1
    BY <2>1, <2>2, Zenon
  <2>4. 0 <= 1 /\ 1 <= 1
    OBVIOUS
  <2> QED
    BY <2>3, <2>4, Zenon
<1>4. \A e, f \in cq : e.tag = f.tag => e = f
  <2> SUFFICES ASSUME NEW e \in cq, NEW f \in cq, e.tag = f.tag, e.ok # f.ok PROVE FALSE
    BY <1>1
  <2>1. Done(e.tag) /\ Failed(e.tag)
    BY <1>1 DEF Done, Failed
  <2> QED
    BY <1>1, <2>1 DEF OwnerInv, HandlerInv, OnePlace
<1>5. Completed \cap Waiting = {}
  <2>1. \A x \in Completed : x \in Addr
    BY <1>1 DEF Completed
  <2> QED
    BY <1>2, <2>1 DEF OwnerInv, HandlerInv, OnePlace, Parked
<1>6. SingleOwner
  BY <1>2, <1>3, <1>4, <1>5 DEF SingleOwner, OwnerInv, HandlerInv, OnePlace, Parked
<1>7. NoDanglingTag
  BY <1>2 DEF NoDanglingTag, OwnerInv, HandlerInv, OnePlace, Parked
<1>8. WaitingStreamsExact
  BY DEF WaitingStreamsExact, OwnerInv, HandlerInv, PlaceFits, Parked
<1>9. OrphansExplained
  BY <1>2 DEF OrphansExplained, Orphan, OwnerInv, HandlerInv, LeakFits, Parked
<1> QED
  BY <1>6, <1>7, <1>8, <1>9

(* As long as reading a freed handler's state_ never yields WAITING, every *)
(* handler has at most one operation under way, in every reachable state.  *)
THEOREM SingleOwnerCorrect ==
  ASSUME FreedReads \subseteq {"COMPLETED"}
  PROVE  Spec => []SingleOwner
  BY OwnerInvariant, OwnerMeans, PTL

(* Under the same assumption no tag outlives its handler.                  *)
THEOREM NoDanglingTagCorrect ==
  ASSUME FreedReads \subseteq {"COMPLETED"}
  PROVE  Spec => []NoDanglingTag
  BY OwnerInvariant, OwnerMeans, PTL

(* Under the same assumption waitingStreams_ holds exactly the handlers    *)
(* that wait.                                                              *)
THEOREM WaitingStreamsCorrect ==
  ASSUME FreedReads \subseteq {"COMPLETED"}
  PROVE  Spec => []WaitingStreamsExact
  BY OwnerInvariant, OwnerMeans, PTL

(* Under the same assumption the only handlers ever lost are those of      *)
(* unary calls that threw or whose client had gone.                        *)
THEOREM OrphansCorrect ==
  ASSUME FreedReads \subseteq {"COMPLETED"}
  PROVE  Spec => []OrphansExplained
  BY OwnerInvariant, OwnerMeans, PTL
=============================================================================
