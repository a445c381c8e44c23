-------------------------------- MODULE Wire --------------------------------
(***************************************************************************)
(* A message's way from the program that fills it in to the program that   *)
(* reads it: the setters, the copy PushEvent puts into the queue, ByteSize *)
(* and the serializers, and the parser on the other side, byte by byte as  *)
(* world.pb.cc has them.  The tables of WorldMessages say what each class  *)
(* does; the operators here are what the generated functions have in       *)
(* common.                                                                 *)
(*                                                                         *)
(* A message is a function of its members.  A text or a list is a          *)
(* sequence, a sub-message a sequence of at most one message, and a oneof  *)
(* a sequence of at most one pair of a case and its value.  A bool is 0 or *)
(* 1, as on the wire.                                                      *)
(***************************************************************************)
EXTENDS WorldMessages, Integers, FiniteSetsExt, SequencesExt

CONSTANTS
  Types,      \* the classes sent
  UInts,      \* values given to the fields of each kind
  Ints,
  Enums,
  Texts,
  Unknown,    \* fields of a newer peer, as bytes, <<>> for none
  MaxCalls    \* bound: setter calls, all messages together

VARIABLES
  type,       \* the class of the messages on this call
  event,      \* the message as the sender filled it in
  msg,        \* the message that is sent: event, or the queue's copy of it
  calls,      \* setter calls made
  phase,      \* "build", "queued", "read", "delivered" or "rejected"
  wire,       \* the bytes sent
  pos,        \* the reader's position in them
  stack,      \* the messages being read, the outermost first
  got         \* the receiver's message object, reused by the next read

vars == <<type, event, msg, calls, phase, wire, pos, stack, got>>

-----------------------------------------------------------------------------
\* Message objects.

Fields(c) == Class[c].fields
IsMessage(kind) == kind \in DOMAIN Class
IsGroup(c, s) == s \notin DOMAIN Fields(c)

\* The member a field is stored in: the cases of a oneof share one.
Slot(c, f) == IF Fields(c)[f].label = "case" THEN Fields(c)[f].group ELSE f
Slots(c) == {Slot(c, f) : f \in DOMAIN Fields(c)}

\* What a member holds in a new object: SharedCtor.
Default(c, s) ==
  IF ~IsGroup(c, s) /\ Fields(c)[s].label = "one" /\ Fields(c)[s].kind \in {"uint32", "int32", "enum", "bool"}
  THEN 0 ELSE <<>>
Blank(c) == [s \in Slots(c) |-> Default(c, s)]

\* set_f(v), add_f(v), or *mutable_f() = v; setting a case clears its oneof.
Assign(c, m, f, v) ==
  LET how == Fields(c)[f]
      value == CASE how.label = "many" -> Append(m[f], v)
                 [] how.label = "case" -> <<f, v>>
                 [] how.label = "one" /\ IsMessage(how.kind) -> <<v>>
                 [] OTHER -> v
  IN [m EXCEPT ![Slot(c, f)] = value]

Clear(c, m) == [s \in Slots(c) |-> IF s \in Class[c].clear THEN Default(c, s) ELSE m[s]]

\* The values of field f that a test lets through.
Guard(c, m, when, f) ==
  CASE when = "each" -> m[f]
    [] when = "nonzero" -> IF m[f] # Default(c, f) THEN <<m[f]>> ELSE <<>>
    [] when = "has" /\ Fields(c)[f].label = "case" ->
         LET one == m[Fields(c)[f].group]
         IN IF one # <<>> /\ one[1] = f THEN <<one[2]>> ELSE <<>>
    [] OTHER -> m[f]

\* to.MergeFrom(from).
RECURSIVE MergeFrom(_, _, _)
MergeFrom(c, to, from) ==
  LET merge == Class[c].merge
      Merged(s) ==
        CASE IsGroup(c, s) -> IF from[s] # <<>> /\ from[s][1] \in merge.has THEN from[s] ELSE to[s]
          [] s \in merge.each -> to[s] \o from[s]
          [] s \in merge.nonzero -> IF from[s] # Default(c, s) THEN from[s] ELSE to[s]
          [] s \in merge.has /\ from[s] # <<>> ->
               LET sub == Fields(c)[s].kind
               IN <<MergeFrom(sub, IF to[s] = <<>> THEN Blank(sub) ELSE to[s][1], from[s][1])>>
          [] OTHER -> to[s]
  IN [s \in Slots(c) |-> Merged(s)]

-----------------------------------------------------------------------------
\* Bytes.

RECURSIVE Varint(_)
Varint(v) == IF v < 128 THEN <<v>> ELSE <<128 + (v % 128)>> \o Varint(v \div 128)

\* A negative int32 or enum is sent sign-extended, in ten bytes.
Negative(v) ==
  [i \in 1..10 |-> IF i = 10 THEN 1 ELSE 128 + (IF i > 4 THEN 127 ELSE (v \div 128^(i - 1)) % 128)]

WireType(kind) == IF kind \in {"uint32", "int32", "enum", "bool"} THEN 0 ELSE 2

\* Int32Size, StringSize, MessageSizeNoVirtual, ...; SizeOf is ByteSize of a class.
RECURSIVE SizeOf(_, _)
ItemSize(kind, v) ==
  LET Delimited(n) == n + Len(Varint(n))
  IN IF WireType(kind) = 0 THEN IF v < 0 THEN 10 ELSE Len(Varint(v))
     ELSE Delimited(IF IsMessage(kind) THEN SizeOf(kind, v) ELSE Len(v))
SizeOf(c, m) ==
  LET Counted(g) == FoldSeq(LAMBDA v, n : n + g.n + ItemSize(g.kind, v), 0, Guard(c, m, g.when, g.field))
  IN MapThenSumSet(Counted, Class[c].size)

\* What the serializers append; a sub-message's length is the size ByteSize cached.
RECURSIVE Serialize(_, _)
ItemBytes(kind, v) ==
  CASE IsMessage(kind) -> Varint(SizeOf(kind, v)) \o Serialize(kind, v)
    [] kind = "string" -> Varint(Len(v)) \o v
    [] OTHER -> IF v < 0 THEN Negative(v) ELSE Varint(v)
Serialize(c, m) ==
  LET Written(g) == FlattenSeq([i \in DOMAIN Guard(c, m, g.when, g.field) |->
                      Varint(8 * g.n + WireType(g.kind)) \o ItemBytes(g.kind, Guard(c, m, g.when, g.field)[i])])
  IN FlattenSeq([i \in DOMAIN Class[c].writes |-> Written(Class[c].writes[i])])

\* The texts of the model hold no character of more than one byte.
VerifyUtf8String(text) == \A i \in DOMAIN text : text[i] < 128

-----------------------------------------------------------------------------
\* The reader.  A frame is a message being read: its class, the member of the
\* message around it that it goes to, the last byte it may read, the object.

Frame(c, field, end, obj) == [class |-> c, field |-> field, end |-> end, obj |-> obj]
Top == stack[Len(stack)]
Byte(i) == IF i \in DOMAIN wire THEN wire[i] ELSE 0

VarintEnd(i) == CHOOSE j \in i..(i + 9) : (Byte(j) < 128 \/ j = i + 9) /\ \A k \in i..(j - 1) : Byte(k) >= 128

\* The low 32 bits of the varint at i, with the sign of bit 31.
VarintAt(i) ==
  LET group(k) == IF i + k <= VarintEnd(i) THEN Byte(i + k) % 128 ELSE 0
      high == group(4) % 16
  IN group(0) + 128 * group(1) + 128^2 * group(2) + 128^3 * group(3)
       + 128^4 * (IF high < 8 THEN high ELSE high - 16)

Known == pos <= Top.end /\ Byte(pos) \in DOMAIN Class[Top.class].reads
Field == Class[Top.class].reads[Byte(pos)]
Value == VarintAt(pos + 1)                         \* of a scalar, or a length
After == VarintEnd(pos + 1) + 1
Text == [i \in 1..Value |-> Byte(After + i - 1)]

\* Mutant: the parser does not verify texts.
FailsUnverified ==
  IF WireType(Field.kind) = 0 THEN After - 1 > Top.end ELSE After + Value - 1 > Top.end

\* The reads that fail: past the limit of the message, or not UTF-8.
Fails ==
  CASE Field.kind = "string" -> After + Value - 1 > Top.end \/ ~VerifyUtf8String(Text)
    [] IsMessage(Field.kind) -> After + Value - 1 > Top.end
    [] OTHER -> After - 1 > Top.end

ReplaceTop(frame) == [stack EXCEPT ![Len(stack)] = frame]

\* The stack once its top message is stored in the one around it.
Stored(s) ==
  LET inner == s[Len(s)]
      outer == s[Len(s) - 1]
  IN [SubSeq(s, 1, Len(s) - 1) EXCEPT ![Len(s) - 1].obj = Assign(outer.class, outer.obj, inner.field, inner.obj)]

-----------------------------------------------------------------------------
\* The sender.

\* Values for a field: for a sub-message, those one call makes.
ScalarValues(kind) ==
  CASE kind = "uint32" -> UInts
    [] kind = "int32" -> Ints
    [] kind = "enum" -> Enums
    [] kind = "bool" -> {0, 1}
    [] kind = "string" -> Texts
RECURSIVE Values(_)
Values(kind) ==
  IF ~IsMessage(kind) THEN ScalarValues(kind)
  ELSE {Blank(kind)} \cup UNION {{Assign(kind, Blank(kind), f, v) : v \in Values(Fields(kind)[f].kind)} :
                                   f \in DOMAIN Fields(kind)}

Init ==
  /\ type \in Types
  /\ event = Blank(type)
  /\ msg = event
  /\ calls = 0
  /\ phase = "build"
  /\ wire = <<>>
  /\ pos = 1
  /\ stack = <<>>
  /\ got = Blank(type)

SetField ==
  /\ phase = "build"
  /\ calls < MaxCalls
  /\ \E f \in DOMAIN Fields(type) : \E v \in Values(Fields(type)[f].kind) :
       event' = Assign(type, event, f, v)
  /\ msg' = event'
  /\ calls' = calls + 1
  /\ UNCHANGED <<type, phase, wire, pos, stack, got>>

\* PushEvent queues make_shared<T>(event), whose constructor is MergeFrom.
PushEvent ==
  /\ phase = "build"
  /\ msg' = MergeFrom(type, Blank(type), event)
  /\ phase' = "queued"
  /\ UNCHANGED <<type, event, calls, wire, pos, stack, got>>

\* The bytes go out, with the fields a newer peer's class has too.  The reader
\* clears its object and starts on them.
Send ==
  /\ phase \in {"build", "queued"}
  /\ \E extra \in Unknown :
       wire' \in {extra \o Serialize(type, msg), Serialize(type, msg) \o extra}
  /\ pos' = 1
  /\ stack' = <<Frame(type, "", Len(wire'), Clear(type, got))>>
  /\ phase' = "read"
  /\ UNCHANGED <<type, event, msg, calls, got>>

-----------------------------------------------------------------------------
\* MergePartialFromCodedStream, one field at a time.

Reading == phase = "read" /\ UNCHANGED <<type, event, msg, calls, wire>>

ReadScalar ==
  /\ Reading /\ Known /\ ~Fails
  /\ WireType(Field.kind) = 0
  /\ LET v == IF Field.kind = "bool" /\ Value # 0 THEN 1 ELSE Value
     IN stack' = ReplaceTop([Top EXCEPT !.obj = Assign(Top.class, @, Field.field, v)])
  /\ pos' = After
  /\ UNCHANGED <<phase, got>>

ReadString ==
  /\ Reading /\ Known /\ ~Fails
  /\ Field.kind = "string"
  /\ stack' = ReplaceTop([Top EXCEPT !.obj = Assign(Top.class, @, Field.field, Text)])
  /\ pos' = After + Value
  /\ UNCHANGED <<phase, got>>

\* A list gets a new element; a field of one message goes on with what it holds.
ReadMessage ==
  /\ Reading /\ Known /\ ~Fails
  /\ IsMessage(Field.kind)
  /\ LET held == Top.obj[Field.field]
         obj == IF Fields(Top.class)[Field.field].label = "one" /\ held # <<>> THEN held[1]
                ELSE Blank(Field.kind)
     IN stack' = Append(stack, Frame(Field.kind, Field.field, After + Value - 1, obj))
  /\ pos' = After
  /\ UNCHANGED <<phase, got>>

\* handle_unusual: a tag the class does not know is skipped with its value.
SkipField ==
  /\ Reading /\ pos <= Top.end /\ ~Known
  /\ pos' = CASE Byte(pos) % 8 = 0 -> After
              [] Byte(pos) % 8 = 1 -> pos + 9
              [] Byte(pos) % 8 = 2 -> After + Value
              [] Byte(pos) % 8 = 5 -> pos + 5
  /\ UNCHANGED <<phase, stack, got>>

\* DO_ ... goto failure, in every message around the field.
ReadFails ==
  /\ Reading /\ Known /\ Fails
  /\ got' = FoldLeft(LAMBDA s, i : Stored(s), stack, [i \in 1..(Len(stack) - 1) |-> i])[1].obj
  /\ phase' = "rejected"
  /\ stack' = <<>>
  /\ UNCHANGED pos

\* The limit is reached: the message is stored, or the outermost one is done.
EndOfMessage ==
  /\ Reading /\ pos > Top.end
  /\ IF Len(stack) > 1
     THEN stack' = Stored(stack) /\ UNCHANGED <<phase, got>>
     ELSE stack' = <<>> /\ got' = Top.obj /\ phase' = "delivered"
  /\ UNCHANGED pos

\* The next message of the stream is read into the same object; after a failure
\* the call is over and its objects with it.
NextMessage ==
  /\ phase \in {"delivered", "rejected"}
  /\ phase' = "build"
  /\ event' = Blank(type)
  /\ msg' = event'
  /\ got' = IF phase = "rejected" THEN Blank(type) ELSE got
  /\ wire' = <<>>
  /\ pos' = 1
  /\ UNCHANGED <<type, calls, stack>>

Next ==
  \/ SetField \/ PushEvent \/ Send
  \/ ReadScalar \/ ReadString \/ ReadMessage \/ SkipField \/ ReadFails \/ EndOfMessage
  \/ NextMessage

Spec == Init /\ [][Next]_vars

-----------------------------------------------------------------------------
\* Properties.

RECURSIVE BadText(_, _)
BadText(c, m) ==
  \E f \in DOMAIN Fields(c) :
    LET kind == Fields(c)[f].kind
        held == CASE Fields(c)[f].label = "case" -> Guard(c, m, "has", f)
                  [] Fields(c)[f].label = "one" /\ ~IsMessage(kind) -> <<m[f]>>
                  [] OTHER -> m[f]
    IN \E i \in DOMAIN held : CASE kind = "string" -> ~VerifyUtf8String(held[i])
                                [] IsMessage(kind) -> BadText(kind, held[i])
                                [] OTHER -> FALSE

\* What the receiver gets is what the sender filled in: no field is lost, moved to
\* another field, cut off by a wrong length or left over from the message before, a
\* oneof keeps its case even when its value is 0, and a newer peer's fields do no
\* harm.  Clear, ByteSize, the serializers, the parser and MergeFrom all have a
\* table of the fields, and this needs the tables to agree.
Delivered == phase = "delivered" => got = event

\* The serializers send a text that is not UTF-8 and only the parser refuses it, so
\* a message is rejected exactly if it holds such a text, at whatever depth: one
\* name from the game's memory is enough to lose a whole response.
RejectedForText == phase \in {"delivered", "rejected"} => (phase = "rejected" <=> BadText(type, event))

=============================================================================
