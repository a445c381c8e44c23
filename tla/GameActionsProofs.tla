------------------------- MODULE GameActionsProofs -------------------------
(***************************************************************************)
(* What holds of GameActions for any threads, requests, definitions and    *)
(* any game: see the theorems at the end.  The invariant lists what the    *)
(* stacks may hold and which statements may be left; the rest follows from *)
(* what a thread is doing when a step is taken.                            *)
(***************************************************************************)
EXTENDS GameActions, SequenceTheorems, TLAPS

Keys == {"WM_KEYDOWN", "WM_KEYUP"}

(* The stacks: the render thread's in Handle, those of threads that are in *)
(* no function of ours but PushEvent, and the window's.                    *)
BodyShapes ==
  {<<"Body">>, <<"Body", "SendMessage">>, <<"Body", "WindowProc">>, <<"Body", "Option">>,
   <<"Body", "WindowProc", "PushEvent">>, <<"Body", "Option", "PushEvent">>}
IdleShapes == {<<>>, <<"PushEvent">>}
ProcShapes == {<<"WindowProc">>, <<"WindowProc", "PushEvent">>}
Sending == stack[Render] = <<"Body", "SendMessage">>

StacksOK ==
  /\ stack \in [Threads -> BodyShapes \cup IdleShapes \cup ProcShapes]
  /\ stack[Render] \in BodyShapes \cup IdleShapes
  /\ \A t \in Threads \ {Render} : stack[t] \in IdleShapes \cup ProcShapes
  /\ mutex = IF stack[Render] \in BodyShapes THEN Render ELSE None

(* The window's thread is in its window procedure on behalf of the render  *)
(* thread, which waits with one of Insert's messages.                      *)
CallsOK ==
  /\ \A t \in Threads : stack[t] \in ProcShapes => t = windowThread /\ Sending
  /\ Sending => window /\ windowThread # Render /\ todo # <<>> /\ Head(todo) \in Keys
  /\ \A t \in Threads :
       /\ stack[t] = <<"PushEvent">> => t \in hookThreads
       /\ stack[t] \in {<<"WindowProc", "PushEvent">>, <<"Body", "WindowProc", "PushEvent">>} =>
            "WindowProc" \in nested
       /\ stack[t] = <<"Body", "Option", "PushEvent">> => "Option" \in nested

(* What may be left of a body; of these, what still calls the game, and    *)
(* what searches for an option first.                                      *)
Finding ==
  {<<"find", "call">>, <<"WM_KEYUP", "find", "call">>, <<"WM_KEYDOWN", "WM_KEYUP", "find", "call">>,
   <<"WM_KEYUP", "WM_KEYDOWN", "WM_KEYUP", "find", "call">>,
   <<"WM_KEYDOWN", "WM_KEYUP", "WM_KEYDOWN", "WM_KEYUP", "find", "call">>}
Acting == Finding \cup {<<"call">>, <<"WM_KEYUP", "call">>, <<"WM_KEYDOWN", "WM_KEYUP", "call">>}
Rests ==
  Acting \cup {<<>>, <<"find">>, <<"invalid">>, <<"WM_KEYUP", "invalid">>,
               <<"WM_KEYDOWN", "WM_KEYUP", "invalid">>}

TodoOK ==
  /\ todo \in Rests
  /\ todo # <<>> =>
       /\ request \in Requests /\ status = None
       /\ todo \in Acting <=> Acts(request)
       /\ Kind(request) = None => todo \notin Finding
  /\ status = None => called = <<>>

(* The game has seen Insert go down: the window's thread is in the message *)
(* that said so, or the one that says that it is up again comes next.      *)
InProc == windowThread # Render /\ stack[windowThread] \in ProcShapes
KeyOK ==
  key => window /\ todo # <<>> /\ Head(todo) = IF InProc THEN "WM_KEYDOWN" ELSE "WM_KEYUP"

(* A body lasts as long as Handle, and while the window procedure runs in  *)
(* one it has not ended.                                                   *)
BodyOK ==
  /\ stack[Render] \notin BodyShapes => todo = <<>>
  /\ stack[Render] \in {<<"Body", "WindowProc">>, <<"Body", "WindowProc", "PushEvent">>} => status = None
  /\ request = None => todo = <<>> /\ status = None /\ option = None

(* The option that was found, and the number that was made of it.          *)
OptionOK ==
  /\ option # None =>
       \E o \in Numbered(Kind(request), option.texts) :
         o.text = request.option /\ o.index = option.index
  /\ option # None /\ called # <<>> /\ ~ Unregistered => called[1] = OptionId(request, option.index)

(* What TypeOK says beside the stacks and the mutex.                       *)
Basics ==
  /\ windowThread \in Threads /\ hookThreads \subseteq Threads
  /\ nested \subseteq {"WindowProc", "Option"}
  /\ window \in BOOLEAN /\ key \in BOOLEAN /\ alive \in BOOLEAN
  /\ request \in Requests \cup {None}
  /\ status \in {None, "OK", "NOT_FOUND", "INVALID_ARGUMENT", "thrown"}
  /\ requests \in 0 .. MaxRequests

ActInv ==
  /\ Basics
  /\ StacksOK
  /\ CallsOK
  /\ TodoOK
  /\ KeyOK
  /\ OptionOK
  /\ BodyOK
  /\ AnswerTellsAction
  /\ DeathBeforeAction
-----------------------------------------------------------------------------
(* Facts about the tuples.                                                 *)

LEMMA RestFacts ==
  ASSUME NEW x \in Rests, x # <<>>
  PROVE  /\ Head(x) \in Keys \cup {"find", "call", "invalid"}
         /\ Tail(x) \in Rests
         /\ Head(x) = "WM_KEYDOWN" => Tail(x) # <<>> /\ Head(Tail(x)) = "WM_KEYUP"
         /\ Head(x) = "call" => x = <<"call">> /\ Tail(x) = <<>>
         /\ Head(x) # "call" => (Tail(x) \in Acting <=> x \in Acting)
         /\ Head(x) = "find" /\ x \notin Finding => x = <<"find">>
         /\ Head(x) = "invalid" => x = <<"invalid">>
         /\ Tail(x) \in Finding => x \in Finding
<1> USE DEF Rests, Acting, Finding, Keys
<1>1. CASE x = <<"find", "call">>
  BY <1>1
<1>2. CASE x = <<"WM_KEYUP", "find", "call">>
  BY <1>2
<1>3. CASE x = <<"WM_KEYDOWN", "WM_KEYUP", "find", "call">>
  BY <1>3
<1>4. CASE x = <<"WM_KEYUP", "WM_KEYDOWN", "WM_KEYUP", "find", "call">>
  BY <1>4
<1>5. CASE x = <<"WM_KEYDOWN", "WM_KEYUP", "WM_KEYDOWN", "WM_KEYUP", "find", "call">>
  BY <1>5
<1>6. CASE x = <<"call">>
  BY <1>6
<1>7. CASE x = <<"WM_KEYUP", "call">>
  BY <1>7
<1>8. CASE x = <<"WM_KEYDOWN", "WM_KEYUP", "call">>
  BY <1>8
<1>9. CASE x = <<"find">>
  BY <1>9
<1>10. CASE x = <<"invalid">>
  BY <1>10
<1>11. CASE x = <<"WM_KEYUP", "invalid">>
  BY <1>11
<1>12. CASE x = <<"WM_KEYDOWN", "WM_KEYUP", "invalid">>
  BY <1>12
<1> QED
  BY <1>1, <1>2, <1>3, <1>4, <1>5, <1>6, <1>7, <1>8, <1>9, <1>10, <1>11, <1>12

(* After the two messages of DoAntiAFK.                                    *)
Words == Keys \cup {"find", "call", "invalid"}

LEMMA JoinedOne ==
  ASSUME NEW a \in Words
  PROVE  DoAntiAFK \o <<a>> = <<"WM_KEYDOWN", "WM_KEYUP", a>>
<1> DEFINE u == <<"WM_KEYDOWN", "WM_KEYUP", a>>
<1>1. DoAntiAFK \in Seq(Words) /\ <<a>> \in Seq(Words) /\ u \in Seq(Words)
  BY DEF DoAntiAFK, Words, Keys
<1>2. DoAntiAFK \o <<a>> \in Seq(Words) /\ Len(DoAntiAFK \o <<a>>) = 3
  BY <1>1 DEF DoAntiAFK
<1>3. \A i \in 1 .. 3 : (DoAntiAFK \o <<a>>)[i] = u[i]
  BY <1>1 DEF DoAntiAFK
<1> QED
  BY <1>1, <1>2, <1>3, SeqEqual

LEMMA JoinedTwo ==
  DoAntiAFK \o <<"find", "call">> = <<"WM_KEYDOWN", "WM_KEYUP", "find", "call">>
<1> DEFINE s == <<"find", "call">>  u == <<"WM_KEYDOWN", "WM_KEYUP", "find", "call">>
<1>1. DoAntiAFK \in Seq(Words) /\ s \in Seq(Words) /\ u \in Seq(Words)
  BY DEF DoAntiAFK, Words, Keys
<1>2. DoAntiAFK \o s \in Seq(Words) /\ Len(DoAntiAFK \o s) = 4
  BY <1>1 DEF DoAntiAFK
<1>3. \A i \in 1 .. 4 : (DoAntiAFK \o s)[i] = u[i]
  BY <1>1 DEF DoAntiAFK
<1> QED
  BY <1>1, <1>2, <1>3, SeqEqual

LEMMA JoinedObject ==
  DoAntiAFK \o InteractObject
    = <<"WM_KEYDOWN", "WM_KEYUP", "WM_KEYDOWN", "WM_KEYUP", "find", "call">>
<1> DEFINE s == <<"WM_KEYDOWN", "WM_KEYUP", "find", "call">>
           u == <<"WM_KEYDOWN", "WM_KEYUP", "WM_KEYDOWN", "WM_KEYUP", "find", "call">>
<1>1. InteractObject = s
  BY JoinedTwo DEF InteractObject
<1>2. DoAntiAFK \in Seq(Words) /\ s \in Seq(Words) /\ u \in Seq(Words)
  BY DEF DoAntiAFK, Words, Keys
<1>3. DoAntiAFK \o s \in Seq(Words) /\ Len(DoAntiAFK \o s) = 6
  BY <1>2 DEF DoAntiAFK
<1>4. \A i \in 1 .. 6 : (DoAntiAFK \o s)[i] = u[i]
  BY <1>2 DEF DoAntiAFK
<1> QED
  BY <1>1, <1>2, <1>3, <1>4, SeqEqual

LEMMA StatementsFacts ==
  ASSUME NEW r \in Requests
  PROVE  /\ Statements(r) \in Rests /\ Statements(r) # <<>>
         /\ Statements(r) \in Acting <=> Acts(r)
         /\ Kind(r) = None => Statements(r) \notin Finding
<1> USE NoneAssumption
<1>1. CASE r.method = "Interact"
  <2>1. Statements(r) = IF r.type = "Object"
                        THEN <<"WM_KEYDOWN", "WM_KEYUP", "WM_KEYDOWN", "WM_KEYUP", "find", "call">>
                        ELSE <<"WM_KEYDOWN", "WM_KEYUP", "find", "call">>
    BY <1>1, JoinedTwo, JoinedObject DEF Statements
  <2>2. Kind(r) # None
    BY <1>1, RequestsAssumption DEF Kind
  <2> QED
    BY <2>1, <2>2 DEF Acts, Rests, Acting, Finding
<1>2. CASE r.method = "DoUIAction"
  <2>1. Statements(r) = CASE r.by = "OptionId" -> <<"WM_KEYDOWN", "WM_KEYUP", "call">>
                          [] r.by = "OptionText" -> <<"WM_KEYDOWN", "WM_KEYUP", "find", "call">>
                          [] OTHER -> <<"WM_KEYDOWN", "WM_KEYUP", "invalid">>
    BY <1>2, JoinedOne, JoinedTwo DEF Statements, Words
  <2>2. Kind(r) # None
    BY <1>2 DEF Kind
  <2> QED
    BY <2>1, <2>2 DEF Acts, Rests, Acting, Finding
<1>3. CASE r.method = "BackpackItemAction"
  <2>1. Statements(r) = <<"WM_KEYDOWN", "WM_KEYUP", "find", "call">>
    BY <1>3, JoinedTwo DEF Statements
  <2>2. Kind(r) # None
    BY <1>3 DEF Kind
  <2> QED
    BY <2>1, <2>2 DEF Acts, Rests, Acting, Finding
<1>4. CASE r.method = "MoveTo"
  <2>1. Statements(r) = <<"WM_KEYDOWN", "WM_KEYUP", "call">>
    BY <1>4, JoinedOne DEF Statements, Words
  <2> QED
    BY <2>1 DEF Acts, Rests, Acting, Finding
<1>5. CASE r.method \notin {"Interact", "DoUIAction", "BackpackItemAction", "MoveTo"}
  <2>1. Statements(r) = IF r.method = "DoItemInterfaceAction" THEN <<"call">> ELSE <<"find">>
    BY <1>5 DEF Statements
  <2> QED
    BY <2>1 DEF Acts, Rests, Acting, Finding
<1> QED
  BY <1>1, <1>2, <1>3, <1>4, <1>5

LEMMA TopFacts ==
  ASSUME StacksOK, NEW t \in Threads
  PROVE  /\ Top(t) = "Body" => t = Render /\ stack[t] = <<"Body">>
         /\ Top(t) = "SendMessage" => t = Render /\ Sending
         /\ Top(t) = "WindowProc" => IF t = Render THEN stack[t] = <<"Body", "WindowProc">>
                                                   ELSE stack[t] = <<"WindowProc">>
         /\ Top(t) = "Option" => t = Render /\ stack[t] = <<"Body", "Option">>
         /\ Top(t) = "PushEvent" =>
              IF t = Render
              THEN stack[t] \in {<<"PushEvent">>, <<"Body", "WindowProc", "PushEvent">>, <<"Body", "Option", "PushEvent">>}
              ELSE stack[t] \in {<<"PushEvent">>, <<"WindowProc", "PushEvent">>}
  BY NoneAssumption DEF StacksOK, Top, Sending, BodyShapes, IdleShapes, ProcShapes

LEMMA Tuples ==
  ASSUME NEW a \in Calls, NEW b \in Calls, NEW c \in Calls
  PROVE  /\ <<>> \in Seq(Calls) /\ Len(<<>>) = 0
         /\ <<a>> \in Seq(Calls) /\ Len(<<a>>) = 1
         /\ <<a, b>> \in Seq(Calls) /\ Len(<<a, b>>) = 2
         /\ <<a, b, c>> \in Seq(Calls) /\ Len(<<a, b, c>>) = 3
  OBVIOUS

LEMMA Pushed ==
  ASSUME NEW a \in Calls, NEW b \in Calls, NEW c \in Calls
  PROVE  /\ Append(<<>>, a) = <<a>>
         /\ Append(<<a>>, b) = <<a, b>>
         /\ Append(<<a, b>>, c) = <<a, b, c>>
<1>1. Append(<<>>, a) = <<a>>
  <2> DEFINE u == Append(<<>>, a)
  <2>1. u \in Seq(Calls) /\ Len(u) = 1 /\ u[1] = a
    OBVIOUS
  <2> QED
    BY <2>1, Tuples, SeqEqual
<1>2. Append(<<a>>, b) = <<a, b>>
  <2> DEFINE u == Append(<<a>>, b)
  <2>1. u \in Seq(Calls) /\ Len(u) = 2 /\ \A i \in 1 .. 2 : u[i] = <<a, b>>[i]
    BY Tuples
  <2>2. <<a, b>> \in Seq(Calls) /\ Len(<<a, b>>) = 2
    BY Tuples
  <2> HIDE DEF u
  <2>3. u = <<a, b>>
    BY <2>1, <2>2, SeqEqual
  <2> QED
    BY <2>3 DEF u
<1>3. Append(<<a, b>>, c) = <<a, b, c>>
  <2> DEFINE u == Append(<<a, b>>, c)
  <2>1. u \in Seq(Calls) /\ Len(u) = 3 /\ \A i \in 1 .. 3 : u[i] = <<a, b, c>>[i]
    BY Tuples
  <2>2. <<a, b, c>> \in Seq(Calls) /\ Len(<<a, b, c>>) = 3
    BY Tuples
  <2> HIDE DEF u
  <2>3. u = <<a, b, c>>
    BY <2>1, <2>2, SeqEqual
  <2> QED
    BY <2>3 DEF u
<1> QED
  BY <1>1, <1>2, <1>3

LEMMA PopPushed ==
  ASSUME NEW s \in Seq(Calls), NEW c \in Calls
  PROVE  SubSeq(Append(s, c), 1, Len(Append(s, c)) - 1) = s
<1> DEFINE u == Append(s, c)
           v == SubSeq(u, 1, Len(u) - 1)
<1>1. u \in Seq(Calls) /\ Len(u) = Len(s) + 1 /\ \A i \in 1 .. Len(s) : u[i] = s[i]
  OBVIOUS
<1>2. v \in Seq(Calls) /\ Len(v) = Len(s) /\ \A i \in 1 .. Len(s) : v[i] = u[i]
  BY <1>1
<1> QED
  BY <1>1, <1>2, SeqEqual

LEMMA Popped ==
  ASSUME NEW a \in Calls, NEW b \in Calls, NEW c \in Calls
  PROVE  /\ SubSeq(<<a>>, 1, Len(<<a>>) - 1) = <<>>
         /\ SubSeq(<<a, b>>, 1, Len(<<a, b>>) - 1) = <<a>>
         /\ SubSeq(<<a, b, c>>, 1, Len(<<a, b, c>>) - 1) = <<a, b>>
<1>1. SubSeq(<<a>>, 1, Len(<<a>>) - 1) = <<>>
  <2>1. <<>> \in Seq(Calls) /\ Append(<<>>, a) = <<a>>
    BY Tuples, Pushed
  <2> QED
    BY <2>1, PopPushed
<1>2. SubSeq(<<a, b>>, 1, Len(<<a, b>>) - 1) = <<a>>
  <2>1. <<a>> \in Seq(Calls) /\ Append(<<a>>, b) = <<a, b>>
    BY Tuples, Pushed
  <2>2. SubSeq(Append(<<a>>, b), 1, Len(Append(<<a>>, b)) - 1) = <<a>>
    BY <2>1, PopPushed, Zenon
  <2> QED
    BY <2>1, <2>2, Zenon
<1>3. SubSeq(<<a, b, c>>, 1, Len(<<a, b, c>>) - 1) = <<a, b>>
  <2>1. <<a, b>> \in Seq(Calls) /\ Append(<<a, b>>, c) = <<a, b, c>>
    BY Tuples, Pushed
  <2>2. SubSeq(Append(<<a, b>>, c), 1, Len(Append(<<a, b>>, c)) - 1) = <<a, b>>
    BY <2>1, PopPushed, Zenon
  <2> QED
    BY <2>1, <2>2, Zenon
<1> QED
  BY <1>1, <1>2, <1>3

LEMMA StacksTyped ==
  ASSUME StacksOK, NEW t \in Threads
  PROVE  stack[t] \in Seq(Calls) /\ Len(stack[t]) <= 3
<1> DEFINE Typed(x) == x \in Seq(Calls) /\ Len(x) <= 3
<1>1. \A a, b, c \in Calls : Typed(<<>>) /\ Typed(<<a>>) /\ Typed(<<a, b>>) /\ Typed(<<a, b, c>>)
  <2> TAKE a, b, c \in Calls
  <2> QED
    BY Tuples
<1> HIDE DEF Typed
<1>2. \A x \in BodyShapes : Typed(x)
  BY <1>1 DEF BodyShapes, Calls
<1>3. \A x \in IdleShapes \cup ProcShapes : Typed(x)
  BY <1>1 DEF IdleShapes, ProcShapes, Calls
<1>4. Typed(stack[t])
  BY <1>2, <1>3 DEF StacksOK
<1> QED
  BY <1>4 DEF Typed

LEMMA InvType == ActInv => TypeOK
<1> SUFFICES ASSUME ActInv PROVE TypeOK
  OBVIOUS
<1>1. \A t \in Threads : stack[t] \in Seq(Calls) /\ Len(stack[t]) <= 3
  BY StacksTyped DEF ActInv
<1>2. mutex \in {None, Render}
  BY DEF ActInv, StacksOK
<1> QED
  BY <1>1, <1>2 DEF ActInv, Basics, TypeOK

(* The calls and returns that occur, spelled out.                          *)
LEMMA CallsMade ==
  /\ Append(<<>>, "Body") = <<"Body">>
  /\ Append(<<>>, "WindowProc") = <<"WindowProc">>
  /\ Append(<<>>, "PushEvent") = <<"PushEvent">>
  /\ Append(<<"Body">>, "SendMessage") = <<"Body", "SendMessage">>
  /\ Append(<<"Body">>, "WindowProc") = <<"Body", "WindowProc">>
  /\ Append(<<"Body">>, "Option") = <<"Body", "Option">>
  /\ Append(<<"WindowProc">>, "PushEvent") = <<"WindowProc", "PushEvent">>
  /\ Append(<<"Body", "WindowProc">>, "PushEvent") = <<"Body", "WindowProc", "PushEvent">>
  /\ Append(<<"Body", "Option">>, "PushEvent") = <<"Body", "Option", "PushEvent">>
  BY Pushed DEF Calls

Returned(s) == SubSeq(s, 1, Len(s) - 1)

LEMMA CallsReturned ==
  /\ Returned(<<"Body">>) = <<>>
  /\ Returned(<<"WindowProc">>) = <<>>
  /\ Returned(<<"PushEvent">>) = <<>>
  /\ Returned(<<"Body", "SendMessage">>) = <<"Body">>
  /\ Returned(<<"Body", "WindowProc">>) = <<"Body">>
  /\ Returned(<<"Body", "Option">>) = <<"Body">>
  /\ Returned(<<"WindowProc", "PushEvent">>) = <<"WindowProc">>
  /\ Returned(<<"Body", "WindowProc", "PushEvent">>) = <<"Body", "WindowProc">>
  /\ Returned(<<"Body", "Option", "PushEvent">>) = <<"Body", "Option">>
<1>1. \A a, b, c \in Calls : /\ Returned(<<a>>) = <<>>
                            /\ Returned(<<a, b>>) = <<a>>
                            /\ Returned(<<a, b, c>>) = <<a, b>>
  BY Popped, Zenon DEF Returned
<1> QED
  BY <1>1 DEF Calls
-----------------------------------------------------------------------------
(* The initial states, and the steps.                                      *)

LEMMA InitInv == Init => ActInv
<1> SUFFICES ASSUME Init PROVE ActInv
  OBVIOUS
<1> USE DEF Init
<1>1. Basics
  <2>1. hookThreads \subseteq Threads /\ nested \subseteq {"WindowProc", "Option"}
    BY Zenon
  <2>2. requests \in 0 .. MaxRequests
    BY RequestsAssumption
  <2>3. window \in BOOLEAN /\ key \in BOOLEAN /\ alive \in BOOLEAN
    OBVIOUS
  <2> QED
    BY <2>1, <2>2, <2>3 DEF Basics
<1>2. StacksOK
  BY ThreadsAssumption DEF StacksOK, BodyShapes, IdleShapes
<1>3. CallsOK
  BY ThreadsAssumption DEF CallsOK, Sending, ProcShapes
<1>4. TodoOK /\ KeyOK /\ OptionOK /\ AnswerTellsAction /\ DeathBeforeAction
  BY DEF TodoOK, KeyOK, OptionOK, AnswerTellsAction, DeathBeforeAction, Rests
<1>5. BodyOK
  BY ThreadsAssumption DEF BodyOK
<1> QED
  BY <1>1, <1>2, <1>3, <1>4, <1>5 DEF ActInv

LEMMA FindGameWindowInv == ActInv /\ FindGameWindow => ActInv'
<1> SUFFICES ASSUME ActInv, FindGameWindow PROVE ActInv'
  OBVIOUS
<1> USE DEF ActInv, FindGameWindow, game, body
<1>1. Basics'
  BY DEF Basics
<1>2. StacksOK'
  BY DEF StacksOK
<1>3. CallsOK'
  BY DEF CallsOK, Sending
<1>4. TodoOK' /\ OptionOK' /\ AnswerTellsAction'
  BY DEF TodoOK, OptionOK, AnswerTellsAction, Unregistered
<1>5. KeyOK' /\ BodyOK' /\ DeathBeforeAction'
  BY DEF KeyOK, InProc, BodyOK, DeathBeforeAction
<1> QED
  BY <1>1, <1>2, <1>3, <1>4, <1>5

LEMMA EnterHandleInv == ActInv /\ EnterHandle => ActInv'
<1> SUFFICES ASSUME ActInv, EnterHandle PROVE ActInv'
  OBVIOUS
<1> USE ThreadsAssumption DEF ActInv, game, body
<1>1. /\ stack' = [stack EXCEPT ![Render] = <<"Body">>] /\ stack[Render] = <<>> /\ alive'
      /\ todo = <<>> /\ ~ key
  BY CallsMade DEF EnterHandle, Push, BodyOK, BodyShapes, KeyOK
<1>2. Basics'
  BY DEF Basics, EnterHandle
<1>3. StacksOK'
  BY <1>1 DEF StacksOK, EnterHandle, BodyShapes, IdleShapes, ProcShapes
<1>4. \A t \in Threads : stack[t] \notin ProcShapes /\ stack'[t] \notin ProcShapes
  BY <1>1 DEF CallsOK, Sending, StacksOK, ProcShapes
<1>5. CallsOK'
  <2>1. UNCHANGED <<windowThread, hookThreads, nested, window>> /\ ~ Sending'
    BY <1>1 DEF EnterHandle, Sending, StacksOK
  <2> QED
    BY <1>1, <1>4, <2>1 DEF CallsOK, StacksOK
<1>6. TodoOK' /\ OptionOK' /\ AnswerTellsAction'
  BY DEF EnterHandle, TodoOK, OptionOK, AnswerTellsAction, Rests
<1>7. KeyOK' /\ DeathBeforeAction'
  BY <1>1 DEF EnterHandle, KeyOK, DeathBeforeAction
<1>8. BodyOK'
  BY <1>1 DEF BodyOK, EnterHandle
<1> QED
  BY <1>2, <1>3, <1>5, <1>6, <1>7, <1>8

LEMMA BeginInv == ASSUME NEW r \in Requests PROVE ActInv /\ Begin(r) => ActInv'
<1> SUFFICES ASSUME ActInv, Begin(r) PROVE ActInv'
  OBVIOUS
<1> USE ThreadsAssumption, NoneAssumption DEF ActInv, game
<1>1. /\ stack[Render] = <<"Body">> /\ ~ Sending /\ alive'
      /\ todo = <<>> /\ status = None /\ called = <<>> /\ option = None /\ ~ key
  BY TopFacts DEF Begin, Sending, BodyOK, TodoOK, KeyOK
<1>2. Basics'
  BY RequestsAssumption DEF Basics, Begin
<1>3. StacksOK'
  BY DEF StacksOK, Begin
<1>4. CallsOK'
  BY <1>1 DEF CallsOK, Sending, Begin
<1>5. TodoOK'
  BY <1>1, StatementsFacts DEF TodoOK, Begin, Acts, Kind
<1>6. KeyOK' /\ OptionOK' /\ AnswerTellsAction' /\ DeathBeforeAction'
  BY <1>1 DEF Begin, KeyOK, OptionOK, AnswerTellsAction, DeathBeforeAction
<1>7. BodyOK'
  BY <1>1, RequestsAssumption DEF Begin, BodyOK, BodyShapes
<1> QED
  BY <1>2, <1>3, <1>4, <1>5, <1>6, <1>7

LEMMA LeaveHandleInv == ActInv /\ LeaveHandle => ActInv'
<1> SUFFICES ASSUME ActInv, LeaveHandle PROVE ActInv'
  OBVIOUS
<1> USE ThreadsAssumption DEF ActInv, game, body
<1>1. stack[Render] = <<"Body">> /\ stack' = [stack EXCEPT ![Render] = <<>>] /\ ~ key /\ alive'
  BY TopFacts, CallsReturned DEF LeaveHandle, Pop, Returned, KeyOK, StacksOK
<1>2. Basics'
  BY DEF Basics, LeaveHandle
<1>3. StacksOK'
  BY <1>1 DEF StacksOK, LeaveHandle, BodyShapes, IdleShapes, ProcShapes
<1>4. \A t \in Threads : stack[t] \notin ProcShapes /\ stack'[t] \notin ProcShapes
  BY <1>1 DEF CallsOK, Sending, StacksOK, ProcShapes
<1>5. CallsOK'
  BY <1>1, <1>4 DEF CallsOK, Sending, StacksOK, LeaveHandle
<1>6. TodoOK' /\ OptionOK' /\ AnswerTellsAction'
  BY DEF LeaveHandle, TodoOK, OptionOK, AnswerTellsAction, Unregistered
<1>7. KeyOK' /\ DeathBeforeAction'
  BY <1>1 DEF LeaveHandle, KeyOK, DeathBeforeAction, Basics
<1>8. BodyOK'
  BY <1>1 DEF LeaveHandle, BodyOK, StacksOK
<1> QED
  BY <1>2, <1>3, <1>5, <1>6, <1>7, <1>8

(* A body that is at one of its statements.                                *)
LEMMA AtStatement ==
  ASSUME ActInv, NEW s, Statement(s)
  PROVE  /\ alive /\ stack[Render] = <<"Body">> /\ ~ Sending /\ mutex = Render
         /\ todo \in Rests /\ todo # <<>> /\ Head(todo) = s
         /\ request \in Requests /\ status = None /\ called = <<>>
         /\ \A t \in Threads : stack[t] \notin ProcShapes
         /\ key => s = "WM_KEYUP"
<1> USE DEF ActInv
<1>1. stack[Render] = <<"Body">>
  BY ThreadsAssumption, TopFacts DEF Statement
<1>2. ~ Sending
  BY <1>1 DEF Sending
<1>3. \A t \in Threads : stack[t] \notin ProcShapes
  BY <1>2 DEF CallsOK
<1>4. key => s = "WM_KEYUP"
  BY <1>3 DEF KeyOK, InProc, Statement, Basics
<1> QED
  BY <1>1, <1>2, <1>3, <1>4 DEF Statement, StacksOK, BodyShapes, TodoOK

LEMMA AnswerInv ==
  ASSUME ActInv, NEW w \in {"find", "invalid"}, Statement(w),
         NEW s \in {"OK", "NOT_FOUND", "INVALID_ARGUMENT"}, Answer(s),
         s = "OK" => ~ Acts(request)
  PROVE  ActInv'
<1> USE NoneAssumption, AtStatement DEF ActInv, game
<1>1. Basics'
  BY DEF Basics, Answer
<1>2. StacksOK'
  BY DEF StacksOK, Answer
<1>3. CallsOK'
  BY DEF CallsOK, Sending, Answer
<1>4. TodoOK' /\ KeyOK'
  BY DEF TodoOK, KeyOK, Answer, Rests
<1>5. OptionOK' /\ AnswerTellsAction' /\ DeathBeforeAction'
  BY DEF OptionOK, AnswerTellsAction, DeathBeforeAction, Answer, Unregistered
<1>6. BodyOK'
  BY DEF BodyOK, Answer, Basics, BodyShapes
<1> QED
  BY <1>1, <1>2, <1>3, <1>4, <1>5, <1>6

LEMMA ThrowInv ==
  ASSUME ActInv, NEW w \in {"find", "call"}, Statement(w), Throw
  PROVE  ActInv'
<1> USE NoneAssumption, ThreadsAssumption, AtStatement DEF ActInv, game
<1>1. Basics'
  BY DEF Basics, Throw
<1>2. StacksOK'
  BY DEF StacksOK, Throw, BodyShapes, IdleShapes
<1>3. CallsOK'
  BY DEF CallsOK, Sending, Throw, StacksOK, ProcShapes
<1>4. TodoOK' /\ KeyOK'
  BY DEF TodoOK, KeyOK, Throw, Rests
<1>5. OptionOK' /\ AnswerTellsAction' /\ DeathBeforeAction'
  BY DEF OptionOK, AnswerTellsAction, DeathBeforeAction, Throw, Unregistered
<1>6. BodyOK'
  BY RequestsAssumption DEF BodyOK, Throw, StacksOK
<1> QED
  BY <1>1, <1>2, <1>3, <1>4, <1>5, <1>6

LEMMA DieInv ==
  ASSUME ActInv, Die, called = <<>> \/ "Option" \in nested
  PROVE  ActInv'
<1> USE DEF ActInv, Die, game, body
<1>1. Basics'
  BY DEF Basics
<1>2. StacksOK' /\ CallsOK'
  BY DEF StacksOK, CallsOK, Sending
<1>3. TodoOK' /\ KeyOK' /\ BodyOK'
  BY DEF TodoOK, KeyOK, InProc, BodyOK
<1>4. OptionOK' /\ AnswerTellsAction' /\ DeathBeforeAction'
  BY DEF OptionOK, AnswerTellsAction, DeathBeforeAction, Unregistered
<1> QED
  BY <1>1, <1>2, <1>3, <1>4

(* What is in options().                                                   *)
LEMMA NumberedFacts ==
  ASSUME NEW kind, NEW texts, NEW o \in Numbered(kind, texts)
  PROVE  \/ /\ o.at \in Slots /\ (kind = "Backpack" => o.at > 0)
            /\ o.index = IF kind = "Widget" THEN o.at + 1 ELSE o.at
            /\ o.text = texts[o.at]
         \/ kind = "Backpack" /\ o.at = 6 /\ o.index = 0 /\ o.text = "Use"
         \/ kind = "Backpack" /\ o.at = 7 /\ o.index = 7 /\ o.text = "Examine"
<1> DEFINE own == {i \in Slots : texts[i] # "" /\ (kind = "Backpack" => i > 0)}
           Of(i) == [at |-> i, index |-> IF kind = "Widget" THEN i + 1 ELSE i, text |-> texts[i]]
<1>1. CASE \E i \in own : o = Of(i)
  <2>1. PICK i \in own : o = Of(i)
    BY <1>1
  <2>2. i \in Slots /\ (kind = "Backpack" => i > 0)
    OBVIOUS
  <2>3. o.at = i /\ o.text = texts[i]
    BY <2>1
  <2>4. o.index = IF kind = "Widget" THEN i + 1 ELSE i
    BY <2>1
  <2> QED
    BY <2>2, <2>3, <2>4
<1>2. CASE kind = "Backpack" /\ o \in {[at |-> 6, index |-> 0, text |-> "Use"], [at |-> 7, index |-> 7, text |-> "Examine"]}
  BY <1>2
<1>3. \/ \E i \in own : o = Of(i)
      \/ kind = "Backpack" /\ o \in {[at |-> 6, index |-> 0, text |-> "Use"], [at |-> 7, index |-> 7, text |-> "Examine"]}
  BY DEF Numbered
<1> QED
  BY <1>1, <1>2, <1>3

LEMMA FirstIn ==
  ASSUME NEW S, S # {}, \A o \in S : o.at \in 0 .. 7
  PROVE  First(S) \in S
<1>1. \E o \in S : \A p \in S : o.at <= p.at
  OBVIOUS
<1> QED
  BY <1>1 DEF First

LEMMA FindOptionInv == ASSUME NEW texts PROVE ActInv /\ FindOption(texts) => ActInv'
<1> SUFFICES ASSUME ActInv, FindOption(texts) PROVE ActInv'
  OBVIOUS
<1> USE NoneAssumption DEF ActInv, game
<1>1. Statement("find")
  BY DEF FindOption
<1>2. Basics'
  BY DEF Basics, FindOption
<1>3. StacksOK'
  BY DEF StacksOK, FindOption
<1>4. CallsOK'
  BY <1>1, AtStatement DEF CallsOK, Sending, FindOption
<1>5. Tail(todo) \in Rests /\ (Tail(todo) \in Acting <=> todo \in Acting)
  BY <1>1, AtStatement, RestFacts
<1>6. TodoOK' /\ KeyOK'
  BY <1>1, <1>5, AtStatement DEF TodoOK, KeyOK, FindOption, Acts, Kind
<1>7. OptionOK'
  <2> DEFINE options == Filtered(request, texts)
  <2>1. \A o \in options : o.at \in 0 .. 7 /\ o \in Numbered(Kind(request), texts) /\ o.text = request.option
    BY NumberedFacts DEF Filtered, Slots
  <2>2. options # {}
    BY DEF FindOption
  <2> HIDE DEF options
  <2>3. First(options) \in options
    BY <2>1, <2>2, FirstIn
  <2>4. option'.texts = texts /\ option'.index = First(options).index
    BY DEF FindOption, options
  <2>5. request' = request /\ called' = <<>>
    BY <1>1, AtStatement DEF FindOption
  <2> QED
    BY <2>1, <2>3, <2>4, <2>5 DEF OptionOK
<1>8. AnswerTellsAction' /\ DeathBeforeAction'
  BY <1>1, AtStatement DEF AnswerTellsAction, DeathBeforeAction, FindOption
<1>9. BodyOK'
  BY <1>1, AtStatement, RequestsAssumption DEF BodyOK, FindOption, BodyShapes
<1> QED
  BY <1>2, <1>3, <1>4, <1>6, <1>7, <1>8, <1>9

LEMMA CallOptionInv == ActInv /\ CallOption => ActInv'
<1> SUFFICES ASSUME ActInv, CallOption PROVE ActInv'
  OBVIOUS
<1> USE NoneAssumption, ThreadsAssumption DEF ActInv, game
<1>1. Statement("call")
  BY DEF CallOption
<1>2. todo = <<"call">> /\ todo' = <<>> /\ Acts(request) /\ status' = "OK"
  BY <1>1, AtStatement, RestFacts DEF CallOption, TodoOK, Acting
<1>3. stack' = [stack EXCEPT ![Render] = <<"Body", "Option">>]
  BY <1>1, AtStatement, CallsMade DEF CallOption, Push
<1>4. called' = <<IF option = None \/ Unregistered THEN None ELSE OptionId(request, option.index)>>
  <2> DEFINE number == IF option = None \/ Unregistered THEN None ELSE OptionId(request, option.index)
  <2>1. called' = Append(<<>>, number)
    BY <1>1, AtStatement DEF CallOption
  <2> HIDE DEF number
  <2>2. Append(<<>>, number) = <<number>>
    <3> DEFINE u == Append(<<>>, number)
    <3>1. <<>> \in Seq({number}) /\ <<number>> \in Seq({number})
      OBVIOUS
    <3>2. u \in Seq({number}) /\ Len(u) = 1 /\ u[1] = number
      BY <3>1
    <3> HIDE DEF u
    <3>3. u = <<number>>
      BY <3>1, <3>2, SeqEqual
    <3> QED
      BY <3>3 DEF u
  <2> QED
    BY <2>1, <2>2 DEF number
<1>5. Basics'
  BY DEF Basics, CallOption
<1>6. StacksOK'
  BY <1>1, <1>3, AtStatement DEF StacksOK, CallOption, BodyShapes
<1>7. CallsOK'
  <2>1. ~ Sending /\ stack'[Render] = <<"Body", "Option">>
    BY <1>1, <1>3, AtStatement DEF StacksOK
  <2>2. \A t \in Threads \ {Render} : stack'[t] = stack[t]
    BY <1>3 DEF StacksOK
  <2>3. ~ Sending'
    BY <2>1 DEF Sending
  <2>4. \A t \in Threads : stack'[t] \notin ProcShapes
    BY <1>1, <2>1, <2>2, AtStatement DEF ProcShapes
  <2>5. UNCHANGED <<hookThreads, nested>>
    BY DEF CallOption
  <2> QED
    BY <2>1, <2>2, <2>3, <2>4, <2>5 DEF CallsOK
<1>8. TodoOK' /\ KeyOK'
  BY <1>1, <1>2, AtStatement DEF TodoOK, KeyOK, CallOption, Rests
<1>9. OptionOK'
  BY <1>1, <1>4, AtStatement DEF OptionOK, CallOption, Unregistered
<1>10. AnswerTellsAction' /\ DeathBeforeAction'
  BY <1>1, <1>2, <1>4, AtStatement DEF AnswerTellsAction, DeathBeforeAction, CallOption, Acts
<1>11. BodyOK'
  BY <1>1, <1>2, <1>3, AtStatement, RequestsAssumption DEF BodyOK, CallOption, StacksOK
<1> QED
  BY <1>5, <1>6, <1>7, <1>8, <1>9, <1>10, <1>11

LEMMA SendMessageInv == ASSUME NEW m \in Keys PROVE ActInv /\ SendMessage(m) => ActInv'
<1> SUFFICES ASSUME ActInv, SendMessage(m) PROVE ActInv'
  OBVIOUS
<1> USE NoneAssumption, ThreadsAssumption DEF ActInv, game
<1>1. Statement(m) /\ alive'
  BY DEF SendMessage, Statement
<1>2. /\ Tail(todo) \in Rests /\ (Tail(todo) \in Acting <=> todo \in Acting)
      /\ Tail(todo) \in Finding => todo \in Finding
      /\ m = "WM_KEYDOWN" => Tail(todo) # <<>> /\ Head(Tail(todo)) = "WM_KEYUP"
  BY <1>1, AtStatement, RestFacts DEF Keys
<1>3. /\ UNCHANGED <<windowThread, hookThreads, nested, window, mutex, request, option, called, status, requests>>
      /\ status = None /\ called = <<>>
  BY <1>1, AtStatement DEF SendMessage
<1>4. OptionOK' /\ AnswerTellsAction' /\ DeathBeforeAction'
  BY <1>1, <1>3 DEF OptionOK, AnswerTellsAction, DeathBeforeAction
<1>5. stack'[Render] \in BodyShapes /\ status' = None /\ request' # None => BodyOK'
  BY DEF BodyOK
<1>6. request' # None /\ status' = None
  BY <1>1, <1>3, AtStatement, RequestsAssumption
<1>7. CASE ~ window
  <2>1. todo' = Tail(todo) /\ UNCHANGED <<stack, key>> /\ ~ key
    BY <1>7 DEF SendMessage, KeyOK
  <2>2. Basics' /\ StacksOK' /\ KeyOK'
    BY <1>1, <1>3, <2>1 DEF Basics, StacksOK, KeyOK, Statement
  <2>3. CallsOK' /\ TodoOK'
    BY <1>1, <1>2, <1>3, <2>1, AtStatement DEF CallsOK, Sending, TodoOK, Acts, Kind
  <2> QED
    BY <1>4, <1>5, <1>6, <2>1, <2>2, <2>3, AtStatement, <1>1 DEF BodyShapes
<1>8. CASE window /\ windowThread = Render
  <2>1. /\ todo' = Tail(todo) /\ key' = (m = "WM_KEYDOWN")
        /\ stack' = [stack EXCEPT ![Render] = <<"Body", "WindowProc">>]
    BY <1>1, <1>8, AtStatement, CallsMade DEF SendMessage, Push
  <2>2. Basics' /\ KeyOK'
    BY <1>1, <1>2, <1>3, <1>8, <2>1 DEF Basics, KeyOK, InProc
  <2>3. StacksOK'
    BY <1>1, <1>3, <2>1, AtStatement DEF StacksOK, BodyShapes
  <2>4. CallsOK'
    BY <1>1, <1>3, <2>1, AtStatement DEF CallsOK, Sending, ProcShapes, StacksOK
  <2>5. TodoOK'
    BY <1>1, <1>2, <1>3, <2>1, AtStatement DEF TodoOK, Acts, Kind
  <2>6. stack'[Render] \in BodyShapes
    BY <2>1 DEF BodyShapes, StacksOK
  <2> QED
    BY <1>4, <1>5, <1>6, <2>2, <2>3, <2>4, <2>5, <2>6
<1>9. CASE window /\ windowThread # Render
  <2>1. /\ UNCHANGED <<todo, key>>
        /\ stack' = [stack EXCEPT ![Render] = <<"Body", "SendMessage">>]
    BY <1>1, <1>3, <1>9, AtStatement, CallsMade DEF SendMessage, Push
  <2>2. Basics' /\ KeyOK'
    BY <1>1, <1>3, <1>9, <2>1 DEF Basics, KeyOK, InProc
  <2>3. StacksOK'
    BY <1>1, <1>3, <2>1, AtStatement DEF StacksOK, BodyShapes
  <2>4. CallsOK'
    BY <1>1, <1>3, <1>9, <2>1, AtStatement DEF CallsOK, Sending, ProcShapes, StacksOK
  <2>5. TodoOK'
    BY <1>3, <2>1 DEF TodoOK
  <2>6. stack'[Render] \in BodyShapes
    BY <2>1 DEF BodyShapes, StacksOK
  <2> QED
    BY <1>4, <1>5, <1>6, <2>2, <2>3, <2>4, <2>5, <2>6
<1> QED
  BY <1>7, <1>8, <1>9 DEF Basics

LEMMA WindowProcInv == ActInv /\ WindowProc => ActInv'
<1> SUFFICES ASSUME ActInv, WindowProc PROVE ActInv'
  OBVIOUS
<1> USE NoneAssumption, ThreadsAssumption DEF ActInv, game, body
<1>1. /\ Sending /\ window /\ windowThread \in Threads \ {Render} /\ stack[windowThread] = <<>>
      /\ todo # <<>> /\ Head(todo) \in Keys
  BY TopFacts DEF WindowProc, CallsOK, Basics
<1>2. stack' = [stack EXCEPT ![windowThread] = <<"WindowProc">>]
  BY <1>1, CallsMade DEF WindowProc, Push
<1>3. /\ UNCHANGED <<windowThread, hookThreads, nested, window, mutex, todo>>
      /\ UNCHANGED <<request, option, called, status, requests, alive>> /\ alive
      /\ key' = (Head(todo) = "WM_KEYDOWN")
  BY DEF WindowProc
<1>4. Basics'
  BY <1>3 DEF Basics
<1>5. StacksOK'
  BY <1>1, <1>2, <1>3 DEF StacksOK, ProcShapes
<1>6. CallsOK'
  BY <1>1, <1>2, <1>3 DEF CallsOK, StacksOK, Sending
<1>7. KeyOK'
  BY <1>1, <1>2, <1>3 DEF KeyOK, InProc, StacksOK, ProcShapes
<1>8. TodoOK' /\ OptionOK' /\ AnswerTellsAction' /\ DeathBeforeAction'
  BY <1>3 DEF TodoOK, OptionOK, AnswerTellsAction, DeathBeforeAction, Unregistered
<1>9. BodyOK'
  BY <1>1, <1>2, <1>3 DEF BodyOK, StacksOK
<1> QED
  BY <1>4, <1>5, <1>6, <1>7, <1>8, <1>9

LEMMA ReturnInv == ASSUME NEW t \in Threads PROVE ActInv /\ Return(t) => ActInv'
<1> SUFFICES ASSUME ActInv, Return(t) PROVE ActInv'
  OBVIOUS
<1> USE NoneAssumption, ThreadsAssumption DEF ActInv, game
<1>1. /\ UNCHANGED <<windowThread, hookThreads, nested, window, mutex, key>>
      /\ UNCHANGED <<request, option, called, status, requests, alive>> /\ alive
  BY DEF Return
<1>2. Basics'
  BY <1>1 DEF Basics
<1>3. OptionOK' /\ AnswerTellsAction' /\ DeathBeforeAction'
  BY <1>1 DEF OptionOK, AnswerTellsAction, DeathBeforeAction, Unregistered
<1>4. CASE t = Render
  <2>1. stack[Render] \in {<<"Body", "WindowProc">>, <<"Body", "Option">>} /\ UNCHANGED todo
    BY <1>4, TopFacts DEF Return
  <2>2. stack' = [stack EXCEPT ![Render] = <<"Body">>]
    BY <1>4, <2>1, CallsReturned DEF Return, Pop, Returned, StacksOK
  <2>3. ~ Sending /\ ~ Sending'
    BY <2>1, <2>2 DEF Sending, StacksOK
  <2>4. StacksOK'
    BY <1>1, <2>1, <2>2 DEF StacksOK, BodyShapes
  <2>5. CallsOK'
    BY <1>1, <2>2, <2>3 DEF CallsOK, StacksOK, ProcShapes
  <2>6. TodoOK' /\ KeyOK'
    BY <1>1, <2>1, <2>2 DEF TodoOK, KeyOK, InProc, StacksOK
  <2>7. BodyOK'
    BY <1>1, <2>1, <2>2 DEF BodyOK, StacksOK, BodyShapes
  <2> QED
    BY <1>2, <1>3, <2>4, <2>5, <2>6, <2>7
<1>5. CASE t # Render
  <2>1. stack[t] = <<"WindowProc">> /\ t = windowThread /\ Sending
    BY <1>5, TopFacts DEF Return, CallsOK, ProcShapes
  <2>2. todo' = Tail(todo) /\ todo \in Rests /\ todo # <<>> /\ Head(todo) \in Keys
    BY <1>5, <2>1 DEF Return, CallsOK, TodoOK
  <2>3. stack' = [stack EXCEPT ![t] = <<>>, ![Render] = <<"Body">>]
    BY <1>5, <2>1, CallsReturned DEF Return, Pop, Returned, StacksOK, Sending
  <2>4. StacksOK'
    BY <1>1, <1>5, <2>1, <2>3 DEF StacksOK, BodyShapes, IdleShapes, Sending
  <2>5. ~ Sending' /\ \A u \in Threads : stack'[u] \notin ProcShapes
    BY <1>5, <2>1, <2>3 DEF Sending, CallsOK, StacksOK, ProcShapes
  <2>6. CallsOK'
    BY <1>1, <2>3, <2>5 DEF CallsOK, StacksOK
  <2>7. /\ Tail(todo) \in Rests /\ (Tail(todo) \in Acting <=> todo \in Acting)
        /\ Tail(todo) \in Finding => todo \in Finding
        /\ Head(todo) = "WM_KEYDOWN" => Tail(todo) # <<>> /\ Head(Tail(todo)) = "WM_KEYUP"
    BY <2>2, RestFacts DEF Keys
  <2>8. TodoOK'
    BY <1>1, <2>2, <2>7 DEF TodoOK, Acts, Kind
  <2>9. KeyOK'
    BY <1>1, <1>5, <2>1, <2>2, <2>5, <2>7 DEF KeyOK, InProc, ProcShapes
  <2>10. BodyOK'
    <3>1. stack'[Render] = <<"Body">>
      BY <1>5, <2>3 DEF StacksOK
    <3>2. request # None
      BY <2>2, RequestsAssumption DEF TodoOK
    <3> QED
      BY <1>1, <3>1, <3>2 DEF BodyOK, BodyShapes
  <2> QED
    BY <1>2, <1>3, <2>4, <2>6, <2>8, <2>9, <2>10
<1> QED
  BY <1>4, <1>5

(* Steps of a hook change the stacks only.                                 *)
LEMMA StackOnly ==
  ASSUME ActInv, alive, StacksOK', CallsOK', BodyOK', InProc' = InProc,
         UNCHANGED <<game, window, mutex, key, body, alive>>
  PROVE  ActInv'
<1> USE DEF ActInv, game, body
<1>1. Basics'
  BY DEF Basics
<1>2. TodoOK' /\ KeyOK'
  BY DEF TodoOK, KeyOK
<1>3. OptionOK' /\ AnswerTellsAction' /\ DeathBeforeAction'
  BY DEF OptionOK, AnswerTellsAction, DeathBeforeAction, Unregistered
<1> QED
  BY <1>1, <1>2, <1>3

LEMMA CallHookInv == ASSUME NEW t \in Threads PROVE ActInv /\ CallHook(t) => ActInv'
<1> SUFFICES ASSUME ActInv, CallHook(t) PROVE ActInv'
  OBVIOUS
<1> USE NoneAssumption, ThreadsAssumption DEF ActInv
<1>1. alive /\ UNCHANGED <<game, window, mutex, key, body, alive>>
  BY DEF CallHook
<1>2. /\ UNCHANGED <<windowThread, hookThreads, nested, window, mutex, todo>>
      /\ UNCHANGED <<request, option, status>> /\ windowThread \in Threads
  BY <1>1 DEF game, body, Basics
<1>3. CASE stack[t] = <<>>
  <2>1. stack' = [stack EXCEPT ![t] = <<"PushEvent">>]
    BY <1>3, CallsMade DEF CallHook, Push
  <2>2. t \in hookThreads
    BY <1>3 DEF CallHook, Top, Basics
  <2>3. StacksOK'
    BY <1>2, <1>3, <2>1 DEF StacksOK, IdleShapes, BodyShapes
  <2>4. Sending' = Sending /\ \A u \in Threads : (stack'[u] \in ProcShapes) = (stack[u] \in ProcShapes)
    BY <1>3, <2>1 DEF Sending, StacksOK, ProcShapes
  <2>5. CallsOK'
    BY <1>2, <2>1, <2>2, <2>4 DEF CallsOK, StacksOK
  <2>6. InProc' = InProc
    BY <1>2, <2>4 DEF InProc
  <2>7. BodyOK'
    BY <1>2, <1>3, <2>1 DEF BodyOK, StacksOK, BodyShapes
  <2> QED
    BY <1>1, <2>3, <2>5, <2>6, <2>7, StackOnly
<1>4. CASE t = Render /\ Top(t) \in nested
  <2>1. \/ stack[t] = <<"Body", "WindowProc">> /\ "WindowProc" \in nested
        \/ stack[t] = <<"Body", "Option">> /\ "Option" \in nested
    BY <1>4, TopFacts DEF Basics
  <2>2. PICK s \in {<<"Body", "WindowProc", "PushEvent">>, <<"Body", "Option", "PushEvent">>} :
          /\ stack' = [stack EXCEPT ![t] = s]
          /\ s = <<"Body", "WindowProc", "PushEvent">> =>
               "WindowProc" \in nested /\ stack[t] = <<"Body", "WindowProc">>
          /\ s = <<"Body", "Option", "PushEvent">> => "Option" \in nested
    BY <2>1, CallsMade DEF CallHook, Push
  <2>3. StacksOK'
    BY <1>2, <1>4, <2>1, <2>2 DEF StacksOK, BodyShapes
  <2>4. Sending' = Sending /\ \A u \in Threads : (stack'[u] \in ProcShapes) = (stack[u] \in ProcShapes)
    BY <1>4, <2>1, <2>2 DEF Sending, StacksOK, ProcShapes
  <2>5. CallsOK'
    BY <1>2, <2>2, <2>4 DEF CallsOK, StacksOK
  <2>6. InProc' = InProc
    BY <1>2, <2>4 DEF InProc
  <2>7. BodyOK'
    <3>1. stack'[Render] = s /\ s \in BodyShapes
      BY <1>4, <2>2 DEF StacksOK, BodyShapes
    <3>2. stack[Render] \in BodyShapes
      BY <1>4, <2>1 DEF BodyShapes
    <3>3. s = <<"Body", "WindowProc", "PushEvent">> => status = None
      BY <1>4, <2>2 DEF BodyOK
    <3>4. s # <<"Body", "WindowProc">>
      OBVIOUS
    <3> QED
      BY <1>2, <3>1, <3>2, <3>3, <3>4 DEF BodyOK
  <2> QED
    BY <1>1, <2>3, <2>5, <2>6, <2>7, StackOnly
<1>5. CASE t # Render /\ Top(t) \in nested
  <2>1. stack[t] = <<"WindowProc">> /\ "WindowProc" \in nested
    BY <1>5, TopFacts DEF Basics
  <2>2. stack' = [stack EXCEPT ![t] = <<"WindowProc", "PushEvent">>]
    BY <2>1, CallsMade DEF CallHook, Push
  <2>3. StacksOK'
    BY <1>2, <1>5, <2>1, <2>2 DEF StacksOK, ProcShapes
  <2>4. Sending' = Sending /\ \A u \in Threads : (stack'[u] \in ProcShapes) = (stack[u] \in ProcShapes)
    BY <1>5, <2>1, <2>2 DEF Sending, StacksOK, ProcShapes
  <2>5. CallsOK'
    BY <1>2, <2>1, <2>2, <2>4 DEF CallsOK, StacksOK
  <2>6. InProc' = InProc
    BY <1>2, <2>4 DEF InProc
  <2>7. BodyOK'
    BY <1>2, <1>5, <2>2 DEF BodyOK, StacksOK
  <2> QED
    BY <1>1, <2>3, <2>5, <2>6, <2>7, StackOnly
<1> QED
  BY <1>3, <1>4, <1>5 DEF CallHook

LEMMA PushEventInv == ASSUME NEW t \in Threads PROVE ActInv /\ PushEvent(t) => ActInv'
<1> SUFFICES ASSUME ActInv, PushEvent(t) PROVE ActInv'
  OBVIOUS
<1> USE NoneAssumption, ThreadsAssumption DEF ActInv
<1>1. alive /\ mutex = None /\ UNCHANGED <<game, window, mutex, key, body, alive>>
  BY DEF PushEvent
<1>2. /\ UNCHANGED <<windowThread, hookThreads, nested, window, mutex, todo>>
      /\ UNCHANGED <<request, option, status>> /\ windowThread \in Threads
  BY <1>1 DEF game, body, Basics
<1>3. stack[Render] \notin BodyShapes
  BY <1>1 DEF StacksOK
<1>4. ~ Sending
  BY <1>3 DEF Sending, BodyShapes
<1>5. stack[t] = <<"PushEvent">>
  BY <1>3, <1>4, TopFacts DEF PushEvent, CallsOK, ProcShapes, BodyShapes
<1>6. stack' = [stack EXCEPT ![t] = <<>>]
  BY <1>5, CallsReturned DEF PushEvent, Pop, Returned
<1>7. StacksOK'
  BY <1>2, <1>5, <1>6 DEF StacksOK, IdleShapes, BodyShapes
<1>8. ~ Sending' /\ \A u \in Threads : (stack'[u] \in ProcShapes) = (stack[u] \in ProcShapes)
  BY <1>4, <1>5, <1>6 DEF Sending, StacksOK, ProcShapes
<1>9. CallsOK'
  BY <1>2, <1>4, <1>6, <1>8 DEF CallsOK, StacksOK
<1>10. InProc' = InProc
  BY <1>2, <1>8 DEF InProc
<1>11. BodyOK'
  BY <1>2, <1>3, <1>5, <1>6 DEF BodyOK, StacksOK, BodyShapes
<1> QED
  BY <1>1, <1>7, <1>9, <1>10, <1>11, StackOnly

LEMMA RunBodyInv == ActInv /\ RunBody => ActInv'
<1> SUFFICES ASSUME ActInv, RunBody PROVE ActInv'
  OBVIOUS
<1>1. ASSUME NEW m \in Keys, SendMessage(m) PROVE ActInv'
  BY <1>1, SendMessageInv
<1>2. ASSUME NEW texts \in OptionTexts, FindOption(texts) PROVE ActInv'
  BY <1>2, FindOptionInv
<1>3. ASSUME NEW texts \in OptionTexts, FindMissing(texts) PROVE ActInv'
  BY <1>3, AnswerInv DEF FindMissing
<1>4. CASE FindValue
  <2>1. Statement("find") /\ Kind(request) = None /\ Answer("OK")
    BY <1>4 DEF FindValue
  <2>2. todo = <<"find">>
    BY <2>1, AtStatement, RestFacts DEF ActInv, TodoOK
  <2>3. ~ Acts(request)
    BY <2>2 DEF ActInv, TodoOK, Acting, Finding
  <2> QED
    BY <2>1, <2>3, AnswerInv
<1>5. CASE FindThrows \/ CallThrows
  BY <1>5, ThrowInv DEF FindThrows, CallThrows
<1>6. CASE FindNull
  BY <1>6, AtStatement, DieInv DEF FindNull
<1>7. CASE InvalidArgument
  BY <1>7, AnswerInv DEF InvalidArgument
<1>8. CASE CallOption
  BY <1>8, CallOptionInv
<1>9. CASE CallDies
  BY <1>9, AtStatement, DieInv DEF CallDies
<1>10. CASE LeaveHandle
  BY <1>10, LeaveHandleInv
<1> QED
  BY <1>1, <1>2, <1>3, <1>4, <1>5, <1>6, <1>7, <1>8, <1>9, <1>10 DEF RunBody, Keys

LEMMA LockAgainInv == ASSUME NEW t \in Threads PROVE ActInv /\ LockAgain(t) => ActInv'
<1> SUFFICES ASSUME ActInv, LockAgain(t) PROVE ActInv'
  OBVIOUS
<1>1. t = Render /\ stack[Render] \in BodyShapes
  BY ThreadsAssumption DEF LockAgain, ActInv, StacksOK
<1>2. stack[Render] \in {<<"Body", "WindowProc", "PushEvent">>, <<"Body", "Option", "PushEvent">>}
  BY <1>1, TopFacts DEF LockAgain, ActInv, BodyShapes
<1>3. CASE stack[Render] = <<"Body", "WindowProc", "PushEvent">>
  BY <1>3, DieInv DEF LockAgain, ActInv, BodyOK, TodoOK
<1>4. CASE stack[Render] = <<"Body", "Option", "PushEvent">>
  BY <1>1, <1>4, DieInv DEF LockAgain, ActInv, CallsOK
<1> QED
  BY <1>2, <1>3, <1>4

(* A step that changes nothing.                                            *)
LEMMA StutterInv == ActInv /\ UNCHANGED vars => ActInv'
<1> SUFFICES ASSUME ActInv, UNCHANGED vars PROVE ActInv'
  OBVIOUS
<1> USE DEF ActInv, vars, game, body
<1>1. Basics' /\ StacksOK'
  BY DEF Basics, StacksOK
<1>2. CallsOK' /\ TodoOK'
  BY DEF CallsOK, Sending, TodoOK
<1>3. KeyOK' /\ OptionOK'
  BY DEF KeyOK, InProc, OptionOK, Unregistered
<1>4. BodyOK' /\ AnswerTellsAction' /\ DeathBeforeAction'
  BY DEF BodyOK, AnswerTellsAction, DeathBeforeAction
<1> QED
  BY <1>1, <1>2, <1>3, <1>4

LEMMA NextInv == ActInv /\ [Next]_vars => ActInv'
<1> SUFFICES ASSUME ActInv, [Next]_vars PROVE ActInv'
  OBVIOUS
<1>1. CASE FindGameWindow
  BY <1>1, FindGameWindowInv
<1>2. CASE EnterHandle
  BY <1>2, EnterHandleInv
<1>3. ASSUME NEW r \in Requests, Begin(r) PROVE ActInv'
  BY <1>3, BeginInv
<1>4. CASE RunBody
  BY <1>4, RunBodyInv
<1>5. CASE WindowProc
  BY <1>5, WindowProcInv
<1>6. ASSUME NEW t \in Threads, Return(t) PROVE ActInv'
  BY <1>6, ReturnInv
<1>7. ASSUME NEW t \in Threads, CallHook(t) PROVE ActInv'
  BY <1>7, CallHookInv
<1>8. ASSUME NEW t \in Threads, PushEvent(t) PROVE ActInv'
  BY <1>8, PushEventInv
<1>9. ASSUME NEW t \in Threads, LockAgain(t) PROVE ActInv'
  BY <1>9, LockAgainInv
<1>10. CASE UNCHANGED vars
  BY <1>10, StutterInv
<1> QED
  BY <1>1, <1>2, <1>3, <1>4, <1>5, <1>6, <1>7, <1>8, <1>9, <1>10 DEF Next

LEMMA Invariant == Spec => []ActInv
  BY InitInv, NextInv, PTL DEF Spec
-----------------------------------------------------------------------------
(* The properties.                                                         *)

(* The stacks hold the calls they are said to hold, the mutex is the       *)
(* render thread's or nobody's, and the rest has its type.                 *)
THEOREM TypeCorrect == Spec => []TypeOK
  BY Invariant, InvType, PTL

(* Only a game that calls hooks where it should not can lock out the       *)
(* render thread or the window's, and only while a key is being sent.      *)
THEOREM StuckExplainedCorrect == Spec => []StuckExplained
<1>1. ActInv => StuckExplained
  <2> SUFFICES ASSUME ActInv, NEW t \in Threads, Stuck(t)
               PROVE  IF t = Render THEN nested # {}
                      ELSE /\ window /\ t = windowThread
                           /\ todo # <<>> /\ Head(todo) \in {"WM_KEYDOWN", "WM_KEYUP"}
                           /\ t \in hookThreads \/ "WindowProc" \in nested
    BY DEF StuckExplained
  <2>1. CASE t = Render
    <3>1. stack[Render] \in BodyShapes
      BY <2>1, ThreadsAssumption DEF Stuck, ActInv, StacksOK, CallsOK, Sending, BodyShapes, Basics, Top
    <3>2. stack[Render] \in {<<"Body", "WindowProc", "PushEvent">>, <<"Body", "Option", "PushEvent">>}
      BY <2>1, <3>1, TopFacts DEF Stuck, ActInv, BodyShapes
    <3> QED
      BY <2>1, <3>2 DEF ActInv, CallsOK
  <2>2. CASE t # Render
    <3>1. Sending /\ t = windowThread
      BY <2>2, ThreadsAssumption, TopFacts DEF Stuck, ActInv, StacksOK
    <3>2. stack[t] \in {<<"PushEvent">>, <<"WindowProc", "PushEvent">>}
      BY <2>2, TopFacts DEF Stuck, ActInv
    <3> QED
      BY <2>2, <3>1, <3>2 DEF ActInv, CallsOK, Keys
  <2> QED
    BY <2>1, <2>2
<1> QED
  BY <1>1, Invariant, PTL

(* Whatever becomes of a request, Insert is up again when it ends.         *)
THEOREM KeyReleasedCorrect == Spec => []KeyReleased
<1>1. ActInv => KeyReleased
  BY DEF ActInv, KeyOK, TodoOK, KeyReleased
<1> QED
  BY <1>1, Invariant, PTL

(* OK says that the option's function was called once, and any other end   *)
(* that it was not.                                                        *)
THEOREM AnswerTellsActionCorrect == Spec => []AnswerTellsAction
<1>1. ActInv => AnswerTellsAction
  BY DEF ActInv
<1> QED
  BY <1>1, Invariant, PTL

(* Whatever brings the game down does so before the option's function is   *)
(* called, in a game that calls no hook from such a function.              *)
THEOREM DeathBeforeActionCorrect == Spec => []DeathBeforeAction
<1>1. ActInv => DeathBeforeAction
  BY DEF ActInv
<1> QED
  BY <1>1, Invariant, PTL

LEMMA NPCSlots ==
  ASSUME NEW i \in Slots
  PROVE  (IF NPCOptionIds[i + 1] = NPCExamine THEN 5 ELSE NPCOptionIds[i + 1] - 9) = i
<1>1. NPCExamine \notin {9, 10, 11, 12, 13}
  BY DEF NPCExamine
<1>2. CASE i = 0
  BY <1>1, <1>2 DEF NPCOptionIds
<1>3. CASE i = 1
  BY <1>1, <1>3 DEF NPCOptionIds
<1>4. CASE i = 2
  BY <1>1, <1>4 DEF NPCOptionIds
<1>5. CASE i = 3
  BY <1>1, <1>5 DEF NPCOptionIds
<1>6. CASE i = 4
  BY <1>1, <1>6 DEF NPCOptionIds
<1>7. CASE i = 5
  BY <1>7 DEF NPCOptionIds
<1> QED
  BY <1>2, <1>3, <1>4, <1>5, <1>6, <1>7 DEF Slots

(* The number the game is given stands for an option of the text that was  *)
(* asked for, for any texts a definition may have.                         *)
THEOREM RightOptionCorrect == Spec => []RightOption
<1>1. ActInv => RightOption
  <2> SUFFICES ASSUME ActInv, option # None, called # <<>>, Kind(request) # None, ~ Unregistered
               PROVE  LET slot == SlotOf(Kind(request), called[1])
                      IN  CASE Kind(request) = "Backpack" /\ slot = 0 -> request.option = "Use"
                            [] Kind(request) = "Backpack" /\ slot = 7 -> request.option = "Examine"
                            [] OTHER -> slot \in Slots /\ option.texts[slot] = request.option
    BY DEF RightOption
  <2> DEFINE kind == Kind(request)
             slot == SlotOf(kind, called[1])
  <2>1. PICK o \in Numbered(kind, option.texts) : o.text = request.option /\ o.index = option.index
    BY DEF ActInv, OptionOK
  <2>2. called[1] = CASE kind = "Backpack" /\ o.index > 3 -> o.index + 3
                      [] kind = "NPC" -> NPCOptionIds[o.index + 1]
                      [] OTHER -> o.index
    BY <2>1 DEF ActInv, OptionOK, OptionId
  <2>3. \/ /\ o.at \in Slots /\ (kind = "Backpack" => o.at > 0)
           /\ o.index = IF kind = "Widget" THEN o.at + 1 ELSE o.at
           /\ o.text = option.texts[o.at]
        \/ kind = "Backpack" /\ o.at = 6 /\ o.index = 0 /\ o.text = "Use"
        \/ kind = "Backpack" /\ o.at = 7 /\ o.index = 7 /\ o.text = "Examine"
    BY NumberedFacts
  <2>4. CASE kind = "Backpack"
    <3>1. CASE o.at \in Slots /\ o.at > 0 /\ o.index = o.at /\ o.text = option.texts[o.at]
      <4>1. slot = o.at
        BY <2>2, <2>4, <3>1 DEF SlotOf, Slots
      <4> QED
        BY <2>1, <2>4, <3>1, <4>1 DEF Slots
    <3>2. CASE o.index = 0 /\ o.text = "Use"
      BY <2>1, <2>2, <2>4, <3>2 DEF SlotOf
    <3>3. CASE o.index = 7 /\ o.text = "Examine"
      BY <2>1, <2>2, <2>4, <3>3 DEF SlotOf
    <3> QED
      BY <2>3, <2>4, <3>1, <3>2, <3>3
  <2>5. CASE kind = "NPC"
    <3>1. o.at \in Slots /\ o.index = o.at /\ o.text = option.texts[o.at]
      BY <2>3, <2>5
    <3>2. called[1] = NPCOptionIds[o.at + 1]
      BY <2>2, <2>5, <3>1
    <3>3. slot = IF called[1] = NPCExamine THEN 5 ELSE called[1] - 9
      BY <2>5 DEF SlotOf
    <3>4. slot = o.at
      BY <3>1, <3>2, <3>3, NPCSlots
    <3> QED
      BY <2>1, <2>5, <3>1, <3>4
  <2>6. CASE kind \notin {"Backpack", "NPC"}
    <3>1. slot = o.at /\ o.at \in Slots /\ o.text = option.texts[o.at]
      BY <2>2, <2>3, <2>6 DEF SlotOf, Slots
    <3> QED
      BY <2>1, <2>6, <3>1
  <2> QED
    BY <2>4, <2>5, <2>6
<1> QED
  BY <1>1, Invariant, PTL
=============================================================================
