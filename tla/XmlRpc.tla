------------------------------- MODULE XmlRpc -------------------------------
(***************************************************************************)
(* Calls over XML RPC, node by node, as XmlReader tells them: what         *)
(* xmlrpc::ClientImpl sends, XmlRpcResponder reads and answers, and        *)
(* ClientImpl reads and tells to the procedure.  Both read values with a   *)
(* Scanner.  Of the HTTP client below it only remains when a reply begins, *)
(* when it is complete, and that it fails.                                 *)
(***************************************************************************)
EXTENDS Parsing, FiniteSets

CONSTANT
  XmlSessions  \* the calls of a client, one after the other.  method and args are sent; async: beginCall()
               \* or call(); spaced: the other side writes white space between tags; the server knows the
               \* procedure or not, which wants so many arguments, refuses one (misfit), raises nothing, a
               \* fault with the code rc or another error; the result fits into the type of the caller or
               \* not; the reply has a good header or not, and a body or nothing (hollow)

VARIABLES
  caller,     \* ClientImpl and HttpClientImpl
  answerer,   \* XmlRpcResponder
  exchange    \* the request and the reply on their way, and how far the exchange is

xmlRpcVars == <<caller, answerer, exchange>>

-----------------------------------------------------------------------------
(* Nodes and how they are written.  Texts that are empty are no nodes.     *)

Start(tag) == <<"start", tag>>
Finis(tag) == <<"end", tag>>
Chars(str) == IF str = <<>> THEN <<>> ELSE << <<"chars", str>> >>
Around(tag, nodes) == <<Start(tag)>> \o nodes \o <<Finis(tag)>>

RECURSIVE Joined(_)
Joined(strs) == IF strs = <<>> THEN <<>> ELSE Head(strs) \o Joined(Tail(strs))

\* Formatter: a string has no tag of its own.
RECURSIVE ValueNodes(_)
ValueNodes(n) ==
  Around("value",
    CASE n.cat = "Value" /\ n.type \in {"string", ""} -> Chars(n.value)
      [] n.cat = "Value" /\ n.type \notin {"string", ""} -> Around(IF n.type = "bool" THEN "boolean" ELSE n.type, Chars(n.value))
      [] n.cat = "Array" -> Around("array", Around("data", Joined([i \in DOMAIN n.members |-> ValueNodes(n.members[i])])))
      [] n.cat = "Object" -> Around("struct", Joined([i \in DOMAIN n.members |->
                               Around("member", Around("name", Chars(n.members[i].name)) \o ValueNodes(n.members[i]))])))

\* prepareRequest(), reply() and replyError()
RequestNodes(c) ==
  Around("methodCall", Around("methodName", Chars(c.method))
                       \o Around("params", Joined([i \in DOMAIN c.args |-> Around("param", ValueNodes(c.args[i]))])))

ReplyNodes(n) == Around("methodResponse", Around("params", Around("param", ValueNodes(n))))

FaultMember(name, type, value) ==
  Around("member", Around("name", Chars(name)) \o Around("value", Around(type, Chars(value))))
FaultCode == <<99>>
FaultString == <<115>>
FaultNodes(rc) ==
  Around("methodResponse", Around("fault", Around("value", Around("struct",
    FaultMember(FaultCode, "int", rc) \o FaultMember(FaultString, "string", <<69>>)))))

\* White space between two tags, as other programs write it; a tag that is
\* closed at once stays as it is.
Spaced(nodes) ==
  Joined([i \in DOMAIN nodes |->
    IF i = Len(nodes) \/ "chars" \in {nodes[i][1], nodes[i + 1][1]} \/ (nodes[i][1] = "start" /\ nodes[i + 1][1] = "end")
    THEN <<nodes[i]>> ELSE <<nodes[i], <<"chars", <<SP>> >> >>])
Sent(c, nodes) == IF c.spaced THEN Spaced(nodes) ELSE nodes

-----------------------------------------------------------------------------
(* Automata over tags.  A row: state, kind of node, tag, next state.  A    *)
(* node of a kind without a row is skipped, a tag without one is refused.  *)

Walk(rows, state, node) ==
  LET kind == {r \in rows : r[1] = state /\ r[2] = node[1]}
      hits == {r \in kind : r[3] \in {node[2], "any"}}
  IN IF kind = {} THEN state ELSE IF hits = {} THEN "refused" ELSE (CHOOSE r \in hits : TRUE)[4]

ScannerRows ==
  { <<"OnParam", "start", "value", "OnValueBegin">>, <<"OnParam", "end", "none", "">>,
    <<"OnStructBegin", "start", "member", "OnMemberBegin">>, <<"OnStructBegin", "end", "any", "OnStructEnd">>,
    <<"OnStructEnd", "end", "value", "OnValueEnd">>, <<"OnStructEnd", "start", "none", "">>,
    <<"OnMemberBegin", "start", "name", "OnNameBegin">>, <<"OnMemberBegin", "end", "none", "">>,
    <<"OnName", "end", "name", "OnNameEnd">>, <<"OnName", "start", "none", "">>,
    <<"OnNameEnd", "start", "value", "OnValueBegin">>, <<"OnNameEnd", "end", "none", "">>,
    <<"OnScalar", "end", "any", "OnScalarEnd">>, <<"OnScalar", "start", "none", "">>,
    <<"OnScalarEnd", "end", "value", "OnValueEnd">>, <<"OnScalarEnd", "start", "none", "">>,
    <<"OnArrayBegin", "start", "data", "OnDataBegin">>, <<"OnArrayBegin", "end", "none", "">>,
    <<"OnDataEnd", "end", "array", "OnArrayEnd">>, <<"OnDataEnd", "start", "none", "">>,
    <<"OnArrayEnd", "end", "value", "OnValueEnd">>, <<"OnArrayEnd", "start", "none", "">> }

\* Scanner::begin()
ScannerBegun(s) == [s EXCEPT !.state = "OnParam", !.cur = Root, !.done = FALSE, !.err = FALSE]
FreshScanner == [state |-> "OnParam", value |-> <<>>, type |-> "", cur |-> Root, done |-> FALSE, err |-> FALSE]

At(s, state) == [s EXCEPT !.state = state]
ValueSet(s, value) == [s EXCEPT !.cur[Len(s.cur)].cat = "Value", !.cur[Len(s.cur)].value = value]
MemberIn(s, name, type, cat) ==
  LET b == beginMember(s, name, cat) IN [b EXCEPT !.cur[Len(b.cur)].type = type]

OnValueBegin(s, node) ==
  CASE node[1] = "start" -> [s EXCEPT !.value = <<>>, !.type = node[2],
                               !.state = IF node[2] = "struct" THEN "OnStructBegin"
                                         ELSE IF node[2] = "array" THEN "OnArrayBegin" ELSE "OnScalarBegin"]
    [] node[1] = "chars" -> [s EXCEPT !.value = node[2]]
    [] node[1] = "end" -> IF node[2] # "value" THEN Threw(s)
                          ELSE At([ValueSet(s, s.value) EXCEPT !.value = <<>>], "OnValueEnd")

OnValueEnd(s, node) ==
  CASE node = Finis("member") -> At(leaveMember(s), "OnStructBegin")
    [] node = Finis("data") -> At(leaveMember(s), "OnDataEnd")
    [] node = Finis("param") \/ node = Finis("fault") -> [s EXCEPT !.done = TRUE]
    [] node = Start("value") -> At(MemberIn(leaveMember(s), <<>>, s.type, "Value"), "OnValueBegin")
    [] node[1] = "chars" -> s
    [] OTHER -> Threw(s)

OnNameBegin(s, node) ==
  IF node[1] = "chars" THEN At(MemberIn(s, node[2], "", "Object"), "OnName") ELSE Threw(s)

OnScalarBegin(s, node) ==
  CASE node[1] = "chars" -> At(ValueSet(s, node[2]), "OnScalar")
    [] node[1] = "end" -> At(ValueSet(s, <<>>), "OnScalarEnd")
    [] node[1] = "start" -> Threw(s)

OnDataBegin(s, node) ==
  CASE node[1] = "start" -> At(MemberIn(s, <<>>, "", "Array"), "OnValueBegin")
    [] node[1] = "end" -> IF node[2] = "data" THEN At(s, "OnDataEnd") ELSE Threw(s)
    [] node[1] = "chars" -> s

\* Scanner::advance()
Scan(s, node) ==
  CASE s.state = "OnValueBegin" -> OnValueBegin(s, node)
    [] s.state = "OnValueEnd" -> OnValueEnd(s, node)
    [] s.state = "OnNameBegin" -> OnNameBegin(s, node)
    [] s.state = "OnScalarBegin" -> OnScalarBegin(s, node)
    [] s.state = "OnDataBegin" -> OnDataBegin(s, node)
    [] OTHER -> LET next == Walk(ScannerRows, s.state, node)
                IN IF next = "refused" THEN Threw(s) ELSE At(s, next)

-----------------------------------------------------------------------------
(* XmlRpcResponder.  code is the fault that is to be answered, none so far *)
(* if it is "".                                                            *)

NewAnswerer ==
  [state |-> "OnBegin", scanner |-> FreshScanner, args |-> <<>>, begun |-> FALSE, proc |-> FALSE, code |-> <<>>, ran |-> FALSE]

RequestRows ==
  { <<"OnBegin", "start", "methodCall", "OnMethodCallBegin">>, <<"OnMethodCallBegin", "start", "any", "OnMethodNameBegin">>,
    <<"OnMethodName", "end", "methodName", "OnMethodNameEnd">>, <<"OnMethodNameEnd", "start", "params", "OnParams">>,
    <<"OnParams", "end", "params", "OnParamsEnd">>, <<"OnParams", "start", "param", "OnParam">>,
    <<"OnParamsEnd", "end", "methodCall", "OnMethodCallEnd">> }

Zeroth == <<48>>
Raised(a, code) == [a EXCEPT !.code = code]

\* getProcedure()
MethodFound(a, of, name) ==
  IF of.known /\ name = of.method THEN [a EXCEPT !.proc = TRUE, !.state = "OnMethodName"] ELSE Raised(a, Zeroth)

\* beginCall() with the first argument, needMore() and get()
ArgBegins(a, of) ==
  IF Len(a.args) >= of.wants THEN Raised([a EXCEPT !.begun = TRUE], Zeroth)
  ELSE [a EXCEPT !.begun = TRUE, !.state = "OnParam", !.scanner = ScannerBegun(@)]

\* An argument is complete: fixup() may refuse it.
ArgRead(a, of, s) ==
  CASE s.err -> Raised(a, <<50>>)
    [] ~s.err /\ ~s.done -> [a EXCEPT !.scanner = s]
    [] ~s.err /\ s.done /\ Len(a.args) + 1 = of.misfit -> Raised(a, <<51>>)
    [] OTHER -> [a EXCEPT !.scanner = s, !.args = Append(@, s.cur[1]), !.state = "OnParams"]

\* XmlRpcResponder::advance()
AnswererNode(a, of, node) ==
  CASE a.state = "OnMethodNameBegin" -> IF node[1] = "chars" THEN MethodFound(a, of, node[2]) ELSE a
    [] a.state = "OnParams" /\ node = Start("param") -> ArgBegins(a, of)
    [] a.state = "OnParam" -> ArgRead(a, of, Scan(a.scanner, node))
    [] OTHER -> LET next == Walk(RequestRows, a.state, node)
                IN IF next = "refused" THEN Raised(a, IF a.state = "OnBegin" THEN <<49>> ELSE Zeroth)
                   ELSE [a EXCEPT !.state = next]

\* reply(): without any argument the procedure has not begun, and the number
\* of its arguments is not looked at.
Missing(a, of) == a.begun /\ Len(a.args) < of.wants
Replied(a, of) ==
  CASE ~a.proc -> Raised(a, <<52>>)
    [] a.proc /\ Missing(a, of) -> Raised(a, <<53>>)
    [] a.proc /\ ~Missing(a, of) -> [a EXCEPT !.ran = TRUE, !.code = CASE of.raises = "fault" -> of.rc
                                                                       [] of.raises = "error" -> Zeroth
                                                                       [] of.raises = "nothing" -> <<>>]

Reply(a, of) == IF a.code # <<>> THEN FaultNodes(a.code) ELSE ReplyNodes(of.result)

\* Socket::onInput(): what is thrown is answered, and the rest not read.
Answers(a) ==
  /\ answerer' = a
  /\ exchange' = [exchange EXCEPT !.phase = "replied", !.request = <<>>,
                                  !.reply = IF caller.of.hollow THEN <<>> ELSE Sent(caller.of, Reply(a, caller.of))]

XrServerReads ==
  /\ exchange.phase = "sent" /\ exchange.request # <<>>
  /\ LET a == AnswererNode(answerer, caller.of, Head(exchange.request))
     IN IF a.code # <<>> THEN Answers(a)
        ELSE answerer' = a /\ exchange' = [exchange EXCEPT !.request = Tail(@)]
  /\ UNCHANGED caller

XrServerReplies ==
  /\ exchange.phase = "sent" /\ exchange.request = <<>>
  /\ Answers(Replied(answerer, caller.of))
  /\ UNCHANGED caller

-----------------------------------------------------------------------------
(* ClientImpl.  Calls are numbered, and each has a procedure of its own.   *)

ReplyRows ==
  { <<"OnBegin", "start", "methodResponse", "OnMethodResponseBegin">>,
    <<"OnMethodResponseBegin", "start", "params", "OnParamsBegin">>, <<"OnMethodResponseBegin", "start", "fault", "OnFaultBegin">>,
    <<"OnParamsBegin", "start", "param", "OnParam">>, <<"OnParamEnd", "end", "params", "OnParamsEnd">>,
    <<"OnParamsEnd", "end", "methodResponse", "OnMethodResponseEnd">>,
    <<"OnFaultEnd", "end", "methodResponse", "OnFaultResponseEnd">> }

NobodysCall ==
  [async |-> TRUE, method |-> <<>>, args |-> <<>>, spaced |-> FALSE, known |-> TRUE, wants |-> 0, misfit |-> 0,
   raises |-> "nothing", rc |-> <<>>, result |-> Root[1], fits |-> TRUE, header |-> TRUE, hollow |-> FALSE]

\* method: _method; of and number: the call it belongs to; for: whose composer
\* the scanner has; got: the value that a composer has got; told: what each
\* onFinished() and each return of call() was about.
XrBegins(session) ==
  /\ caller = [todo |-> session, number |-> 0, of |-> NobodysCall, method |-> 0, state |-> "OnBegin", scanner |-> FreshScanner,
               for |-> 0, got |-> <<>>, read |-> <<>>, fault |-> <<>>, told |-> <<>>]
  /\ answerer = NewAnswerer
  /\ exchange = [phase |-> "idle", request |-> <<>>, reply |-> <<>>]

XrInit == \E session \in XmlSessions : XrBegins(session)

\* The next call has begun, and is the one under way.
Begun1(c) ==
  LET n == c.number + 1
  IN [c EXCEPT !.todo = Tail(@), !.of = Head(c.todo), !.number = n, !.method = n, !.state = "OnBegin",
               !.scanner = ScannerBegun(@), !.for = n, !.read = <<>>, !.fault = <<>>]

ToldAbout(c, n, what) == [c EXCEPT !.told = Append(@, <<n, what>>)]
\* cancel(), or the end of a call
Forgotten(c) == [c EXCEPT !.method = 0]

XrGoes(c) ==
  /\ caller' = c
  /\ exchange' = [phase |-> "sent", request |-> Sent(c.of, RequestNodes(c.of)), reply |-> <<>>]
  /\ answerer' = NewAnswerer
Over(c) ==
  /\ caller' = c
  /\ exchange' = [phase |-> "idle", request |-> <<>>, reply |-> <<>>]
  /\ answerer' = NewAnswerer

\* call() does not return before its exchange has ended.
Responsive == caller.of.async \/ exchange.phase = "idle"

Async == caller.todo # <<>> /\ Head(caller.todo).async

XrBeginCall == Async /\ caller.method = 0 /\ exchange.phase = "idle" /\ XrGoes(Begun1(caller))

\* beginCall() throws without having done anything.
XrAlreadyRunning ==
  /\ Async /\ caller.method # 0 /\ Responsive
  /\ caller' = [caller EXCEPT !.todo = Tail(@)]
  /\ UNCHANGED <<answerer, exchange>>

\* beginExecute() throws, which the procedure is told.
Failed1(c) == ToldAbout(Forgotten(Begun1(c)), c.number + 1, "exception")
XrBeginFails == Async /\ caller.method = 0 /\ exchange.phase = "idle" /\ Over(Failed1(caller))

\* ... and it begins the next call at once.  Then the first beginCall() goes on
\* and gives the scanner its own composer.
XrBeginFailsRetry ==
  /\ Async /\ caller.method = 0 /\ exchange.phase = "idle"
  /\ Len(caller.todo) > 1 /\ caller.todo[2].async
  /\ XrGoes([Begun1(Failed1(caller)) EXCEPT !.for = caller.number + 1])

XrCall == caller.todo # <<>> /\ ~Head(caller.todo).async /\ exchange.phase = "idle" /\ XrGoes(Begun1(caller))

\* A call ends with an exception: the procedure is told by onReplyFinished(),
\* or it comes out of call(), which leaves _method as it is.
Fails(c) == IF c.of.async THEN ToldAbout(Forgotten(c), c.method, "exception") ELSE ToldAbout(c, c.method, "exception")

XrConnectionFails == exchange.phase # "idle" /\ Over(Fails(caller))

\* verifyHeader()
XrHeader ==
  /\ exchange.phase = "replied"
  /\ IF caller.of.header THEN exchange' = [exchange EXCEPT !.phase = "body"] /\ UNCHANGED <<caller, answerer>>
     ELSE Over(Fails(caller))

\* A value is complete; the composer may refuse it.
ResultRead(c, s) ==
  IF ~s.done THEN [c EXCEPT !.scanner = s]
  ELSE IF c.state = "OnFaultBegin" THEN [c EXCEPT !.scanner = s, !.read = s.cur[1].members[1].value, !.state = "OnFaultEnd"]
  ELSE [c EXCEPT !.scanner = s, !.got = <<c.for, s.cur[1]>>, !.state = "OnParamEnd"]

Refuses(c, s) == s.err \/ (s.done /\ c.state = "OnParam" /\ ~c.of.fits)

\* advance(): the client behind a node, none if it is refused.
CallerNode(c, node) ==
  IF c.state \in {"OnParam", "OnFaultBegin"}
  THEN LET s == Scan(c.scanner, node) IN IF Refuses(c, s) THEN {} ELSE {ResultRead(c, s)}
  ELSE LET next == Walk(ReplyRows, c.state, node)
       IN CASE next = "refused" -> {}
            [] next = "OnFaultBegin" /\ c.state # next -> {[c EXCEPT !.state = next, !.scanner = ScannerBegun(@)]}
            [] next = "OnFaultResponseEnd" -> {[c EXCEPT !.state = next, !.fault = c.read]}
            [] OTHER -> {[c EXCEPT !.state = next]}

BadParameters == <<45>>

\* onReadReply() tells an error at once and goes on with the next piece of the
\* reply, if there is one; out of call() it comes as an exception.
NodeRefused ==
  IF caller.of.async
  THEN /\ caller' = [ToldAbout(caller, caller.method, "misfit") EXCEPT !.fault = BadParameters]
       /\ \E rest \in {<<>>, Tail(exchange.reply)} : exchange' = [exchange EXCEPT !.reply = rest]
       /\ UNCHANGED answerer
  ELSE Over(Fails(caller))

XrClientReads ==
  /\ exchange.phase = "body" /\ exchange.reply # <<>>
  /\ LET after == CallerNode(caller, Head(exchange.reply))
     IN IF after = {} THEN NodeRefused
        ELSE /\ caller' \in after
             /\ exchange' = [exchange EXCEPT !.reply = Tail(@)]
             /\ UNCHANGED answerer

\* onReplyFinished(), or the end of the document for call(), which is an error
\* if there was none.
XrFinished ==
  /\ exchange.phase = "body" /\ exchange.reply = <<>>
  /\ IF ~caller.of.async /\ caller.state = "OnBegin" THEN Over(Fails(caller))
     ELSE Over(ToldAbout(Forgotten(caller), caller.method, IF caller.fault # <<>> THEN "fault" ELSE "result"))

XrCancel == caller.method # 0 /\ Responsive /\ Over(Forgotten(caller))

XrNext ==
  \/ XrBeginCall \/ XrAlreadyRunning \/ XrBeginFails \/ XrBeginFailsRetry \/ XrCall \/ XrServerReads \/ XrServerReplies
  \/ XrConnectionFails \/ XrHeader \/ XrClientReads \/ XrFinished \/ XrCancel

-----------------------------------------------------------------------------
(* Properties.                                                             *)

XrTypeOK ==
  /\ exchange.phase \in {"idle", "sent", "replied", "body"}
  /\ caller.method \in 0..caller.number /\ caller.for \in 0..caller.number
  /\ \A i \in DOMAIN caller.told : caller.told[i][2] \in {"result", "fault", "exception", "misfit"}

\* Categories and types are not kept, the shape and the values are.
RECURSIVE SameShape(_, _)
SameShape(sent, read) ==
  /\ Len(read.members) = Len(sent.members)
  /\ sent.cat = "Value" => read.cat = "Value" /\ read.value = sent.value
  /\ \A i \in DOMAIN sent.members : /\ SameShape(sent.members[i], read.members[i])
                                    /\ sent.cat = "Object" => read.members[i].name = sent.members[i].name

\* The arguments arrive as they were sent, whatever white space stands between
\* the tags.
XrArgumentsArrive ==
  \A i \in DOMAIN answerer.args : SameShape(caller.of.args[i], answerer.args[i])

\* Calls with an argument too much are refused, those that lack one too, unless
\* they have none at all.
XrRunsComplete ==
  answerer.ran => Len(caller.of.args) = caller.of.wants \/ Len(caller.of.args) = 0

Acceptable(c) == c.known /\ c.method # <<>> /\ c.misfit \notin 1..Len(c.args) /\ Len(c.args) \in {0, c.wants}

Newest == caller.told[Len(caller.told)]
MinOf(set) == CHOOSE i \in set : \A j \in set : i <= j
ToldOf(n) == {i \in DOMAIN caller.told : caller.told[i][1] = n}

\* A call that has ended was told its own result, or the fault that the
\* procedure has raised, or that it failed, provided that the reply had a body
\* and that it was not begun inside of another one that failed.
XrAnswerMatches ==
  caller.told # <<>> /\ Newest[1] = caller.number /\ Newest[2] \in {"result", "fault"} /\ ~caller.of.hollow =>
    LET c == caller.of
        runs == Acceptable(c)
    IN /\ Newest[2] = "result" =>
            /\ runs /\ c.raises = "nothing" /\ c.fits
            /\ caller.for = caller.number => caller.got[1] = caller.number /\ SameShape(c.result, caller.got[2])
       /\ Newest[2] = "fault" =>
            \/ ~runs \/ ~c.fits
            \/ c.raises = "fault" /\ caller.fault = c.rc
            \/ c.raises = "error" /\ caller.fault = Zeroth

\* A procedure is told once that its call has ended, unless it was told at first
\* that the result does not fit its type.
XrToldOnce ==
  \A n \in 1..caller.number : Cardinality(ToldOf(n)) > 1 => caller.told[MinOf(ToldOf(n))][2] = "misfit"

\* While no exchange is under way no call is, unless it came out of call() as
\* an exception.
XrNobodyWaits ==
  exchange.phase = "idle" /\ caller.method # 0 =>
    \E i \in ToldOf(caller.method) : caller.told[i][2] = "exception"

XmlCallsSound ==
  XrTypeOK /\ XrArgumentsArrive /\ XrRunsComplete /\ XrAnswerMatches /\ XrToldOnce /\ XrNobodyWaits

\* A call that lacks arguments is not run.
\* The code does not keep it: README, section 6.
MissingArgumentsNoticed == answerer.ran => Len(answerer.args) = caller.of.wants

\* The end of a call is told to its procedure once.
\* The code does not keep it: README, section 6.
EndIsToldOnce == \A n \in 1..caller.number : Cardinality(ToldOf(n)) <= 1

\* A result that is told was read, for the procedure that is told.
\* The code does not keep it: README, section 6.
ResultWasRead == caller.told # <<>> /\ Newest[2] = "result" => caller.got # <<>> /\ caller.got[1] = Newest[1]

\* A call that failed is forgotten.
\* The code does not keep it: README, section 6.
FailureForgotten == exchange.phase = "idle" => caller.method = 0
=============================================================================
