------------------------------- MODULE BinaryRpc -------------------------------
(***************************************************************************)
(* A call over the binary protocol: what RpcClientImpl::prepareRequest     *)
(* sends, bin::Responder reads byte by byte, answers, and bin::Scanner     *)
(* reads the answer.  The arguments of one call share a dictionary.  A     *)
(* call says what it sends and what happens to it in the server.           *)
(***************************************************************************)
EXTENDS BinaryFormat

CONSTANT
  Sessions   \* the calls of a connection, one after the other: domain, method and args are sent, and the
             \* server has a procedure of this name or not (known), which wants so many arguments,
             \* refuses one (misfit), raises an error with the code rc, or has a result

VARIABLES
  call,       \* the client: the calls to come, the one under way, its scanner
  responder,  \* the server
  wires       \* the bytes on their way to the server and to the client

binVars == <<call, responder, wires>>

NoCode == <<0, 0, 0, 0>>
Fault == <<70>>
Idle ==
  [domain |-> <<>>, method |-> <<>>, args |-> <<>>, known |-> TRUE, wants |-> 0, misfit |-> 0, raises |-> FALSE,
   rc |-> NoCode, result |-> Root[1]]

\* Responder::Responder()
NewResponder ==
  [state |-> "header", header |-> "null", domain |-> <<>>, method |-> <<>>, vp |-> ParserBegun(<<>>), args |-> <<>>,
   failed |-> FALSE]

NewScanner ==
  [state |-> "0", vp |-> ParserBegun(<<>>), failed |-> FALSE, code |-> NoCode, count |-> 0, message |-> <<>>, err |-> FALSE]

BinBegins(session) ==
  /\ call = [todo |-> session, of |-> Idle, busy |-> FALSE, scanner |-> NewScanner, told |-> "nothing"]
  /\ responder = NewResponder
  /\ wires = [request |-> <<>>, reply |-> <<>>]

BinInit == \E session \in Sessions : BinBegins(session)

-----------------------------------------------------------------------------
(* RpcClientImpl.                                                          *)

RECURSIVE FormatAll(_, _)
FormatAll(f, nodes) == IF nodes = <<>> THEN f ELSE FormatAll(Format(f, Head(nodes)), Tail(nodes))

prepareRequest(c) ==
  LET head == IF c.domain = <<>> THEN <<192>> \o c.method \o <<0>> ELSE <<195>> \o c.domain \o <<0>> \o c.method \o <<0>>
  IN head \o FormatAll(FormatterBegun, c.args).out \o <<End>>

BeginCall ==
  /\ ~call.busy /\ call.todo # <<>>
  /\ call' = [todo |-> Tail(call.todo), of |-> Head(call.todo), busy |-> TRUE, scanner |-> NewScanner, told |-> "nothing"]
  /\ wires' = [wires EXCEPT !.request = @ \o prepareRequest(Head(call.todo))]
  /\ UNCHANGED responder

\* The connection is closed, and the server's side of it with all it has read.
Disconnected(told, scanner) ==
  /\ call' = [call EXCEPT !.busy = FALSE, !.told = told, !.scanner = scanner]
  /\ wires' = [request |-> <<>>, reply |-> <<>>]
  /\ responder' = NewResponder

CancelCall == call.busy /\ Disconnected("cancelled", call.scanner)

-----------------------------------------------------------------------------
(* Responder.                                                              *)

\* RequestHeaderParser
HeaderByte(r, b) ==
  CASE r.header = "null" /\ b = 192 -> [r EXCEPT !.header = "method", !.domain = <<>>, !.method = <<>>]
    [] r.header = "null" /\ b = 195 -> [r EXCEPT !.header = "domain", !.domain = <<>>, !.method = <<>>]
    [] r.header = "null" /\ b \notin {192, 195} -> [r EXCEPT !.vp.err = TRUE]
    [] r.header = "domain" -> IF b = 0 THEN [r EXCEPT !.header = "method"] ELSE [r EXCEPT !.domain = Append(@, b)]
    [] r.header = "method" /\ b # 0 -> [r EXCEPT !.method = Append(@, b)]
    [] OTHER -> [r EXCEPT !.header = "null", !.failed = ~call.of.known,
                          !.state = IF call.of.known THEN "params" ELSE "params_skip"]

\* An argument is complete.  fixup() may refuse it.
ParamRead(r) ==
  LET args == Append(r.args, r.vp.cur[1])
      refused == Len(args) = call.of.misfit
  IN IF ~r.vp.done THEN r
     ELSE [r EXCEPT !.args = args, !.failed = refused, !.state = IF refused THEN "params_skip" ELSE "params"]

SkippedRead(r) == IF r.vp.done THEN [r EXCEPT !.state = "params_skip"] ELSE r

\* Responder::advance() for one byte.  An argument has its own byte in front;
\* "done" is that true is returned.
ResponderByte(r, b) ==
  LET begun == [r EXCEPT !.vp = ParserBegun(r.vp.dict), !.state = "param"]
      skips == [r EXCEPT !.vp = ParserSkips(@), !.state = "param_skip"]
      more == Len(r.args) < call.of.wants
  IN CASE r.state = "header" -> HeaderByte(r, b)
       [] r.state = "params" /\ b = End -> [r EXCEPT !.failed = more, !.state = "done"]
       [] r.state = "params" /\ b # End /\ more -> ParamRead([begun EXCEPT !.vp = BinAdvance(@, b)])
       [] r.state = "params" /\ b # End /\ ~more -> SkippedRead([skips EXCEPT !.vp = BinAdvance(@, b), !.failed = TRUE])
       [] r.state = "params_skip" /\ b = End -> [r EXCEPT !.state = "done"]
       [] r.state = "params_skip" /\ b # End -> SkippedRead([skips EXCEPT !.vp = BinAdvance(@, b)])
       [] r.state = "param" -> ParamRead([r EXCEPT !.vp = BinAdvance(@, b)])
       [] OTHER -> SkippedRead([r EXCEPT !.vp = BinAdvance(@, b)])

reply(node) == <<193>> \o Format(FormatterBegun, node).out \o <<End>>
replyError(rc, message) == <<194>> \o rc \o message \o <<0, End>>

\* onInput(): endCall() may throw; then the state is as in the beginning.
Answer(r) ==
  IF r.failed THEN replyError(NoCode, Fault)
  ELSE IF call.of.raises THEN replyError(call.of.rc, Fault)
  ELSE reply(call.of.result)

ServerReads ==
  /\ wires.request # <<>> /\ ~responder.vp.err
  /\ LET r == ResponderByte(responder, Head(wires.request))
     IN IF r.state = "done"
        THEN /\ wires' = [request |-> Tail(wires.request), reply |-> wires.reply \o Answer(r)]
             /\ responder' = NewResponder
        ELSE /\ wires' = [wires EXCEPT !.request = Tail(@)]
             /\ responder' = r
  /\ UNCHANGED call

\* What the parser throws closes the connection, which ends the call.
ServerCloses == responder.vp.err /\ Disconnected("closed", call.scanner)

-----------------------------------------------------------------------------
(* Scanner.                                                                *)

\* The bytes of the error code are signed.
CodeByte(code, b) == IF b >= 128 THEN <<255, 255, 255, b>> ELSE Append(Tail(code), b)

ScannerByte(s, b) ==
  CASE s.state = "0" /\ b = 193 -> [s EXCEPT !.state = "value"]
    [] s.state = "0" /\ b = 194 -> [s EXCEPT !.state = "errorcode", !.failed = TRUE, !.count = 4]
    [] s.state = "value" -> LET vp == BinAdvance(s.vp, b)
                            IN [s EXCEPT !.vp = vp, !.err = vp.err, !.state = IF vp.done THEN "end" ELSE @]
    [] s.state = "errorcode" -> [s EXCEPT !.code = CodeByte(@, b), !.count = @ - 1,
                                          !.state = IF s.count = 1 THEN "errormessage" ELSE @]
    [] s.state = "errormessage" -> IF b = 0 THEN [s EXCEPT !.state = "end"] ELSE [s EXCEPT !.message = Append(@, b)]
    [] s.state = "end" /\ b = End -> [s EXCEPT !.state = "done"]
    [] OTHER -> [s EXCEPT !.err = TRUE]

\* An error that was read closes the connection of an asynchronous call and
\* not of call(); nothing is on it any more, so both leave the same state.
ClientReads ==
  /\ call.busy /\ wires.reply # <<>>
  /\ LET s == ScannerByte(call.scanner, Head(wires.reply))
     IN IF s.err THEN Disconnected("failed", s)
        ELSE /\ call' = [call EXCEPT !.scanner = s, !.busy = s.state # "done",
                                     !.told = IF s.state # "done" THEN @ ELSE IF s.failed THEN "error" ELSE "result"]
             /\ wires' = [wires EXCEPT !.reply = Tail(@)]
             /\ UNCHANGED responder

BinNext == BeginCall \/ CancelCall \/ ServerReads \/ ServerCloses \/ ClientReads

-----------------------------------------------------------------------------
(* Properties.                                                             *)

BinTypeOK ==
  /\ responder.state \in {"header", "params", "params_skip", "param", "param_skip"}
  /\ call.told \in {"nothing", "result", "error", "failed", "closed", "cancelled"}
  /\ Len(responder.vp.dict) <= 2 * Radix ^ 2

\* What the code changes on its way (README, section 6): "nan", "inf" and "-inf"
\* in a member that is a string, and the power of two that looks like zero.
Mangled(node) ==
  \/ /\ node.name # <<>> /\ node.type # "double" /\ node.value[1] \in {"wide", "narrow"}
     /\ \E s \in DOMAIN Specials : node.value[2] = Specials[s]
  \/ node.value[1] = "float" /\ node.value[3] = -63 /\ node.value[4] = Zero8

TextOfValue(v) == IF v[1] = "wide" THEN Encoded(v[2]) ELSE v[2]

\* The value that is read for one that was written: numbers are kept, a text
\* keeps its bytes, unless it stands for a truth value or a number.
SameValue(sent, read) ==
  LET isText == sent.value[1] \in {"wide", "narrow"}
      isBool == isText /\ sent.type = "bool" /\ ~IsBcd(sent.value[2])
      isNumber == isText /\ IsNumber(sent.type)
  IN CASE isBool -> read.value = <<"bool", isTrue(sent.value[2])>>
       [] isNumber -> read.value[1] = "int" /\ read.value[3] = NumberOf(sent.value[2])
       [] isText /\ ~isBool /\ ~isNumber ->
            /\ read.value[1] \in {"wide", "narrow"} /\ TextOfValue(read.value) = TextOfValue(sent.value)
            /\ read.type \in {sent.type, "binary"}
       [] ~isText -> read.value = sent.value

RECURSIVE SameTree(_, _)
SameTree(sent, read) ==
  /\ sent.name = read.name
  /\ IF IsNull(sent) THEN IsNull(read)
     ELSE IF sent.cat = "Value" THEN read.cat = "Value" /\ (Mangled(sent) \/ SameValue(sent, read))
     ELSE /\ read.cat = sent.cat /\ read.type = sent.type /\ Len(read.members) = Len(sent.members)
          /\ \A i \in DOMAIN sent.members : SameTree(sent.members[i], read.members[i])

\* The arguments arrive as they were sent, one after the other, whatever names
\* they share; only for types with a high index the parser gives up.
ArgumentsRead ==
  /\ responder.vp.err => responder.vp.signed
  /\ \A i \in DOMAIN responder.args : SameTree(call.of.args[i], responder.args[i])

Accepted(c) == c.known /\ c.misfit \notin 1..Len(c.args) /\ Len(c.args) = c.wants

\* A call that is finished has told its own result, or that it failed, whatever
\* became of the calls before it; an answer that was sent can be read, but for
\* types with a high index.
AnswerMatches ==
  /\ call.told = "result" => Accepted(call.of) /\ ~call.of.raises /\ SameTree(call.of.result, call.scanner.vp.cur[1])
  /\ call.told = "error" => ~Accepted(call.of) \/ call.of.raises
  /\ call.told = "failed" => call.scanner.vp.signed

\* Nobody waits for bytes that nobody will send.
NobodyWaits ==
  wires.request = <<>> /\ wires.reply = <<>> /\ ~responder.vp.err => ~call.busy /\ responder = NewResponder

BinaryCallsSound == BinTypeOK /\ ArgumentsRead /\ AnswerMatches /\ NobodyWaits

\* The client gets the error code that the procedure has thrown.
\* The code does not keep it: README, section 6.
ErrorCodeKept == call.told = "error" /\ Accepted(call.of) => call.scanner.code = call.of.rc
=============================================================================
