----------------------------- MODULE HttpClient -----------------------------
(***************************************************************************)
(* Asynchronous requests of the HTTP client (http/clientimpl.cpp): connect,*)
(* TLS, write, read the header, read the body; one reconnection when a     *)
(* kept connection turns out to be dead.  A reply is a sequence of units:  *)
(* a part of the header, its end, then bytes or chunks.  The end of the    *)
(* chunks carries the trailer with it, which ChunkedReader reads itself.   *)
(***************************************************************************)
EXTENDS Integers, Sequences

CONSTANTS
  MaxRequests,     \* bounds the requests
  MaxBody,         \* bounds the bytes or chunks of a body
  MaxLoss          \* bounds how often the server closes a connection early

ASSUME HcAssumption == MaxRequests \in Nat /\ MaxBody \in Nat /\ MaxLoss \in Nat

VARIABLES
  hc,       \* the client
  inbuf,    \* units in the stream buffer
  area,     \* get area of the limit stream (_bodyStream)
  chunk,    \* get area of the chunked reader (_chunkedIStream)
  wire,     \* units that have arrived
  srv,      \* the server: open, what it still sends, losses
  body,     \* units given to bodyAvailable for this request
  spoilt    \* history: something of an old reply was left behind

hcVars == <<hc, inbuf, area, chunk, wire, srv, body, spoilt>>

\* What the header of a reply says.
Shapes == {s \in [chunked : BOOLEAN, keep : BOOLEAN, trailer : BOOLEAN, n : 0..MaxBody] : s.trailer => s.chunked}

Unit(r, k) == [req |-> r, kind |-> k]
HeadOf(r, s) == [req |-> r, kind |-> "head", shape |-> s]

HcType == [
  op : {"none", "connecting", "ssl", "writing", "reading", "header", "body", "loop"},
  req : 0..MaxRequests, busy : BOOLEAN, conn : BOOLEAN, ssl : BOOLEAN, reconnect : BOOLEAN,
  readHeader : BOOLEAN, shape : Shapes, eod : BOOLEAN, parsed : BOOLEAN,
  left : 0..MaxBody, tries : 0..3, answered : BOOLEAN, told : 0..2]

\* _socket.close(): what is on the way is gone.
Lost == wire' = <<>> /\ srv' = [srv EXCEPT !.open = FALSE, !.todo = <<>>]

\* replyFinished: the program calls endExecute().
Finished(c) == [c EXCEPT !.op = "none", !.busy = FALSE, !.told = @ + 1]

-----------------------------------------------------------------------------
(* Requests.                                                               *)

\* beginExecute(): the write on a connection kept may fail at once.
BeginExecute ==
  /\ hc.op = "none" /\ ~hc.busy /\ hc.req < MaxRequests
  /\ LET c == [hc EXCEPT !.req = @ + 1, !.busy = TRUE, !.told = 0, !.tries = 0, !.answered = FALSE]
     IN \/ /\ hc.conn
           /\ hc' = [c EXCEPT !.op = "writing", !.reconnect = TRUE]
           /\ UNCHANGED <<inbuf, wire, srv>>
        \/ /\ hc.conn /\ ~srv.open
           /\ hc' = [c EXCEPT !.op = "connecting", !.conn = FALSE, !.reconnect = FALSE]
           /\ inbuf' = <<>> /\ Lost
        \/ /\ ~hc.conn
           /\ hc' = [c EXCEPT !.op = "connecting", !.reconnect = FALSE]
           /\ UNCHANGED <<inbuf, wire, srv>>
  /\ body' = <<>>
  /\ UNCHANGED <<area, chunk, spoilt>>

\* cancel(), by the program or by the client: the get area of the limit
\* stream stays.
Cancelled(c) == [c EXCEPT !.conn = FALSE, !.eod = FALSE]

Cancel ==
  /\ hc.op \in {"none", "connecting", "ssl", "writing", "reading"}
  /\ hc' = [Cancelled(hc) EXCEPT !.op = "none", !.busy = FALSE]
  /\ Lost /\ inbuf' = <<>> /\ chunk' = <<>>
  /\ spoilt' = (spoilt \/ area # <<>>)
  /\ UNCHANGED <<area, body>>

\* onConnect()
OnConnect ==
  /\ hc.op = "connecting"
  /\ \/ /\ hc' = [hc EXCEPT !.conn = TRUE, !.op = IF hc.ssl THEN "ssl" ELSE "writing"]
        /\ srv' = [srv EXCEPT !.open = TRUE, !.todo = <<>>]
     \/ hc' = Finished([hc EXCEPT !.conn = FALSE]) /\ UNCHANGED srv
  /\ UNCHANGED <<inbuf, area, chunk, wire, body, spoilt>>

\* onSslConnect(): a handshake that fails leaves the socket connected.
OnSslConnect ==
  /\ hc.op = "ssl"
  /\ \/ hc' = [hc EXCEPT !.op = "writing"] /\ UNCHANGED spoilt
     \/ hc' = Finished(hc) /\ spoilt' = TRUE
  /\ UNCHANGED <<inbuf, area, chunk, wire, srv, body>>

FailsWithAlways(mayRetry) ==
  /\ hc' = [hc EXCEPT !.op = "connecting", !.conn = FALSE, !.tries = @ + 1]
  /\ Lost /\ inbuf' = <<>> /\ UNCHANGED spoilt

\* An IOError in onOutput() or onInput(): reexecuteBegin(), once, and only as
\* long as nothing was read; otherwise the program is told.
FailsWith(mayRetry) ==
  IF mayRetry /\ hc.reconnect
  THEN /\ hc' = [hc EXCEPT !.op = "connecting", !.conn = FALSE, !.reconnect = FALSE, !.tries = @ + 1]
       /\ Lost /\ inbuf' = <<>> /\ UNCHANGED spoilt
  ELSE /\ hc' = Finished(hc)
       /\ spoilt' = (spoilt \/ srv.open)
       /\ UNCHANGED <<inbuf, wire, srv>>

\* What the server answers: the units of a reply.
ReplyOf(r, s) ==
  <<Unit(r, "part"), HeadOf(r, s)>>
  \o (IF s.chunked
      THEN [i \in 1..(2 * s.n) |-> Unit(r, IF i % 2 = 1 THEN "size" ELSE "data")] \o <<Unit(r, "last")>>
      ELSE [i \in 1..s.n |-> Unit(r, "byte")])

OnOutputSilent ==
  /\ hc.op = "writing"
  /\ \/ hc' = [hc EXCEPT !.op = "none", !.readHeader = TRUE, !.parsed = FALSE] /\ UNCHANGED <<inbuf, wire, srv, spoilt>>
     \/ ~srv.open /\ FailsWith(TRUE)
  /\ UNCHANGED <<area, chunk, body>>

\* onOutput(): more to write, or all is written and the reply is awaited.
OnOutput ==
  /\ hc.op = "writing"
  /\ \/ /\ hc' = [hc EXCEPT !.op = "reading", !.readHeader = TRUE, !.parsed = FALSE]
        /\ IF srv.open
           THEN \E s \in Shapes : srv' = [srv EXCEPT !.todo = @ \o ReplyOf(hc.req, s), !.closes = ~s.keep]
           ELSE UNCHANGED srv
        /\ UNCHANGED <<inbuf, wire, spoilt>>
     \/ ~srv.open /\ FailsWith(TRUE)
  /\ UNCHANGED <<area, chunk, body>>

-----------------------------------------------------------------------------
(* Replies.                                                                *)

\* onInput() up to the processing: some of what has arrived is read, or the
\* end of the connection.
OnInput ==
  /\ hc.op = "reading"
  /\ \/ \E n \in 1..Len(wire) :
          /\ hc' = [hc EXCEPT !.op = IF hc.readHeader THEN "header" ELSE "body", !.reconnect = FALSE, !.answered = TRUE]
          /\ inbuf' = inbuf \o SubSeq(wire, 1, n) /\ wire' = SubSeq(wire, n + 1, Len(wire))
          /\ UNCHANGED <<srv, spoilt>>
     \/ wire = <<>> /\ ~srv.open /\ FailsWith(hc.readHeader)
  /\ UNCHANGED <<area, chunk, body>>

\* A socket that is closed when the reply does not keep it.
Closes(c) == IF c.shape.keep THEN c ELSE [c EXCEPT !.conn = FALSE]
ClosesIf(closes) == IF closes THEN Lost ELSE UNCHANGED <<wire, srv>>

\* processHeaderAvailable().  A header the parser does not understand, or a
\* handler of headerReceived that throws, is told as an error.
ProcessHeader ==
  /\ hc.op = "header"
  /\ LET ends == {i \in DOMAIN inbuf : inbuf[i].kind = "head"}
         i == CHOOSE i \in ends : \A j \in ends : i <= j
         s == inbuf[i].shape
         rest == SubSeq(inbuf, i + 1, Len(inbuf))
         c == [hc EXCEPT !.readHeader = FALSE, !.parsed = TRUE, !.shape = s, !.eod = FALSE,
                         !.left = IF s.chunked THEN 0 ELSE s.n]
     IN IF ends = {}
        THEN /\ hc' = [hc EXCEPT !.op = "reading"] /\ inbuf' = <<>>
             /\ UNCHANGED <<area, chunk, wire, srv, spoilt>>
        ELSE /\ inbuf' = rest
             /\ \/ IF s.chunked \/ s.n + Len(area) > 0
                   THEN /\ hc' = [c EXCEPT !.op = IF rest = <<>> THEN "reading" ELSE "body"]
                        /\ UNCHANGED <<wire, srv, spoilt>>
                   ELSE /\ hc' = Finished(Closes(c)) /\ ClosesIf(~s.keep) /\ UNCHANGED spoilt
                \/ /\ hc' = Finished(hc) /\ spoilt' = TRUE /\ UNCHANGED <<wire, srv>>
             /\ chunk' = IF s.chunked THEN <<>> ELSE chunk
             /\ UNCHANGED area
  /\ UNCHANGED body

\* What a look into the chunked reader finds: the units up to a chunk, or up
\* to the end of the chunks.
Looked(units) ==
  LET hits == {i \in DOMAIN units : units[i].kind # "size"}
      i == CHOOSE i \in hits : \A j \in hits : i <= j
  IN IF hits = {} THEN [found |-> "nothing", got |-> <<>>, rest |-> <<>>]
     ELSE [found |-> IF units[i].kind = "last" THEN "eod" ELSE "data",
           got |-> IF units[i].kind = "last" THEN <<>> ELSE <<units[i]>>,
           rest |-> SubSeq(units, i + 1, Len(units))]

\* processBodyAvailable() with chunks, up to the loop.
ProcessChunks ==
  /\ hc.op = "body" /\ hc.shape.chunked
  /\ LET l == Looked(inbuf)
     IN /\ inbuf' = l.rest /\ chunk' = l.got
        /\ hc' = CASE l.found = "data" -> [hc EXCEPT !.op = "loop"]
                   [] l.found = "eod" /\ ~hc.shape.trailer -> Finished([hc EXCEPT !.eod = TRUE])
                   [] l.found = "eod" /\ hc.shape.trailer -> [hc EXCEPT !.op = "reading", !.eod = TRUE, !.parsed = FALSE]
                   [] OTHER -> [hc EXCEPT !.op = "reading"]
  /\ UNCHANGED <<area, wire, srv, body, spoilt>>

\* ... and its loop: the handler reads what there is.  At the end of the
\* chunks the parser waits for the trailer.
ChunkAvailable ==
  /\ hc.op = "loop" /\ hc.shape.chunked
  /\ LET l == Looked(inbuf)
     IN /\ body' = body \o chunk
        /\ inbuf' = l.rest /\ chunk' = l.got
        /\ hc' = CASE l.found = "data" -> hc
                   [] l.found = "eod" -> [hc EXCEPT !.op = "reading", !.eod = TRUE, !.parsed = FALSE]
                   [] OTHER -> [hc EXCEPT !.op = "reading"]
  /\ UNCHANGED <<area, wire, srv, spoilt>>

\* showmanyc() of the limit stream fills its get area.
Filled(a, left, units) ==
  LET n == IF a = <<>> /\ left > 0 THEN (IF left < Len(units) THEN left ELSE Len(units)) ELSE 0
  IN [area |-> a \o SubSeq(units, 1, n), left |-> left - n, rest |-> SubSeq(units, n + 1, Len(units))]

\* processBodyAvailable() with a length, once round the loop or behind it.
ProcessBytes ==
  /\ hc.op \in {"body", "loop"} /\ ~hc.shape.chunked
  /\ LET f == Filled(area, hc.left, inbuf)
         c == [hc EXCEPT !.left = f.left]
     IN /\ inbuf' = f.rest
        /\ IF f.area # <<>>
           THEN \E n \in 1..Len(f.area) :
                  /\ body' = body \o SubSeq(f.area, 1, n)
                  /\ area' = SubSeq(f.area, n + 1, Len(f.area))
                  /\ hc' = [c EXCEPT !.op = "loop"] /\ UNCHANGED <<wire, srv>>
           ELSE /\ area' = <<>> /\ UNCHANGED body
                /\ IF f.left = 0 THEN hc' = Finished(Closes(c)) /\ ClosesIf(~hc.shape.keep)
                   ELSE hc' = [c EXCEPT !.op = "reading"] /\ UNCHANGED <<wire, srv>>
  /\ UNCHANGED <<chunk, spoilt>>

\* The handler of bodyAvailable throws: the connection stays open.
BodyThrows ==
  /\ hc.op = "loop"
  /\ hc' = Finished(hc) /\ spoilt' = TRUE
  /\ UNCHANGED <<inbuf, area, chunk, wire, srv, body>>

-----------------------------------------------------------------------------
(* The server.                                                             *)

ServerSends ==
  /\ srv.open /\ srv.todo # <<>>
  /\ wire' = Append(wire, srv.todo[1])
  /\ srv' = [srv EXCEPT !.todo = Tail(@)]
  /\ UNCHANGED <<hc, inbuf, area, chunk, body, spoilt>>

\* It closes a connection it does not keep, one that is idle, or breaks off.
ServerCloses ==
  /\ srv.open
  /\ \/ srv.todo = <<>> /\ srv.closes /\ srv' = [srv EXCEPT !.open = FALSE]
     \/ srv.losses < MaxLoss /\ srv' = [srv EXCEPT !.open = FALSE, !.todo = <<>>, !.losses = @ + 1]
  /\ UNCHANGED <<hc, inbuf, area, chunk, wire, body, spoilt>>

HcInit ==
  /\ \E ssl \in BOOLEAN : hc = [op |-> "none", req |-> 0, busy |-> FALSE, conn |-> FALSE, ssl |-> ssl, reconnect |-> FALSE,
       readHeader |-> TRUE, shape |-> [chunked |-> FALSE, keep |-> TRUE, trailer |-> FALSE, n |-> 0],
       eod |-> FALSE, parsed |-> FALSE, left |-> 0, tries |-> 0, answered |-> FALSE, told |-> 0]
  /\ inbuf = <<>> /\ area = <<>> /\ chunk = <<>> /\ wire = <<>> /\ body = <<>> /\ spoilt = FALSE
  /\ srv = [open |-> FALSE, todo |-> <<>>, closes |-> FALSE, losses |-> 0]

HandlesInput == OnInput \/ ProcessHeader \/ ProcessChunks \/ ChunkAvailable \/ ProcessBytes \/ BodyThrows
Client == OnConnect \/ OnSslConnect \/ OnOutput \/ HandlesInput
HcNext == BeginExecute \/ Cancel \/ Client \/ ServerSends \/ ServerCloses

HcSpec == HcInit /\ [][HcNext]_hcVars

\* The program runs the event loop, and a server answers what it has read.
HcFairness == WF_hcVars(Client) /\ WF_hcVars(ServerSends)

-----------------------------------------------------------------------------
(* Properties.                                                             *)

HcTypeOK ==
  /\ hc \in HcType /\ (hc.busy <=> hc.op # "none")
  /\ (hc.op \in {"writing", "reading"} => hc.conn)

\* replyFinished is sent once for a request.
FinishedOnce == hc.told <= 1 /\ (hc.busy => hc.told = 0)

\* A request is sent again at most once, and not after the server has begun
\* to answer it.
ResentUnanswered == [][hc'.tries > hc.tries => hc.tries = 0 /\ ~hc.answered]_hcVars

\* What the handlers read belongs to the request they wait for, as long as
\* no handler threw and nothing was cancelled in front of unread bytes.
BodyIsOwn == ~spoilt => \A i \in DOMAIN body : body[i].req = hc.req

\* Nothing of a reply is left behind on a connection that is kept.
KeptIsClean == ~spoilt /\ ~hc.busy /\ hc.conn /\ srv.open => inbuf = <<>> /\ area = <<>> /\ wire = <<>> /\ srv.todo = <<>>

\* Every request ends, unless the reply ended in chunks or the client reads
\* what an old reply has left.
RequestEnds == hc.busy ~> (~hc.busy \/ hc.eod \/ spoilt)

\* The end of a reply is told when it was read.
\* The code does not keep it: README, section 6.
CompleteIsTold == hc.busy => ~hc.eod

\* A request is told once, with its own body, over a connection without
\* leftovers, and is sent again only if nothing has answered it.
RequestsSound ==
  [](HcTypeOK /\ FinishedOnce /\ BodyIsOwn /\ KeptIsClean) /\ ResentUnanswered
=============================================================================
