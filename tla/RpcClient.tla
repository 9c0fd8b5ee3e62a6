------------------------------ MODULE RpcClient ------------------------------
(***************************************************************************)
(* The binary and the JSON RPC client: one procedure at a time, called     *)
(* asynchronously with beginCall(), the signals of the socket, and the     *)
(* handler onFinished(), or synchronously with call(), which connects      *)
(* again when the server has closed the connection.                        *)
(*                                                                         *)
(* Calls are numbered.  A reply arrives in two halves.  The handler of a   *)
(* finished call may begin, end, cancel and close as the program may;      *)
(* frames is the stack of the handlers that run.                           *)
(***************************************************************************)
EXTENDS Integers, Sequences, SequencesExt

CONSTANT MaxRpc   \* bound: calls

ASSUME RpcAssumption == MaxRpc \in Nat

CallIds == 1 .. MaxRpc

VARIABLES
  rc,       \* the client: see RcType
  server,   \* its end of the connection: see ServerType
  frames,   \* handlers that run, with where their call has failed or finished
  begun,    \* calls begun
  told,     \* how often onFinished() was called, of each call
  got,      \* the call whose reply the result of a call is, or 0
  served,   \* how often the server has executed a call
  misuse    \* history: what the program has done that the client does not bear

rcVars == <<rc, server, frames, begun, told, got, served, misuse>>

RcType ==
  [conn : {"closed", "connecting", "tls", "open"}, ssl : BOOLEAN,
   reading : BOOLEAN, writing : BOOLEAN,   \* pending operations of the socket
   proc : 0 .. MaxRpc,                     \* _proc
   exc : BOOLEAN,                          \* _exceptionPending
   scan : 0 .. MaxRpc,                     \* call whose result the scanner fills
   half : 0 .. MaxRpc,                     \* call of which the scanner has seen half a reply
   obuf : Seq(CallIds)]                    \* requests in the put area

ServerType == [alive : BOOLEAN, reqs : Seq(CallIds), wire : Seq(CallIds \X {1, 2})]

NewServer == [alive |-> TRUE, reqs |-> <<>>, wire |-> <<>>]

\* The socket is closed, by close() or before it connects again.
SocketClosed(d) == [d EXCEPT !.conn = "closed", !.reading = FALSE, !.writing = FALSE]

\* cancel() that keeps what is in the buffer.
RcCancelledKept(d) == [SocketClosed(d) EXCEPT !.proc = 0, !.exc = FALSE]

\* cancel().
RcCancelled(d) == [SocketClosed(d) EXCEPT !.obuf = <<>>, !.half = 0, !.proc = 0, !.exc = FALSE]

\* A call is told that it has failed: cancel(), then onFinished() with the
\* exception pending.  Without a call the exception goes to the event loop.
Failed(d, from) ==
  /\ rc' = [RcCancelled(d) EXCEPT !.exc = (d.proc # 0)]
  /\ frames' = IF d.proc = 0 THEN frames ELSE Append(frames, [from |-> from, id |-> d.proc])
  /\ told' = IF d.proc = 0 THEN told ELSE [told EXCEPT ![d.proc] = @ + 1]

Live == "crash" \notin misuse
InLoop == Live /\ frames = <<>>

-----------------------------------------------------------------------------
(* What the program calls.                                                 *)

\* What the end of beginConnect() is: in progress, connected at once, or failed at
\* once, in beginConnect() itself ("begin") or in onConnect() ("connect").
Connects(d) ==
  \/ /\ rc' = [SocketClosed(d) EXCEPT !.conn = "connecting", !.scan = d.proc]
     /\ UNCHANGED <<frames, told>>
  \/ /\ rc' = [SocketClosed(d) EXCEPT !.conn = IF d.ssl THEN "tls" ELSE "open", !.writing = ~d.ssl,
                                      !.scan = d.proc]
     /\ UNCHANGED <<frames, told>>
  \/ \E from \in {"begin", "connect"} : Failed(d, from)

\* beginCall(); the scanner is set to the result at the end.  In the TLS handshake
\* of a call that was forgotten the socket refuses to write, so the call fails.
BeginCall ==
  /\ Live /\ begun < MaxRpc /\ rc.proc = 0
  /\ LET c == begun + 1
         d == [rc EXCEPT !.proc = c, !.obuf = Append(@, c)]
     IN \/ /\ rc.conn = "open"
           /\ rc' = [d EXCEPT !.writing = TRUE, !.scan = c, !.half = 0]
           /\ UNCHANGED <<server, frames, told>>
        \/ /\ rc.conn = "tls" /\ Failed(d, "begin") /\ UNCHANGED server
        \/ /\ rc.conn \in {"closed", "connecting"} \/ (rc.conn = "open" /\ ~server.alive)
           /\ Connects([d EXCEPT !.half = 0]) /\ server' = NewServer
  /\ begun' = begun + 1
  /\ UNCHANGED <<got, served, misuse>>

\* endCall(): the program takes the result, or its wait() has timed out.  The
\* call is forgotten while it is under way then.
EndCall ==
  /\ Live /\ (rc.proc # 0 \/ rc.exc)
  /\ rc' = [rc EXCEPT !.proc = 0, !.exc = FALSE]
  /\ misuse' = IF rc.proc # 0 THEN misuse \cup {"late"} ELSE misuse
  /\ UNCHANGED <<server, frames, begun, told, got, served>>

CancelCall ==
  /\ Live /\ rc.proc # 0
  /\ rc' = RcCancelled(rc)
  /\ UNCHANGED <<server, frames, begun, told, got, served, misuse>>

\* close(): the call that is under way stays, and so does the buffer.
CloseClient ==
  /\ Live /\ rc.conn # "closed"
  /\ rc' = SocketClosed(rc)
  /\ misuse' = IF rc.proc # 0 THEN misuse \cup {"cut"} ELSE misuse
  /\ UNCHANGED <<server, frames, begun, told, got, served>>

\* call(): sends the request, looks whether the server is still there, connects
\* and sends again if not.  A failure cancels; an exception of the procedure does not.
Call ==
  /\ Live /\ misuse = {} /\ begun < MaxRpc /\ rc.proc = 0 /\ rc.conn \in {"closed", "open"}
  /\ LET c == begun + 1
         open == [rc EXCEPT !.conn = "open", !.half = 0, !.scan = c]
     IN \E before, after \in 0 .. 1, how \in {"right", "remote", "lost"} :
          /\ before = 1 => rc.conn = "open"
          /\ how # "lost" => before + after > 0
          /\ served' = [served EXCEPT ![c] = before + after]
          /\ got' = [got EXCEPT ![c] = IF how = "right" THEN c ELSE 0]
          /\ rc' = IF how = "lost" THEN RcCancelled(rc) ELSE open
          /\ server' = IF after = 1 THEN NewServer ELSE server
  /\ begun' = begun + 1
  /\ UNCHANGED <<frames, told, misuse>>

\* onFinished() returns.  An exception that nobody has taken is thrown on: out of
\* onConnect() into the handler of beginCall(), which finds no procedure any more.
\* Otherwise beginCall() goes on to set the scanner to its own result, even if
\* the handler has begun another call.
HandlerReturns ==
  /\ Live /\ frames # <<>>
  /\ LET f == Last(frames)
         over == f.from # "event" /\ ~rc.exc
     IN /\ rc' = [rc EXCEPT !.exc = FALSE, !.scan = IF over THEN f.id ELSE @, !.half = IF over THEN 0 ELSE @]
        /\ misuse' = IF f.from = "connect" /\ rc.exc THEN misuse \cup {"crash"}
                     ELSE IF over /\ rc.proc # 0 THEN misuse \cup {"crossed"} ELSE misuse
  /\ frames' = Front(frames)
  /\ UNCHANGED <<server, begun, told, got, served>>

-----------------------------------------------------------------------------
(* The signals of the socket and of the stream buffer.                     *)

OnConnect ==
  /\ InLoop /\ rc.conn = "connecting"
  /\ \/ /\ rc' = [rc EXCEPT !.conn = IF rc.ssl THEN "tls" ELSE "open", !.writing = ~rc.ssl, !.exc = FALSE]
        /\ UNCHANGED <<frames, told>>
     \/ Failed(rc, "event")
  /\ UNCHANGED <<server, begun, got, served, misuse>>

OnSslConnect ==
  /\ InLoop /\ rc.conn = "tls"
  /\ \/ rc' = [rc EXCEPT !.conn = "open", !.writing = TRUE, !.exc = FALSE] /\ UNCHANGED <<frames, told>>
     \/ Failed(rc, "event")
  /\ UNCHANGED <<server, begun, got, served, misuse>>

\* onOutput() that does not wait for the reply.
RcOnOutputOnly ==
  /\ InLoop /\ rc.conn = "open" /\ rc.writing
  /\ rc' = [rc EXCEPT !.obuf = <<>>, !.writing = FALSE]
  /\ server' = [server EXCEPT !.reqs = IF server.alive THEN @ \o rc.obuf ELSE @]
  /\ UNCHANGED <<frames, begun, told, got, served, misuse>>

\* onOutput(): the rest is written, or the reply is read.
RcOnOutput ==
  /\ InLoop /\ rc.conn = "open" /\ rc.writing
  /\ \/ \E n \in 1 .. Len(rc.obuf) :
          /\ rc' = [rc EXCEPT !.obuf = SubSeq(@, n + 1, Len(@)), !.writing = n < Len(rc.obuf), !.exc = FALSE,
                              !.reading = @ \/ n = Len(rc.obuf)]
          /\ server' = [server EXCEPT !.reqs = IF server.alive THEN @ \o SubSeq(rc.obuf, 1, n) ELSE @]
          /\ UNCHANGED <<frames, told>>
     \/ ~server.alive /\ Failed(rc, "event") /\ UNCHANGED server
  /\ UNCHANGED <<begun, got, served, misuse>>

\* onInput() with half a reply: the scanner waits for the other half.
OnHalf ==
  /\ InLoop /\ rc.conn = "open" /\ rc.reading /\ server.wire # <<>> /\ Head(server.wire)[2] = 1
  /\ rc' = [rc EXCEPT !.half = Head(server.wire)[1], !.exc = FALSE]
  /\ server' = [server EXCEPT !.wire = Tail(@)]
  /\ UNCHANGED <<frames, begun, told, got, served, misuse>>

\* onInput() with the end of a reply: it is the result of the call the scanner
\* was set to, and the procedure that is active is told.  If there is none the
\* client calls a null pointer.
OnReply ==
  /\ InLoop /\ rc.conn = "open" /\ rc.reading /\ server.wire # <<>> /\ Head(server.wire)[2] = 2
  /\ Head(server.wire)[1] = rc.half
  /\ rc' = [rc EXCEPT !.half = 0, !.proc = 0, !.reading = FALSE, !.exc = FALSE]
  /\ server' = [server EXCEPT !.wire = Tail(@)]
  /\ IF rc.proc = 0 THEN misuse' = misuse \cup {"crash"} /\ UNCHANGED <<got, told, frames>>
     ELSE /\ got' = [got EXCEPT ![rc.scan] = rc.half]
          /\ told' = [told EXCEPT ![rc.proc] = @ + 1]
          /\ frames' = <<[from |-> "event", id |-> rc.proc]>>
          /\ UNCHANGED misuse
  /\ UNCHANGED <<begun, served>>

\* onInput() with an exception of the procedure, the end of input, or the end of
\* another reply, which cannot be read.
OnInputFails ==
  /\ InLoop /\ rc.conn = "open" /\ rc.reading
  /\ IF server.wire = <<>> THEN ~server.alive ELSE Head(server.wire)[2] = 2
  /\ Failed(rc, "event")
  /\ UNCHANGED <<server, begun, got, served, misuse>>

-----------------------------------------------------------------------------

Serve ==
  /\ rc.conn = "open" /\ server.alive /\ server.reqs # <<>>
  /\ LET c == Head(server.reqs)
     IN /\ server' = [server EXCEPT !.reqs = Tail(@), !.wire = @ \o <<<<c, 1>>, <<c, 2>>>>]
        /\ served' = [served EXCEPT ![c] = @ + 1]
  /\ UNCHANGED <<rc, frames, begun, told, got, misuse>>

ServerCloses ==
  /\ rc.conn = "open" /\ server.alive /\ server' = [server EXCEPT !.alive = FALSE]
  /\ UNCHANGED <<rc, frames, begun, told, got, served, misuse>>

RcInit ==
  /\ rc \in [conn : {"closed"}, ssl : BOOLEAN, reading : {FALSE}, writing : {FALSE}, proc : {0},
             exc : {FALSE}, scan : {0}, half : {0}, obuf : {<<>>}]
  /\ server = NewServer /\ frames = <<>> /\ begun = 0 /\ misuse = {}
  /\ told = [c \in CallIds |-> 0] /\ got = [c \in CallIds |-> 0] /\ served = [c \in CallIds |-> 0]

RcNext ==
  \/ BeginCall \/ EndCall \/ CancelCall \/ CloseClient \/ Call \/ HandlerReturns \/ OnConnect
  \/ OnSslConnect \/ RcOnOutput \/ OnHalf \/ OnReply \/ OnInputFails \/ Serve \/ ServerCloses

RcSpec == RcInit /\ [][RcNext]_rcVars

\* The event loop reports, handlers return, and a server that is alive answers.
RcFairness ==
  /\ WF_rcVars(OnConnect) /\ WF_rcVars(OnSslConnect) /\ WF_rcVars(RcOnOutput) /\ WF_rcVars(OnHalf)
  /\ WF_rcVars(OnReply \/ OnInputFails) /\ WF_rcVars(HandlerReturns) /\ WF_rcVars(Serve)

-----------------------------------------------------------------------------
(* Properties.                                                             *)

RcTypeOK ==
  /\ rc \in RcType /\ server \in ServerType /\ misuse \subseteq {"late", "cut", "crossed", "crash"}
  /\ (rc.reading \/ rc.writing => rc.conn \in {"tls", "open"})

\* The result of a call is the reply to that call, whatever was cancelled, has
\* failed or was closed before, as long as no call was forgotten or cut off
\* while it was under way and no handler of a failed call began another.
ReplyMatches == misuse = {} => \A c \in CallIds : got[c] \in {0, c}

\* "end() executes the selector until the remote procedure finishes and returns
\* the result of the procedure", also after the end() of an earlier call has
\* timed out.
\* The code does not keep it: README, section 6.
EndReturnsItsResult == misuse \subseteq {"late"} => \A c \in CallIds : got[c] \in {0, c}

\* A call is told of its end at most once, and if it has got a result, it was.
ToldOnce ==
  /\ \A c \in CallIds : told[c] <= 1
  /\ rc.proc # 0 => told[rc.proc] = 0

\* A call that is under way has an operation of the socket under way.
CallHasOperation ==
  rc.proc # 0 /\ misuse = {} => rc.conn \in {"connecting", "tls"} \/ rc.reading \/ rc.writing

\* A call that the client has forgotten leaves nothing behind for the next one.
IdleIsClean == misuse = {} /\ rc.proc = 0 => rc.obuf = <<>> /\ rc.half = 0

\* An asynchronous call is executed once, a synchronous one at most twice: its
\* second request may follow a first that was executed before the server closed.
ServedOnce == \A c \in CallIds : served[c] <= IF told[c] > 0 \/ rc.proc = c THEN 1 ELSE 2

\* A call ends: its reply or a failure is told, or the program ends it.
CallEnds == \A c \in CallIds : rc.proc = c ~> rc.proc # c \/ misuse # {}

\* A call has its own reply, its own end and nothing of other calls.
CallsSound ==
  RcTypeOK /\ ReplyMatches /\ ToldOnce /\ CallHasOperation /\ IdleIsClean /\ ServedOnce
=============================================================================
