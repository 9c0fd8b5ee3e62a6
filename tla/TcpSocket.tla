------------------------------ MODULE TcpSocket ------------------------------
(***************************************************************************)
(* TcpSocket and TcpSocketImpl in an event loop: connecting to the first   *)
(* address of a list that answers, TLS handshake and shutdown on top of    *)
(* the connection, and what the selector polls for meanwhile.  The kernel  *)
(* and the peer answer at any time and in any way.                         *)
(*                                                                         *)
(* What is read and written is left out; Streams models that.  A TLS       *)
(* operation is done, wants to read or to write, finds the end of TLS,     *)
(* fails, or finds the connection lost, which closes the socket.           *)
(***************************************************************************)
EXTENDS Naturals

CONSTANT Addresses   \* length of the address list

ASSUME AddressesAssumption == Addresses \in Nat \ {0}

VARIABLES
  tcp,      \* the socket: see TcpType
  wire,     \* the kernel's answer to connect(): "none", "progress", "ok", "refused"
  call,     \* "connect" or "endConnect" while the program is in it, else "none"
  looping,  \* TRUE while that call waits for the kernel
  asked,    \* what the program waits to be told of: "connect", "ssl" or "none"
  pollerr,  \* TRUE if the kernel reports a refused connection as an error, as Linux does
  reset,    \* history: TRUE if a failed handshake has marked a closed socket as connected
  dropped   \* history: TRUE if events that are waited for have been dropped from the list

tcpVars == <<tcp, wire, call, looping, asked, pollerr, reset, dropped>>

Handshakes == {"sslconnecting", "sslaccepting"}

\* A TLS operation is going on; it wants events of its own.
Operating == Handshakes \cup {"sslshuttingdown"}
SslStates == Operating \cup {"sslconnected"}

TcpType ==
  [state : {"idle", "connecting", "connected"} \cup SslStates,   \* _state
   fd : BOOLEAN, ssl : BOOLEAN,          \* _fd is open, _ssl is there
   ptr : 1 .. Addresses + 1,             \* _addrInfoPtr
   result : BOOLEAN, messages : BOOLEAN, \* _connectResult, _connectFailedMessages not empty
   enabled : BOOLEAN, dirty : BOOLEAN,   \* in the selector, which has to build its list anew
   polled : BOOLEAN,                     \* _pfd points into the list of the selector
   events : SUBSET {"in", "out"},        \* what is polled for
   reading : BOOLEAN, writing : BOOLEAN, fault : BOOLEAN]  \* _rbuf, _wbuf, _exception

IsConnected(d) == d.state \notin {"idle", "connecting"}

-----------------------------------------------------------------------------
(* Closing.                                                                *)

ImplClosed(d) == [d EXCEPT !.fd = FALSE, !.polled = @ /\ ~d.fd, !.ssl = FALSE, !.state = "idle"]

\* close() of the device: nothing unless it is enabled.
DeviceClosed(d) ==
  IF ~d.enabled THEN d
  ELSE [ImplClosed(d) EXCEPT !.reading = FALSE, !.writing = FALSE, !.enabled = FALSE,
                             !.dirty = TRUE, !.events = {}]

Enabled(d) == [d EXCEPT !.enabled = TRUE, !.dirty = TRUE]

-----------------------------------------------------------------------------
(* Connecting.                                                             *)

\* Addresses before a are passed, as they fail at once: in socket(), which is
\* silent about it, or in connect().
Passed(d, a, silent) ==
  [(IF a = d.ptr \/ silent THEN d ELSE ImplClosed([d EXCEPT !.fd = TRUE])) EXCEPT
     !.ptr = a, !.messages = @ \/ (a > d.ptr /\ ~silent)]

\* tryConnect(): until an address is in progress or connected, or none is left.
InProgress(d, a, silent) == [Passed(d, a, silent) EXCEPT !.fd = TRUE]
AtOnce(d, a, silent) == [InProgress(d, a, silent) EXCEPT !.state = "connected"]
NoneLeft(d, silent) == [Passed(d, Addresses + 1, silent) EXCEPT !.result = TRUE]

Tried(d) ==
  {InProgress(d, a, silent) : a \in d.ptr .. Addresses, silent \in BOOLEAN}
    \cup {AtOnce(d, a, silent) : a \in d.ptr .. Addresses, silent \in BOOLEAN}
    \cup {NoneLeft(d, silent) : silent \in BOOLEAN}

Attempt(d) == IF d.fd /\ d.state # "connected" THEN "progress" ELSE "none"

\* beginConnect() of the implementation, after close().
Begun(d) == Tried([d EXCEPT !.messages = FALSE, !.ptr = 1, !.state = "connecting"])

\* The assertions of beginConnect() and tryConnect().
BeginAsserts(d) == d.state = "idle" /\ ~d.fd

\* beginConnect(): told of at once, or later by the event loop.
BeginConnect ==
  /\ call = "none" /\ BeginAsserts(DeviceClosed(tcp))
  /\ \E d \in Begun(DeviceClosed(tcp)) :
       /\ tcp' = Enabled(d) /\ wire' = Attempt(d)
       /\ asked' = IF d.state = "connected" \/ d.result THEN "none" ELSE "connect"
  /\ UNCHANGED <<call, looping, pollerr, reset, dropped>>

\* connect(): beginConnect() and endConnect() of the implementation.
ConnectNow ==
  /\ call = "none" /\ BeginAsserts(DeviceClosed(tcp))
  /\ \E d \in Begun(DeviceClosed(tcp)) : tcp' = d /\ wire' = Attempt(d)
  /\ call' = "connect" /\ asked' = "none"
  /\ UNCHANGED <<looping, pollerr, reset, dropped>>

CallEndConnect ==
  /\ call = "none" /\ tcp.enabled /\ tcp.state \in {"idle", "connecting", "connected"}
  /\ tcp.fd \/ tcp.result \/ tcp.messages
  /\ tcp' = [tcp EXCEPT !.events = IF tcp.writing THEN @ ELSE @ \ {"out"}]
  /\ call' = "endConnect" /\ asked' = "none"
  /\ UNCHANGED <<wire, looping, pollerr, reset, dropped>>

\* The call throws.
Fail(d) ==
  /\ call' = "none" /\ looping' = FALSE
  /\ tcp' = IF call = "connect" THEN d ELSE DeviceClosed(d)
  /\ wire' = IF tcp'.fd THEN wire ELSE "none"

\* The call returns; connect() enables the socket.
Succeed(d) ==
  /\ call' = "none" /\ looping' = FALSE /\ wire' = "none"
  /\ tcp' = IF call = "connect" THEN Enabled(d) ELSE d

\* checkPendingError() throws if there is a message, even if a later address
\* is connected or in progress; connect() leaves the socket as it is then.
PendingError ==
  /\ call # "none" /\ ~looping /\ (tcp.result \/ tcp.messages)
  /\ Fail([tcp EXCEPT !.result = FALSE, !.messages = FALSE])
  /\ UNCHANGED <<asked, pollerr, reset, dropped>>

EndConnect ==
  /\ call # "none" /\ ~looping /\ ~tcp.result /\ ~tcp.messages
  /\ IF tcp.state = "connected" THEN Succeed(tcp)
     ELSE looping' = TRUE /\ UNCHANGED <<tcp, wire, call>>
  /\ UNCHANGED <<asked, pollerr, reset, dropped>>

EndConnected ==
  /\ looping /\ wire = "ok"
  /\ Succeed([tcp EXCEPT !.state = "connected", !.messages = FALSE])
  /\ UNCHANGED <<asked, pollerr, reset, dropped>>

\* The attempt was refused or timed out: the next address, or the end.
NextAddress ==
  /\ looping /\ wire \in {"refused", "progress"}
  /\ IF tcp.ptr = Addresses THEN Fail(ImplClosed([tcp EXCEPT !.ptr = @ + 1]))
     ELSE \E d \in Tried(ImplClosed([tcp EXCEPT !.ptr = @ + 1])) :
            IF d.state = "connected" THEN Succeed([d EXCEPT !.messages = FALSE])
            ELSE IF d.result THEN Fail(ImplClosed([d EXCEPT !.result = FALSE, !.messages = FALSE]))
            ELSE tcp' = d /\ wire' = "progress" /\ UNCHANGED <<call, looping>>
  /\ UNCHANGED <<asked, pollerr, reset, dropped>>

\* The kernel's answer.
Answer ==
  /\ wire = "progress" /\ wire' \in {"ok", "refused"}
  /\ UNCHANGED <<tcp, call, looping, asked, pollerr, reset, dropped>>

-----------------------------------------------------------------------------
(* The event loop.                                                         *)

\* initWait().
Polled(d) ==
  [d EXCEPT !.polled = TRUE,
            !.events = IF ~IsConnected(d) THEN {"out"}
                       ELSE (IF d.reading THEN {"in"} ELSE {}) \cup (IF d.writing THEN {"out"} ELSE {})]

\* The selector builds its list, before it waits or because another device
\* came or went.  What TLS wants is not in the new list.
BuildPollList ==
  /\ call = "none" /\ tcp.enabled
  /\ tcp' = [Polled(tcp) EXCEPT !.dirty = FALSE]
  /\ dropped' = (dropped \/ tcp.state \in Operating \/ ~(tcp.events \subseteq tcp'.events))
  /\ UNCHANGED <<wire, call, looping, asked, pollerr, reset>>

InPoll == call = "none" /\ tcp.enabled /\ tcp.polled /\ ~tcp.dirty

\* checkPollEvent() of a socket that has got its connection.
PollConnected ==
  /\ InPoll /\ ~IsConnected(tcp) /\ wire = "ok" /\ "out" \in tcp.events
  /\ tcp' = [tcp EXCEPT !.state = "connected", !.messages = FALSE]
  /\ wire' = "none" /\ asked' = "none"
  /\ UNCHANGED <<call, looping, pollerr, reset, dropped>>

\* It was refused, with POLLERR: the next address, polled for again unless
\* that is connected or refused at once.
PollError ==
  /\ InPoll /\ ~IsConnected(tcp) /\ wire = "refused" /\ pollerr
  /\ IF tcp.ptr = Addresses
     THEN tcp' = [tcp EXCEPT !.messages = TRUE] /\ asked' = "none" /\ wire' = "none"
     ELSE \E d \in Tried([ImplClosed(tcp) EXCEPT !.ptr = @ + 1, !.messages = TRUE]) :
            LET over == d.state = "connected" \/ d.result
            IN /\ wire' = Attempt(d)
               /\ asked' = IF over THEN "none" ELSE asked
               /\ tcp' = IF over THEN d ELSE Polled(d)
  /\ UNCHANGED <<call, looping, pollerr, reset, dropped>>

\* It was refused, with POLLOUT only: the next address, which is not polled for.
PollRefused ==
  /\ InPoll /\ ~IsConnected(tcp) /\ wire = "refused" /\ ~pollerr /\ "out" \in tcp.events
  /\ IF tcp.ptr = Addresses
     THEN /\ tcp' = [tcp EXCEPT !.ptr = @ + 1, !.result = TRUE, !.messages = FALSE]
          /\ asked' = "none" /\ wire' = "none"
     ELSE \E d \in Tried([ImplClosed(tcp) EXCEPT !.ptr = @ + 1, !.messages = TRUE]) :
            /\ tcp' = d /\ wire' = Attempt(d)
            /\ asked' = IF d.state = "connected" THEN "none" ELSE asked
  /\ UNCHANGED <<call, looping, pollerr, reset, dropped>>

\* An error of a connection that nobody reads from or writes to.
PollLost ==
  /\ InPoll /\ IsConnected(tcp) /\ ~tcp.reading /\ ~tcp.writing
  /\ tcp' = DeviceClosed(tcp) /\ asked' = "none"
  /\ UNCHANGED <<wire, call, looping, pollerr, reset, dropped>>

-----------------------------------------------------------------------------
(* TLS.                                                                    *)

\* checkSslOperation(): the events polled for; a lost connection closes.
Checked(d, r) ==
  CASE r = "read"  -> [d EXCEPT !.events = IF d.polled THEN (@ \cup {"in"}) \ {"out"} ELSE @]
    [] r = "write" -> [d EXCEPT !.events = IF d.polled THEN (@ \cup {"out"}) \ {"in"} ELSE @]
    [] r = "zero"  -> [d EXCEPT !.state = "connected"]
    [] r = "lost"  -> ImplClosed(d)
    [] OTHER       -> d

\* What an exception of it becomes: kept for the end...() call.
Kept(d, r) == [Checked(d, r) EXCEPT !.fault = @ \/ r \in {"lost", "error"}]

Results == {"done", "read", "write", "zero", "lost", "error"}

\* The program is told of the end: of the operation, or, by sslClosed, of TLS.
Over(r) == r \in {"done", "zero"}

\* beginSslConnect(), beginSslAccept(), and their continuation.
BeginSsl(h) ==
  /\ call = "none" /\ tcp.enabled /\ tcp.fd /\ tcp.state \in {"connected", h}
  /\ ~tcp.reading /\ ~tcp.writing
  /\ \E r \in Results :
       LET d == [tcp EXCEPT !.state = h, !.ssl = TRUE]
       IN /\ tcp' = IF r = "done" THEN [d EXCEPT !.state = "sslconnected"] ELSE Kept(d, r)
          /\ asked' = IF Over(r) THEN "none" ELSE "ssl"
  /\ UNCHANGED <<wire, call, looping, pollerr, reset, dropped>>

\* checkPollEvent() that does not tell of a failure.
PollHandshakeSilent ==
  /\ InPoll /\ tcp.state \in Handshakes /\ tcp.events # {}
  /\ \E r \in Results :
       /\ tcp' = IF r = "done" THEN [tcp EXCEPT !.state = "sslconnected"]
                 ELSE IF r = "error" THEN [tcp EXCEPT !.state = "connected"] ELSE Checked(tcp, r)
       /\ asked' = IF Over(r) THEN "none" ELSE asked
  /\ UNCHANGED <<wire, call, looping, pollerr, reset, dropped>>

\* checkPollEvent() in a handshake.  The handler of the signal that tells of a
\* failure may close the socket; it is connected again afterwards.
PollHandshake ==
  /\ InPoll /\ tcp.state \in Handshakes /\ tcp.events # {}
  /\ \E r \in Results, closes \in BOOLEAN :
       LET fails == r \in {"lost", "error"}
           d == Checked(tcp, r)
       IN /\ closes => fails
          /\ tcp' = IF r = "done" THEN [d EXCEPT !.state = "sslconnected"]
                    ELSE IF fails THEN [(IF closes THEN DeviceClosed(d) ELSE d) EXCEPT !.state = "connected"]
                    ELSE d
          /\ asked' = IF fails \/ Over(r) THEN "none" ELSE asked
  /\ reset' = (reset \/ (tcp'.state = "connected" /\ ~tcp'.fd))
  /\ UNCHANGED <<wire, call, looping, pollerr, dropped>>

\* endSslConnect(), endSslAccept(): a certificate that is not accepted takes
\* the socket back to connected; a time-out leaves it in the handshake.
EndSsl(h) ==
  /\ call = "none" /\ tcp.enabled
  /\ tcp.state \in {h, "sslconnected"} \/ (tcp.state = "idle" /\ ~tcp.fd)
  /\ LET d == [tcp EXCEPT !.events = IF tcp.writing THEN @ ELSE @ \ {"out"}]
     IN IF tcp.fault THEN tcp' = [d EXCEPT !.fault = FALSE]
        ELSE \/ tcp.state \in {"idle", h} /\ tcp' = d
             \/ \E to \in {"sslconnected", "connected"} :
                  tcp.state # "idle" /\ tcp' = [d EXCEPT !.state = to]
             \/ tcp.state = h /\ \E r \in {"lost", "error"} : tcp' = Checked(d, r)
  /\ asked' = "none"
  /\ UNCHANGED <<wire, call, looping, pollerr, reset, dropped>>

\* beginSslShutdown(), also when the poll goes on with it.
Shutdown(d, r) ==
  IF r = "done" THEN [d EXCEPT !.state = "connected"]
  ELSE Kept([d EXCEPT !.state = "sslshuttingdown"], r)

BeginSslShutdown ==
  /\ call = "none" /\ tcp.enabled /\ tcp.state \in {"sslconnected", "sslshuttingdown"}
  /\ \E r \in Results :
       /\ tcp' = Shutdown(tcp, r)
       /\ asked' = IF Over(r) THEN "none" ELSE "ssl"
       /\ dropped' = (dropped \/ (r = "write" /\ tcp.reading))
  /\ UNCHANGED <<wire, call, looping, pollerr, reset>>

PollShutdown ==
  /\ InPoll /\ tcp.state = "sslshuttingdown" /\ tcp.events # {}
  /\ \E r \in Results :
       /\ tcp' = Shutdown(tcp, r)
       /\ asked' = IF Over(r) THEN "none" ELSE asked
       /\ dropped' = (dropped \/ (r = "write" /\ tcp.reading))
  /\ UNCHANGED <<wire, call, looping, pollerr, reset>>

EndSslShutdown ==
  /\ call = "none" /\ tcp.enabled /\ tcp.state \in {"sslshuttingdown", "connected"}
  /\ LET d == [tcp EXCEPT !.events = IF tcp.writing THEN @ ELSE @ \ {"out"}]
     IN IF tcp.state = "connected" THEN tcp' = d
        ELSE IF tcp.fault THEN tcp' = [d EXCEPT !.fault = FALSE]
        ELSE \/ tcp' = [d EXCEPT !.state = "connected", !.ssl = FALSE]
             \/ \E r \in {"lost", "error"} : tcp' = Checked(d, r)
  /\ asked' = "none"
  /\ UNCHANGED <<wire, call, looping, pollerr, reset, dropped>>

-----------------------------------------------------------------------------
(* Reading and writing, plain or with TLS.                                 *)

Transfers == call = "none" /\ tcp.enabled /\ tcp.fd /\ tcp.state \in {"connected", "sslconnected"}

ReadBegins ==
  /\ Transfers /\ ~tcp.reading
  /\ tcp' = [tcp EXCEPT !.reading = TRUE, !.events = IF tcp.polled THEN @ \cup {"in"} ELSE @]
  /\ UNCHANGED <<wire, call, looping, asked, pollerr, reset, dropped>>

\* endRead(); a TLS read waits by itself, and may find the end of TLS or be lost.
\* It throws what was kept, which tells the program of it.
ReadEnds ==
  /\ call = "none" /\ tcp.reading
  /\ LET d == [tcp EXCEPT !.reading = FALSE, !.events = @ \ {"in"}, !.fault = FALSE]
     IN \E r \in IF tcp.state = "sslconnected" /\ ~tcp.fault THEN {"done", "zero", "lost"} ELSE {"done"} :
          tcp' = Checked(d, r)
  /\ asked' = IF tcp.fault THEN "none" ELSE asked
  /\ dropped' = (dropped \/ tcp.state \in Operating)
  /\ UNCHANGED <<wire, call, looping, pollerr, reset>>

WriteBegins ==
  /\ Transfers /\ ~tcp.writing
  /\ \E r \in IF tcp.state = "sslconnected" THEN Results ELSE {"done", "out", "error"} :
       /\ tcp' = [(IF r = "out" THEN [tcp EXCEPT !.events = IF tcp.polled THEN @ \cup {"out"} ELSE @]
                   ELSE Kept(tcp, r)) EXCEPT !.writing = TRUE]
       /\ dropped' = (dropped \/ (r = "write" /\ tcp.reading))
  /\ UNCHANGED <<wire, call, looping, asked, pollerr, reset>>

WriteEnds ==
  /\ call = "none" /\ tcp.writing
  /\ \E r \in IF tcp.state = "sslconnected" /\ ~tcp.fault THEN {"done", "zero", "lost"} ELSE {"done"} :
       tcp' = Checked([tcp EXCEPT !.writing = FALSE, !.events = @ \ {"out"}, !.fault = FALSE], r)
  /\ asked' = IF tcp.fault THEN "none" ELSE asked
  /\ dropped' = (dropped \/ tcp.state \in Operating)
  /\ UNCHANGED <<wire, call, looping, pollerr, reset>>

CloseSocket ==
  /\ call = "none" /\ tcp.enabled
  /\ tcp' = DeviceClosed(tcp) /\ wire' = "none" /\ asked' = "none"
  /\ UNCHANGED <<call, looping, pollerr, reset, dropped>>

-----------------------------------------------------------------------------

TcpInit ==
  /\ tcp = [state |-> "idle", fd |-> FALSE, ssl |-> FALSE, ptr |-> 1, result |-> FALSE,
            messages |-> FALSE, enabled |-> FALSE, dirty |-> TRUE, polled |-> FALSE, events |-> {},
            reading |-> FALSE, writing |-> FALSE, fault |-> FALSE]
  /\ wire = "none" /\ call = "none" /\ looping = FALSE /\ asked = "none" /\ pollerr \in BOOLEAN
  /\ reset = FALSE /\ dropped = FALSE

TcpNext ==
  \/ BeginConnect \/ ConnectNow \/ CallEndConnect \/ PendingError \/ EndConnect \/ EndConnected
  \/ NextAddress \/ Answer \/ BuildPollList \/ PollConnected \/ PollError \/ PollRefused \/ PollLost
  \/ PollHandshake \/ BeginSslShutdown \/ PollShutdown \/ EndSslShutdown
  \/ ReadBegins \/ ReadEnds \/ WriteBegins \/ WriteEnds \/ CloseSocket
  \/ \E h \in Handshakes : BeginSsl(h) \/ EndSsl(h)

TcpSpec == TcpInit /\ [][TcpNext]_tcpVars

-----------------------------------------------------------------------------
(* Properties.                                                             *)

TcpTypeOK ==
  /\ tcp \in TcpType /\ wire \in {"none", "progress", "ok", "refused"}
  /\ (looping => call # "none" /\ tcp.fd)

\* Whoever uses _ssl finds it, on an open descriptor.
SslHasSession == tcp.state \in SslStates => tcp.ssl /\ tcp.fd

\* A socket that says it is connected has a descriptor, unless the end of
\* a failed handshake has said so of a closed one.
ConnectedHasDescriptor == IsConnected(tcp) /\ ~reset => tcp.fd

\* A pending read is polled for, whatever handshakes and writes do to the events.
ReadIsPolled ==
  tcp.reading /\ tcp.fd /\ tcp.polled /\ ~tcp.dirty /\ ~dropped => "in" \in tcp.events

\* A program that waits to be told of its connection, or of the end of its
\* handshake, waits for something: an attempt or a handshake is going on and
\* the selector looks at the descriptor of this attempt.
AskedIsUnderWay ==
  call = "none" /\ ~tcp.dirty /\ ~dropped =>
    /\ asked = "connect" /\ pollerr =>
         wire # "none" /\ ~IsConnected(tcp) /\ tcp.fd /\ tcp.polled /\ "out" \in tcp.events
    /\ asked = "ssl" /\ ~tcp.fault =>
         tcp.state \in Operating /\ (tcp.polled => tcp.events # {})

\* Where a connection begins, the assertions hold: no descriptor is left open.
\* The code does not keep it: README, section 6.
NoDescriptorLeft == call = "none" => BeginAsserts(DeviceClosed(tcp))

\* State, descriptor, TLS session and polled events of a socket agree.
SocketSound ==
  TcpTypeOK /\ SslHasSession /\ ConnectedHasDescriptor /\ ReadIsPolled /\ AskedIsUnderWay
=============================================================================
