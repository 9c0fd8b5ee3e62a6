---------------------------- MODULE BufferedSocket ----------------------------
(***************************************************************************)
(* The output side of net::BufferedSocket: two buffers, one that a pending *)
(* write works on and one for what the program puts meanwhile, and the     *)
(* handler onOutput() that sends signals between ending one write and      *)
(* beginning the next.  A handler of these signals may do everything the   *)
(* program may do.                                                         *)
(*                                                                         *)
(* Bytes are numbered in the order they are put.  The input side only      *)
(* appends what the device has read.                                       *)
(***************************************************************************)
EXTENDS Integers, Sequences

CONSTANTS
  MaxPut,    \* bound: bytes the program puts
  Window     \* what the kernel takes until the peer reads

ASSUME BufferAssumption == MaxPut \in Nat /\ Window \in Nat

VARIABLES
  sock,      \* the two buffers and the pending write: see SockType
  phase,     \* signal of onOutput() that is being sent: "none", "written", "empty"
  window,    \* what the kernel would take now
  onwire,    \* bytes the kernel has taken, in order
  given,     \* number of bytes put
  harm       \* history: what the program has done that the class does not bear

bsVars == <<sock, phase, window, onwire, given, harm>>

SockType ==
  [out : Seq(1 .. MaxPut), next : Seq(1 .. MaxPut),  \* _outputBuffer, _outputBufferNext
   len : Nat, avail : Nat,                           \* pending write and what it has written
   broken : BOOLEAN, deleted : BOOLEAN]              \* peer is gone, the object is gone

Pending == sock.len > 0

Usable == ~sock.deleted /\ harm = {}

Least(a, b) == IF a < b THEN a ELSE b
Numbered(a, b) == [i \in 1 .. b - a + 1 |-> a + i - 1]
FirstOf(s, n) == SubSeq(s, 1, n)
Rest(s, n) == SubSeq(s, n + 1, Len(s))

\* What the kernel takes of n bytes at once.
Taken(n) == IF sock.broken \/ window = 0 THEN {0} ELSE 1 .. Least(n, window)

\* put() into outputBuffer().  In the handler of written it is the first buffer,
\* while older bytes may still be in the second.
PutByte ==
  /\ Usable /\ given < MaxPut
  /\ sock' = IF Pending THEN [sock EXCEPT !.next = Append(@, given + 1)]
             ELSE [sock EXCEPT !.out = Append(@, given + 1)]
  /\ given' = given + 1
  /\ harm' = IF ~Pending /\ sock.next # <<>> THEN harm \cup {"swapped"} ELSE harm
  /\ UNCHANGED <<phase, window, onwire>>

\* beginWrite() of d: nothing if a write is pending or there is nothing.
Begins(d) ==
  IF d.len > 0 \/ d.out = <<>> THEN sock' = d /\ UNCHANGED <<window, onwire>>
  ELSE \E k \in Taken(Len(d.out)) :
         /\ sock' = [d EXCEPT !.len = Len(d.out), !.avail = k]
         /\ onwire' = onwire \o FirstOf(d.out, k) /\ window' = window - k

BeginBuffer == Usable /\ Begins(sock) /\ UNCHANGED <<phase, given, harm>>

\* onOutput() up to the signal written: endWrite() of n bytes, erased from the buffer.
OnOutput ==
  /\ Usable /\ phase = "none" /\ Pending
  /\ \E k \in IF sock.avail > 0 THEN {0} ELSE Taken(sock.len) :
       LET n == sock.avail + k
       IN /\ n > 0
          /\ onwire' = onwire \o FirstOf(sock.out, k) /\ window' = window - k
          /\ sock' = [sock EXCEPT !.out = Rest(@, n), !.len = 0, !.avail = 0]
  /\ phase' = "written"
  /\ UNCHANGED <<given, harm>>

\* The write failed: outputFailed is sent and the bytes stay.
OnOutputFailed ==
  /\ Usable /\ phase = "none" /\ Pending /\ sock.broken /\ sock.avail = 0
  /\ sock' = [sock EXCEPT !.len = 0, !.avail = 0]
  /\ UNCHANGED <<phase, window, onwire, given, harm>>

\* onOutput() after written that looks for the second buffer only behind a rest of the first.
AfterWrittenForgetsNext ==
  /\ Usable /\ phase = "written"
  /\ IF sock.out = <<>> THEN phase' = "empty" /\ UNCHANGED <<sock, window, onwire>>
     ELSE phase' = "none" /\ Begins([sock EXCEPT !.out = @ \o sock.next, !.next = <<>>])
  /\ UNCHANGED <<given, harm>>

\* onOutput() after written: the second buffer follows the first, and the next write
\* begins.  If the handler has begun one, its memory moves.
AfterWritten ==
  /\ Usable /\ phase = "written"
  /\ IF sock.out = <<>> /\ sock.next = <<>> THEN phase' = "empty" /\ UNCHANGED <<sock, window, onwire>>
     ELSE phase' = "none" /\ Begins([sock EXCEPT !.out = @ \o sock.next, !.next = <<>>])
  /\ harm' = IF Pending /\ sock.next # <<>> THEN harm \cup {"moved"} ELSE harm
  /\ UNCHANGED given

\* After outputBufferEmpty: what its handler has put is written.
AfterEmpty ==
  /\ Usable /\ phase = "empty" /\ phase' = "none"
  /\ Begins(sock)
  /\ UNCHANGED <<given, harm>>

\* flush(), which may throw after n of the bytes.  The bytes of a write that
\* was pending are written but not erased.
Flush ==
  /\ Usable /\ (Pending => sock.avail > 0 \/ window > 0)
  /\ \E early \in IF Pending /\ sock.avail = 0 THEN 1 .. Least(window, sock.len) ELSE {0},
        n \in 0 .. Len(sock.out \o sock.next) :
       LET all == sock.out \o sock.next
       IN /\ sock.broken => n = 0
          /\ onwire' = onwire \o FirstOf(sock.out, early) \o FirstOf(all, n)
          /\ sock' = [sock EXCEPT !.len = 0, !.avail = 0,
                        !.out = IF n < Len(sock.out) THEN Rest(@, n) ELSE Rest(all, n),
                        !.next = IF n < Len(sock.out) THEN @ ELSE <<>>]
          /\ harm' = IF Pending THEN harm \cup {"repeated"}
                     ELSE IF sock'.next # <<>> THEN harm \cup {"stopped"} ELSE harm
          /\ window' \in 0 .. Window
  /\ UNCHANGED <<phase, given>>

CancelBuffers ==
  /\ Usable
  /\ sock' = [sock EXCEPT !.out = <<>>, !.next = <<>>, !.len = 0, !.avail = 0]
  /\ onwire' = Numbered(1, given)   \* they count as written from now on
  /\ UNCHANGED <<phase, window, given, harm>>

\* The destructor.  onOutput() looks at its sentry only after it has used the buffers.
Destroy ==
  /\ Usable
  /\ sock' = [sock EXCEPT !.deleted = TRUE]
  /\ harm' = IF phase = "written" THEN harm \cup {"touched"} ELSE harm
  /\ UNCHANGED <<phase, window, onwire, given>>

PeerTakes ==
  /\ Usable /\ window < Window /\ window' = Window
  /\ UNCHANGED <<sock, phase, onwire, given, harm>>

PeerGone ==
  /\ Usable /\ ~sock.broken /\ sock' = [sock EXCEPT !.broken = TRUE]
  /\ UNCHANGED <<phase, window, onwire, given, harm>>

BsInit ==
  /\ sock = [out |-> <<>>, next |-> <<>>, len |-> 0, avail |-> 0, broken |-> FALSE, deleted |-> FALSE]
  /\ phase = "none" /\ window = Window /\ onwire = <<>> /\ given = 0 /\ harm = {}

BsNext ==
  \/ PutByte \/ BeginBuffer \/ OnOutput \/ OnOutputFailed \/ AfterWritten \/ AfterEmpty
  \/ Flush \/ CancelBuffers \/ Destroy \/ PeerTakes \/ PeerGone

\* The loop reports the end of a write, handlers return and the peer reads.
BsFairness ==
  /\ WF_bsVars(OnOutput) /\ WF_bsVars(OnOutputFailed) /\ WF_bsVars(AfterWritten)
  /\ WF_bsVars(AfterEmpty) /\ WF_bsVars(PeerTakes)

BsSpec == BsInit /\ [][BsNext]_bsVars

-----------------------------------------------------------------------------
(* Properties.                                                             *)

BsTypeOK ==
  /\ sock \in SockType /\ window \in 0 .. Window /\ phase \in {"none", "written", "empty"}
  /\ sock.avail <= sock.len /\ (harm = {} => sock.len <= Len(sock.out))

\* The pending write works on memory that stays where it is: unless a handler
\* has begun it between the buffers (moved), it covers the first buffer.
PendingStays == Usable /\ Pending => sock.len = Len(sock.out)

\* What has gone to the wire and what is still in the two buffers are the bytes
\* in the order the program has put them, each of them once.
BytesInOrder ==
  Usable => onwire \o Rest(sock.out, sock.avail) \o sock.next = Numbered(1, given)

\* "The class takes care, that all data from the output buffer is written":
\* the second buffer is never left behind without a write or a handler that
\* will come to it, unless writing has failed.
NextHasWriter == Usable /\ ~sock.broken /\ sock.next # <<>> => Pending \/ phase = "written"

\* So once a write has begun everything is written, unless the program cancels,
\* destroys the socket or loses the peer.
AllIsWritten == Usable /\ Pending ~> ~Usable \/ sock.broken \/ (sock.out = <<>> /\ sock.next = <<>>)

\* Both buffers are written, in order, once, from memory that stays.
BuffersInOrder == BsTypeOK /\ PendingStays /\ BytesInOrder /\ NextHasWriter
=============================================================================
