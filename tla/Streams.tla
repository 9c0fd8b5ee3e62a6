------------------------------- MODULE Streams -------------------------------
(***************************************************************************)
(* StreamBuffer on top of IODevice and IODeviceImpl: a get area with room  *)
(* to put back, a put area that may grow, and at most one asynchronous     *)
(* read and one asynchronous write that work on them while the program     *)
(* goes on to take and put characters.  The peer sends, takes and closes   *)
(* at any time.                                                            *)
(*                                                                         *)
(* Characters are numbered in each direction.  The memory of the get area  *)
(* is modelled as it is, with its three pointers, because it is moved      *)
(* around; the put area is the sequence of the characters in it.  Seeking  *)
(* and attaching to another device are left out.                           *)
(***************************************************************************)
EXTENDS Integers, Sequences

CONSTANTS
  PbMax,     \* _pbmax, 4 in the code
  BufSize,   \* bufferSize of the constructor
  Room,      \* what the kernel takes until the peer reads
  MaxIn,     \* bound: characters of the peer
  MaxOut     \* bound: characters put

\* A put area of one character would not grow: 1 + 1 \div 2 = 1.
ASSUME StreamAssumption ==
  PbMax \in Nat /\ BufSize \in Nat \ {0, 1} /\ Room \in Nat /\ MaxIn \in Nat /\ MaxOut \in Nat

ISize == BufSize + PbMax
Null == -1

VARIABLES
  io,        \* the device and the buffer: see IoType
  inq,       \* characters that have arrived in the kernel
  room,      \* what the kernel would take now
  peer,      \* "open", "closed": sends no more, or "reset": takes no more, too
  sent,      \* characters the peer has sent
  consumed,  \* characters taken by the program, or discarded
  taken,     \* characters taken since the last discard(), which may be put back
  wired,     \* characters taken by the kernel, or discarded
  put,       \* characters put by the program
  deep,      \* history: TRUE if a read began, or was to, with less than PbMax characters to put back
  failed,    \* history: TRUE if an operation threw, or read() was called in async mode
  recalled   \* history: TRUE if a write was cancelled that the kernel had taken

streamVars == <<io, inq, room, peer, sent, consumed, taken, wired, put, deep, failed, recalled>>

IoType ==
  [async : BOOLEAN, extend : BOOLEAN,     \* _async, _oextend
   mem : Seq(0 .. MaxIn),                 \* _ibuffer; 0 is garbage
   eback : Int, gptr : Int, egptr : Int,  \* offsets in mem
   rpos : Int,                            \* _rbuf as an offset, or Null
   obuf : Seq(Nat), ocap : Nat,           \* put area, _obufferSize (0: not allocated)
   wlen : Nat, wavail : Nat,              \* _wbuflen (0: no _wbuf), _wavail
   state : {"idle", "busy", "avail"},     \* of the Selectable
   pollin : BOOLEAN, pollout : BOOLEAN,   \* events of the pollfd
   fault : BOOLEAN, eof : BOOLEAN]        \* _exception, _eof

MinOf(a, b) == IF a < b THEN a ELSE b
Numbers(a, b) == [i \in 1 .. b - a + 1 |-> a + i - 1]
Reading == io.rpos # Null
Writing == io.wlen > 0

\* memmove() of n characters in mem.
Moved(mem, to, from, n) ==
  [i \in 1 .. ISize |-> IF i > to /\ i <= to + n THEN mem[i - to + from] ELSE mem[i]]

\* The characters cs arrive at offset at.
Filled(mem, at, cs) ==
  [i \in 1 .. ISize |-> IF i > at /\ i <= at + Len(cs) THEN cs[i - at] ELSE mem[i]]

-----------------------------------------------------------------------------
(* Operations of the device on io.                                         *)

\* beginRead(): state Avail only if something is there already.
ReadBegun(d, at) ==
  [d EXCEPT !.rpos = at, !.pollin = TRUE,
            !.state = IF d.eof \/ d.wavail > 0 THEN "avail" ELSE "busy"]

\* endRead() after n characters, with end of file if there are none.
ReadEnded(d, n) ==
  [d EXCEPT !.rpos = Null, !.pollin = FALSE, !.eof = @ \/ n = 0,
            !.state = IF d.wavail > 0 THEN "avail" ELSE IF d.wlen > 0 THEN "busy" ELSE "idle"]

\* The state is not set back when endRead() throws.
ReadFailed(d) == [d EXCEPT !.rpos = Null, !.pollin = FALSE, !.fault = FALSE]

\* beginWrite() of n characters of which the kernel takes k at once.
WriteBegun(d, n, k) ==
  [d EXCEPT !.wlen = n, !.wavail = k,
            !.fault = @ \/ peer = "reset",
            !.pollout = @ \/ (k = 0 /\ peer # "reset"),
            !.state = IF k > 0 THEN "avail" ELSE "busy"]

\* endWrite() of n characters: they leave the put area.
WriteEnded(d, n) ==
  [d EXCEPT !.wlen = 0, !.wavail = 0, !.pollout = FALSE,
            !.obuf = SubSeq(@, n + 1, Len(@)),
            !.state = IF d.rpos # Null /\ d.eof THEN "avail" ELSE IF d.rpos # Null THEN "busy" ELSE "idle"]

WriteFailed(d) == [d EXCEPT !.wlen = 0, !.wavail = 0, !.pollout = FALSE, !.fault = FALSE]

\* cancel() of both operations.
Cancelled(d) ==
  [d EXCEPT !.rpos = Null, !.wlen = 0, !.wavail = 0, !.pollin = FALSE, !.pollout = FALSE,
            !.state = "idle"]

\* What a write of n characters gives to the kernel.
Takes(n) == IF peer = "reset" \/ room = 0 THEN {0} ELSE 1 .. MinOf(n, room)

-----------------------------------------------------------------------------
(* The get area.                                                           *)

Putback(d) == IF d.gptr = Null THEN PbMax ELSE MinOf(d.gptr - d.eback, PbMax)
Leftover(d) == IF d.gptr = Null THEN 0 ELSE d.egptr - d.gptr

\* beginRead() that keeps no characters to put back and moves too few.
BufferReadBegunShort(d) ==
  LET left == Leftover(d)
      mem == IF d.gptr = Null THEN d.mem ELSE Moved(d.mem, PbMax, d.gptr, left - 1)
  IN [ReadBegun(d, PbMax + left) EXCEPT !.mem = mem, !.eback = PbMax, !.gptr = PbMax,
                                        !.egptr = PbMax + left]

\* StreamBuffer::beginRead(): what is left moves to the front, the read goes behind it.
BufferReadBegun(d) ==
  LET pb == Putback(d)
      left == Leftover(d)
      mem == IF d.gptr = Null THEN d.mem ELSE Moved(d.mem, PbMax - pb, d.gptr - pb, pb + left)
  IN [ReadBegun(d, PbMax + left) EXCEPT !.mem = mem, !.eback = PbMax - pb, !.gptr = pb,
                                        !.egptr = PbMax + left]

\* Of a full area it throws (see OverflowThrows).
BeginRead ==
  /\ io.async /\ ~Reading /\ PbMax + Leftover(io) < ISize
  /\ io' = BufferReadBegun(io)
  /\ deep' = (deep \/ Putback(io) < PbMax)
  /\ UNCHANGED <<inq, room, peer, sent, consumed, wired, put, failed, recalled, taken>>

\* endRead() waits until there is something; n characters are put behind the others.
EndRead ==
  /\ Reading /\ ~io.fault
  /\ \E n \in 0 .. MinOf(ISize - io.rpos, Len(inq)) :
       /\ n = 0 => inq = <<>> /\ peer # "open"
       /\ io' = [ReadEnded(io, n) EXCEPT !.mem = Filled(@, io.rpos, SubSeq(inq, 1, n)),
                                         !.egptr = @ + n]
       /\ inq' = SubSeq(inq, n + 1, Len(inq))
  /\ UNCHANGED <<room, peer, sent, consumed, wired, put, deep, failed, recalled, taken>>

\* It times out, or throws what a write has met.
EndReadFails ==
  /\ Reading /\ (io.fault \/ (inq = <<>> /\ peer = "open"))
  /\ io' = ReadFailed(io) /\ failed' = TRUE
  /\ UNCHANGED <<inq, room, peer, sent, consumed, wired, put, deep, recalled, taken>>

\* A character is taken.
Getc ==
  /\ io.gptr < io.egptr
  /\ io' = [io EXCEPT !.gptr = @ + 1] /\ consumed' = consumed + 1 /\ taken' = taken + 1
  /\ UNCHANGED <<inq, room, peer, sent, wired, put, deep, failed, recalled>>

\* A character that was taken is put back.
Unget ==
  /\ io.gptr > io.eback /\ taken > 0
  /\ io' = [io EXCEPT !.gptr = @ - 1] /\ consumed' = consumed - 1 /\ taken' = taken - 1
  /\ UNCHANGED <<inq, room, peer, sent, wired, put, deep, failed, recalled>>

\* underflow() without a pending read: what can be put back moves to the front
\* and a read is done.  In async mode read() leaves the state behind that
\* beginRead() has set.
Underflow ==
  LET pb == Putback(io)
      mem == IF io.gptr = Null THEN io.mem ELSE Moved(io.mem, PbMax - pb, io.gptr - pb, pb)
      begun == IF io.async THEN [ReadBegun(io, 0) EXCEPT !.rpos = Null, !.pollin = FALSE] ELSE io
  IN /\ io.gptr = io.egptr /\ ~Reading /\ ~io.eof /\ ~(io.async /\ io.fault)
     /\ \E n \in 0 .. MinOf(BufSize, Len(inq)) :
          /\ n = 0 => inq = <<>> /\ peer # "open"
          /\ io' = [begun EXCEPT !.mem = Filled(mem, PbMax, SubSeq(inq, 1, n)), !.eof = (n = 0),
                                 !.eback = PbMax - pb, !.gptr = PbMax, !.egptr = PbMax + n]
          /\ inq' = SubSeq(inq, n + 1, Len(inq))
     /\ failed' = (failed \/ io.async)
     /\ UNCHANGED <<room, peer, sent, consumed, wired, put, deep, recalled, taken>>

-----------------------------------------------------------------------------
(* The put area.                                                           *)

\* StreamBuffer::beginWrite().
BeginWrite ==
  /\ io.async /\ ~Writing /\ io.obuf # <<>>
  /\ \E k \in Takes(Len(io.obuf)) :
       /\ io' = WriteBegun(io, Len(io.obuf), k)
       /\ wired' = wired + k /\ room' = room - k
  /\ UNCHANGED <<inq, peer, sent, consumed, put, deep, failed, recalled, taken>>

\* endWrite(): what beginWrite() has written, or a write that waits for room.
EndWrite ==
  /\ Writing /\ ~io.fault
  /\ \/ io.wavail > 0 /\ io' = WriteEnded(io, io.wavail) /\ UNCHANGED <<wired, room>>
     \/ /\ io.wavail = 0 /\ room > 0 /\ peer # "reset"
        /\ \E k \in Takes(io.wlen) :
             io' = WriteEnded(io, k) /\ wired' = wired + k /\ room' = room - k
  /\ UNCHANGED <<inq, peer, sent, consumed, put, deep, failed, recalled, taken>>

\* It throws: lost connection or time-out; the characters stay in the put area.
EndWriteFails ==
  /\ Writing /\ (io.fault \/ (io.wavail = 0 /\ (room = 0 \/ peer = "reset")))
  /\ io' = WriteFailed(io) /\ failed' = TRUE
  /\ UNCHANGED <<inq, room, peer, sent, consumed, wired, put, deep, recalled, taken>>

Added(d, c) == [d EXCEPT !.obuf = Append(@, c), !.ocap = IF @ = 0 THEN BufSize ELSE @]

\* sputc() with room in the put area, or before it is allocated.
Putc ==
  /\ put < MaxOut /\ (io.ocap = 0 \/ Len(io.obuf) < io.ocap)
  /\ io' = Added(io, put + 1) /\ put' = put + 1
  /\ UNCHANGED <<inq, room, peer, sent, consumed, wired, deep, failed, recalled, taken>>

Full == put < MaxOut /\ io.ocap > 0 /\ Len(io.obuf) = io.ocap

\* overflow() of a buffer that grows: a write that is done is ended, any other
\* operation cancelled; the put area grows if it is still full; then the
\* operations are started again.
OverflowExtend ==
  LET written == Writing /\ io.wavail > 0
      d == IF written THEN WriteEnded(io, io.wavail)
           ELSE IF Writing THEN Cancelled(io) ELSE io
      e == IF Len(d.obuf) = d.ocap THEN [d EXCEPT !.ocap = @ + (@ \div 2)] ELSE d
      again == Writing /\ e.obuf # <<>>
  IN /\ Full /\ io.extend /\ ~(written /\ io.fault)
     /\ Writing /\ ~written /\ Reading => PbMax + Leftover(io) < ISize
     /\ \E k \in IF again THEN Takes(Len(e.obuf)) ELSE {0} :
          LET w == IF again THEN WriteBegun(e, Len(e.obuf), k) ELSE e
              r == IF Writing /\ ~written /\ Reading THEN BufferReadBegun(w) ELSE w
          IN io' = Added(r, put + 1) /\ wired' = wired + k /\ room' = room - k
     /\ put' = put + 1
     /\ deep' = (deep \/ (Writing /\ ~written /\ Reading /\ Putback(io) < PbMax))
     /\ UNCHANGED <<inq, peer, sent, consumed, failed, recalled, taken>>

\* It throws from beginRead() if the get area is full, as characters were put
\* back while the read was pending: these have moved, though no read begins, and
\* the character is not put.  More of them than fit would be outside the area.
MovedToFront(d) ==
  LET pb == Putback(d)
  IN Moved(d.mem, PbMax - pb, d.gptr - pb, pb + Leftover(d))

OverflowThrows ==
  LET e == [Cancelled(io) EXCEPT !.ocap = @ + (@ \div 2)]
  IN /\ Full /\ io.extend /\ Writing /\ io.wavail = 0 /\ Reading /\ PbMax + Leftover(io) = ISize
     /\ \E k \in Takes(Len(io.obuf)) :
          /\ io' = [WriteBegun(e, Len(io.obuf), k) EXCEPT !.mem = MovedToFront(io)]
          /\ wired' = wired + k /\ room' = room - k
     /\ deep' = TRUE /\ failed' = TRUE
     /\ UNCHANGED <<inq, peer, sent, consumed, put, recalled, taken>>

\* overflow() of a buffer of fixed size, or of a sync(): ends the write that is
\* pending or writes itself.  The device in async mode does it with beginWrite()
\* and endWrite().
Flushed(k) ==
  LET d == IF Writing \/ io.async THEN WriteEnded(io, k) ELSE [io EXCEPT !.obuf = SubSeq(@, k + 1, Len(@))]
  IN d

Overflow(c) ==
  /\ ~io.fault /\ (io.wavail = 0 => room > 0 /\ peer # "reset")
  /\ \E k \in IF io.wavail > 0 THEN {io.wavail} ELSE Takes(Len(io.obuf)) :
       /\ io' = IF c = 0 THEN Flushed(k) ELSE Added(Flushed(k), c)
       /\ IF io.wavail > 0 THEN UNCHANGED <<wired, room>>
                           ELSE wired' = wired + k /\ room' = room - k
  /\ UNCHANGED <<inq, peer, sent, consumed, deep, failed, recalled, taken>>

OverflowFlush == Full /\ ~io.extend /\ Overflow(put + 1) /\ put' = put + 1

\* One turn of the loop of sync().
Sync == io.obuf # <<>> /\ Overflow(0) /\ UNCHANGED put

Cancel ==
  /\ io.async /\ (Reading \/ Writing)
  /\ io' = Cancelled(io) /\ recalled' = (recalled \/ io.wavail > 0)
  /\ UNCHANGED <<inq, room, peer, sent, consumed, wired, put, deep, failed, taken>>

\* discard() of both areas.
Discard ==
  /\ ~Reading /\ ~Writing
  /\ io' = [io EXCEPT !.eback = IF io.gptr = Null THEN Null ELSE 0,
                      !.gptr = IF @ = Null THEN Null ELSE ISize,
                      !.egptr = IF @ = Null THEN Null ELSE ISize,
                      !.obuf = <<>>]
  /\ consumed' = consumed + Leftover(io) /\ taken' = 0 /\ wired' = put
  /\ UNCHANGED <<inq, room, peer, sent, put, deep, failed, recalled>>

-----------------------------------------------------------------------------
(* The peer and the kernel.                                                *)

PeerSends ==
  /\ peer = "open" /\ sent < MaxIn
  /\ sent' = sent + 1 /\ inq' = Append(inq, sent')
  /\ UNCHANGED <<io, room, peer, consumed, wired, put, deep, failed, recalled, taken>>

PeerReads ==
  /\ peer # "reset" /\ room < Room /\ room' = Room
  /\ UNCHANGED <<io, inq, peer, sent, consumed, wired, put, deep, failed, recalled, taken>>

PeerEnds ==
  /\ peer # "reset" /\ peer' \in {"closed", "reset"} \ {peer}
  /\ UNCHANGED <<io, inq, room, sent, consumed, wired, put, deep, failed, recalled, taken>>

StreamInit ==
  /\ io \in [async : BOOLEAN, extend : BOOLEAN, mem : {[i \in 1 .. ISize |-> 0]},
             eback : {Null}, gptr : {Null}, egptr : {Null}, rpos : {Null}, obuf : {<<>>},
             ocap : {0}, wlen : {0}, wavail : {0}, state : {"idle"}, pollin : {FALSE},
             pollout : {FALSE}, fault : {FALSE}, eof : {FALSE}]
  /\ inq = <<>> /\ room = Room /\ peer = "open" /\ sent = 0 /\ consumed = 0 /\ taken = 0 /\ wired = 0
  /\ put = 0 /\ deep = FALSE /\ failed = FALSE /\ recalled = FALSE

\* The model ends where characters are repeated.
StreamNext ==
  /\ ~deep /\ ~recalled
  /\ \/ BeginRead \/ EndRead \/ EndReadFails \/ Getc \/ Unget \/ Underflow
     \/ BeginWrite \/ EndWrite \/ EndWriteFails \/ Putc \/ OverflowExtend \/ OverflowThrows \/ OverflowFlush \/ Sync
     \/ Cancel \/ Discard \/ PeerSends \/ PeerReads \/ PeerEnds

StreamSpec == StreamInit /\ [][StreamNext]_streamVars

-----------------------------------------------------------------------------
(* Properties.                                                             *)

StreamTypeOK ==
  /\ io \in IoType /\ Len(io.mem) = ISize
  /\ deep \/ io.gptr = Null \/ (0 <= io.eback /\ io.eback <= io.gptr /\ io.gptr <= io.egptr /\ io.egptr <= ISize)
  /\ Len(io.obuf) <= io.ocap /\ io.wavail <= io.wlen /\ io.wlen <= Len(io.obuf)
  /\ inq \in Seq(1 .. MaxIn) /\ room \in 0 .. Room

\* What the program has not taken yet, in the get area and in the kernel, are
\* the characters that follow the last one it took: none is lost, repeated or
\* swapped by moving the area, by a read that ends late or by putting back.
ReadInOrder ==
  ~deep => LET unread == [i \in 1 .. Leftover(io) |-> io.mem[io.gptr + i]]
           IN unread \o inq = Numbers(consumed + 1, sent)

\* What is in the put area are the characters that follow those the kernel has
\* got, with those that a pending write has already handed over.
WrittenInOrder == ~recalled => io.obuf = Numbers(wired - io.wavail + 1, put)

\* The pending read works behind the get area, on memory no character is in.
ReadIsBehind == Reading => io.rpos = io.egptr

\* As long as nothing failed, the selector knows what is pending: idle without
\* an operation, avail if one is done, and polled for otherwise.
SelectorKnows ==
  /\ Reading => io.pollin
  /\ ~failed => /\ Writing /\ io.wavail = 0 /\ ~io.fault => io.pollout
                /\ io.state = "idle" <=> ~Reading /\ ~Writing
                /\ io.wavail > 0 => io.state = "avail"

\* Characters pass through both areas in order, with operations pending, and
\* the device knows of these.
StreamsSound == StreamTypeOK /\ ReadInOrder /\ WrittenInOrder /\ ReadIsBehind /\ SelectorKnows
=============================================================================
