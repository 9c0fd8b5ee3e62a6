------------------------------ MODULE IoProofs ------------------------------
(***************************************************************************)
(* Proofs about the four machines of I/O that work with callbacks:         *)
(*                                                                         *)
(*   Streams    for every size of buffer and kernel, no character is lost, *)
(*              repeated or swapped between the program and its peer;      *)
(*   TcpSocket  for address lists of every length, state, descriptor, TLS  *)
(*              session and polled events of a socket agree;               *)
(*   BufferedSocket  for every number of bytes, they leave the two output  *)
(*              buffers in the order in which they were put;               *)
(*   RpcClient  for every number of calls, a call is executed once, told   *)
(*              once and gets its own result.                              *)
(*                                                                         *)
(* Each part has its inductive invariant, lemmas about the operations, one *)
(* lemma per action, and the theorems.                                     *)
(***************************************************************************)
EXTENDS Streams, TcpSocket, RpcClient, BufferedSocket, TLAPS

(***************************************************************************)
(* Streams                                                                 *)
(***************************************************************************)

-----------------------------------------------------------------------------
(* The inductive invariant.                                                *)

Memory == [1 .. ISize -> 0 .. MaxIn]

StreamRight ==
  /\ io \in IoType /\ io.mem \in Memory /\ inq \in Seq(1 .. MaxIn) /\ room \in 0 .. Room
  /\ peer \in {"open", "closed", "reset"} /\ sent \in 0 .. MaxIn /\ put \in 0 .. MaxOut
  /\ consumed \in Nat /\ taken \in Nat /\ wired \in Nat
  /\ deep \in BOOLEAN /\ failed \in BOOLEAN /\ recalled \in BOOLEAN

PointersRight(d) ==
  \/ d.eback = Null /\ d.gptr = Null /\ d.egptr = Null
  \/ 0 <= d.eback /\ d.eback <= d.gptr /\ d.gptr <= d.egptr /\ d.egptr <= ISize

\* c characters are taken, t of them may be put back, s were sent and q are in
\* the kernel: each is at its place in the get area or in the kernel.
GetArea(d, c, t, q, s) ==
  /\ PointersRight(d)
  /\ t <= c /\ (d.gptr = Null => t = 0)
  /\ s = c + Leftover(d) + Len(q)
  /\ \A j \in 1 .. Len(q) : q[j] = c + Leftover(d) + j
  /\ \A k \in d.eback + 1 .. d.egptr : k > d.gptr - t => d.mem[k] = c + (k - d.gptr)

\* w characters were taken by the kernel and p were put.
PutArea(d, w, p) ==
  /\ Len(d.obuf) = p - w + d.wavail
  /\ \A i \in 1 .. Len(d.obuf) : d.obuf[i] = w - d.wavail + i

PutFits(d) ==
  /\ Len(d.obuf) <= d.ocap /\ d.wavail <= d.wlen /\ d.wlen <= Len(d.obuf)
  /\ d.ocap = 0 \/ d.ocap >= BufSize

ReadBehind(d) == d.rpos # Null => d.rpos = d.egptr /\ d.gptr # Null

\* A write that has met an error has not been taken by the kernel, and none will be.
FaultIsFinal(d) == d.fault => peer = "reset" /\ d.wavail = 0

Known(d, f) ==
  /\ d.rpos # Null => d.pollin
  /\ ~f => /\ d.wlen > 0 /\ d.wavail = 0 /\ ~d.fault => d.pollout
           /\ d.state = "idle" <=> d.rpos = Null /\ d.wlen = 0
           /\ d.wavail > 0 => d.state = "avail"

StreamInv ==
  /\ StreamRight /\ PutFits(io) /\ ReadBehind(io) /\ FaultIsFinal(io) /\ Known(io, failed)
  /\ io.wavail <= wired
  /\ ~deep => GetArea(io, consumed, taken, inq, sent)
  /\ ~recalled => PutArea(io, wired, put)

-----------------------------------------------------------------------------
(* What the operations of the device do.                                   *)

SameGet(e, d) == e.mem = d.mem /\ e.eback = d.eback /\ e.gptr = d.gptr /\ e.egptr = d.egptr
SamePut(e, d) == e.obuf = d.obuf /\ e.ocap = d.ocap /\ e.wlen = d.wlen /\ e.wavail = d.wavail
SameKind(e, d) == e.async = d.async /\ e.extend = d.extend

LEMMA Sizes == /\ PbMax \in Nat /\ BufSize \in Nat \ {0, 1} /\ Room \in Nat /\ MaxIn \in Nat
               /\ MaxOut \in Nat /\ ISize \in Nat /\ ISize = BufSize + PbMax /\ Null \in Int
  BY StreamAssumption DEF ISize, Null

LEMMA ReadBegunFields ==
  ASSUME NEW d \in IoType, NEW at \in Int
  PROVE  LET e == ReadBegun(d, at) IN
         /\ e \in IoType /\ SameGet(e, d) /\ SamePut(e, d) /\ SameKind(e, d)
         /\ e.rpos = at /\ e.pollin /\ e.pollout = d.pollout /\ e.fault = d.fault /\ e.eof = d.eof
         /\ e.state = IF d.eof \/ d.wavail > 0 THEN "avail" ELSE "busy"
  BY DEF ReadBegun, IoType, SameGet, SamePut, SameKind

LEMMA ReadEndedFields ==
  ASSUME NEW d \in IoType, NEW n
  PROVE  LET e == ReadEnded(d, n) IN
         /\ e \in IoType /\ SameGet(e, d) /\ SamePut(e, d) /\ SameKind(e, d)
         /\ e.rpos = Null /\ e.pollout = d.pollout /\ e.fault = d.fault
         /\ e.state = IF d.wavail > 0 THEN "avail" ELSE IF d.wlen > 0 THEN "busy" ELSE "idle"
  <1>1. Null \in Int /\ (d.eof \/ n = 0) \in BOOLEAN
    BY Sizes
  <1> QED
    BY <1>1, ZenonT(30) DEF ReadEnded, IoType, SameGet, SamePut, SameKind

LEMMA ReadFailedFields ==
  ASSUME NEW d \in IoType
  PROVE  LET e == ReadFailed(d) IN
         /\ e \in IoType /\ SameGet(e, d) /\ SamePut(e, d) /\ SameKind(e, d)
         /\ e.rpos = Null /\ ~e.fault
  BY Sizes DEF ReadFailed, IoType, SameGet, SamePut, SameKind

\* What beginWrite() of n characters makes of d if the kernel takes k of them.
IsWriteBegun(e, d, n, k) ==
  /\ e \in IoType /\ SameGet(e, d) /\ SameKind(e, d) /\ e.obuf = d.obuf /\ e.ocap = d.ocap
  /\ e.wlen = n /\ e.wavail = k /\ e.rpos = d.rpos /\ e.pollin = d.pollin /\ e.eof = d.eof
  /\ (e.fault <=> (d.fault \/ peer = "reset"))
  /\ k = 0 /\ peer # "reset" => e.pollout
  /\ e.state = IF k > 0 THEN "avail" ELSE "busy"

LEMMA WriteBegunFields ==
  ASSUME NEW d \in IoType, NEW n \in Nat, NEW k \in Nat
  PROVE  IsWriteBegun(WriteBegun(d, n, k), d, n, k)
  <1>1. /\ (d.fault \/ peer = "reset") \in BOOLEAN
        /\ (d.pollout \/ (k = 0 /\ peer # "reset")) \in BOOLEAN
    OBVIOUS
  <1> QED
    BY <1>1, ZenonT(30) DEF IsWriteBegun, WriteBegun, IoType, SameGet, SameKind

LEMMA WriteEndedFields ==
  ASSUME NEW d \in IoType, NEW n \in 1 .. Len(d.obuf)
  PROVE  LET e == WriteEnded(d, n) IN
         /\ e \in IoType /\ SameGet(e, d) /\ SameKind(e, d) /\ e.ocap = d.ocap
         /\ e.obuf = SubSeq(d.obuf, n + 1, Len(d.obuf))
         /\ e.wlen = 0 /\ e.wavail = 0 /\ e.rpos = d.rpos /\ e.pollin = d.pollin /\ e.eof = d.eof
         /\ e.fault = d.fault
         /\ e.state = IF d.rpos # Null /\ d.eof THEN "avail" ELSE IF d.rpos # Null THEN "busy" ELSE "idle"
  <1> DEFINE o == SubSeq(d.obuf, n + 1, Len(d.obuf))
  <1> DEFINE st == IF d.rpos # Null /\ d.eof THEN "avail" ELSE IF d.rpos # Null THEN "busy" ELSE "idle"
  <1>1. o \in Seq(Nat) /\ st \in {"idle", "busy", "avail"}
    BY SMTT(30) DEF IoType
  <1>2. WriteEnded(d, n) =
          [d EXCEPT !.wlen = 0, !.wavail = 0, !.pollout = FALSE, !.obuf = o, !.state = st]
    BY DEF WriteEnded
  <1> HIDE DEF o, st
  <1> DEFINE e == WriteEnded(d, n)
  <1>3. e = [d EXCEPT !.wlen = 0, !.wavail = 0, !.pollout = FALSE, !.obuf = o, !.state = st]
    BY <1>2
  <1> HIDE DEF e
  <1>4. e \in IoType
    BY <1>1, <1>3 DEF IoType
  <1>5. SameGet(e, d) /\ SameKind(e, d) /\ e.ocap = d.ocap /\ e.obuf = o
    BY <1>3 DEF IoType, SameGet, SameKind
  <1>6. /\ e.wlen = 0 /\ e.wavail = 0 /\ e.rpos = d.rpos /\ e.pollin = d.pollin /\ e.eof = d.eof
        /\ e.fault = d.fault /\ e.state = st
    BY <1>3 DEF IoType
  <1> QED
    BY <1>4, <1>5, <1>6 DEF o, st, e

LEMMA WriteFailedFields ==
  ASSUME NEW d \in IoType
  PROVE  LET e == WriteFailed(d) IN
         /\ e \in IoType /\ SameGet(e, d) /\ SameKind(e, d) /\ e.obuf = d.obuf /\ e.ocap = d.ocap
         /\ e.wlen = 0 /\ e.wavail = 0 /\ e.rpos = d.rpos /\ e.pollin = d.pollin /\ ~e.fault
  BY DEF WriteFailed, IoType, SameGet, SameKind

LEMMA CancelledFields ==
  ASSUME NEW d \in IoType
  PROVE  LET e == Cancelled(d) IN
         /\ e \in IoType /\ SameGet(e, d) /\ SameKind(e, d) /\ e.obuf = d.obuf /\ e.ocap = d.ocap
         /\ e.wlen = 0 /\ e.wavail = 0 /\ e.rpos = Null /\ e.eof = d.eof
         /\ e.fault = d.fault /\ e.state = "idle"
  BY Sizes DEF Cancelled, IoType, SameGet, SameKind

\* Only what is compared decides.
LEMMA SameGetArea ==
  ASSUME NEW d, NEW e, SameGet(e, d)
  PROVE  /\ PointersRight(d) => PointersRight(e)
         /\ Leftover(e) = Leftover(d) /\ Putback(e) = Putback(d)
         /\ \A c, t, q, s : GetArea(d, c, t, q, s) => GetArea(e, c, t, q, s)
  BY DEF SameGet, PointersRight, Leftover, Putback, GetArea

-----------------------------------------------------------------------------
(* The get area.                                                           *)

\* Between 0 and PbMax characters are kept to be put back.
LEMMA PutbackBounds ==
  ASSUME NEW d \in IoType, PointersRight(d)
  PROVE  /\ Putback(d) \in 0 .. PbMax /\ Leftover(d) \in 0 .. ISize
         /\ d.gptr # Null => /\ Putback(d) <= d.gptr - d.eback /\ Leftover(d) = d.egptr - d.gptr
                             /\ d.gptr \in 0 .. ISize /\ d.eback \in 0 .. d.gptr
                             /\ d.egptr \in d.gptr .. ISize
         /\ d.gptr = Null => Putback(d) = PbMax /\ Leftover(d) = 0 /\ d.egptr = Null /\ d.eback = Null
  <1>1. d.eback \in Int /\ d.gptr \in Int /\ d.egptr \in Int
    BY DEF IoType
  <1> QED
    BY <1>1, Sizes DEF PointersRight, Putback, Leftover, MinOf, Null

\* memmove() within the area.
LEMMA MovedMemory ==
  ASSUME NEW mem \in Memory, NEW to \in Nat, NEW from \in Nat, NEW n \in Nat,
         to + n <= ISize, from + n <= ISize
  PROVE  /\ Moved(mem, to, from, n) \in Memory
         /\ \A k \in to + 1 .. to + n : Moved(mem, to, from, n)[k] = mem[k - to + from]
  <1>1. \A i \in 1 .. ISize : i > to /\ i <= to + n => i - to + from \in 1 .. ISize
    BY Sizes
  <1>2. \A i \in 1 .. ISize : (IF i > to /\ i <= to + n THEN mem[i - to + from] ELSE mem[i]) \in 0 .. MaxIn
    BY <1>1 DEF Memory
  <1>3. Moved(mem, to, from, n) \in Memory
    BY <1>2 DEF Memory, Moved
  <1>4. \A k \in to + 1 .. to + n : k \in 1 .. ISize /\ k > to /\ k <= to + n
    BY Sizes
  <1> QED
    BY <1>3, <1>4 DEF Moved

LEMMA FunctionIsSeq == ASSUME NEW S, NEW n \in Nat, NEW f \in [1 .. n -> S]
                       PROVE  f \in Seq(S) /\ Len(f) = n
  OBVIOUS

\* The first m elements and the others.
LEMMA Halves ==
  ASSUME NEW S, NEW s \in Seq(S), NEW m \in 0 .. Len(s)
  PROVE  /\ SubSeq(s, 1, m) \in Seq(S) /\ Len(SubSeq(s, 1, m)) = m
         /\ \A j \in 1 .. m : SubSeq(s, 1, m)[j] = s[j]
         /\ SubSeq(s, m + 1, Len(s)) \in Seq(S) /\ Len(SubSeq(s, m + 1, Len(s))) = Len(s) - m
         /\ \A j \in 1 .. Len(s) - m : SubSeq(s, m + 1, Len(s))[j] = s[j + m] /\ j + m \in 1 .. Len(s)
  <1>1. Len(s) \in Nat /\ m \in Nat /\ m <= Len(s)
    OBVIOUS
  <1>2. /\ SubSeq(s, 1, m) \in Seq(S) /\ Len(SubSeq(s, 1, m)) = m
        /\ \A j \in 1 .. m : SubSeq(s, 1, m)[j] = s[j]
    BY <1>1
  <1>3. /\ SubSeq(s, m + 1, Len(s)) \in Seq(S) /\ Len(SubSeq(s, m + 1, Len(s))) = Len(s) - m
        /\ \A j \in 1 .. Len(s) - m : SubSeq(s, m + 1, Len(s))[j] = s[j + m] /\ j + m \in 1 .. Len(s)
    BY <1>1
  <1> QED
    BY <1>2, <1>3

LEMMA Joined ==
  ASSUME NEW S, NEW s \in Seq(S), NEW t \in Seq(S), NEW u, u = s \o t
  PROVE  /\ u \in Seq(S) /\ Len(u) = Len(s) + Len(t)
         /\ \A i \in 1 .. Len(s) : u[i] = s[i]
         /\ \A i \in 1 .. Len(t) : u[Len(s) + i] = t[i]
  OBVIOUS

LEMMA EqualSequences ==
  ASSUME NEW S, NEW s \in Seq(S), NEW t \in Seq(S), Len(s) = Len(t), \A i \in 1 .. Len(s) : s[i] = t[i]
  PROVE  s = t
  OBVIOUS

LEMMA Element == ASSUME NEW S, NEW s \in Seq(S), NEW i \in 1 .. Len(s) PROVE s[i] \in S
  OBVIOUS

LEMMA FilledMemory ==
  ASSUME NEW mem \in Memory, NEW at \in Nat, NEW cs \in Seq(1 .. MaxIn), at + Len(cs) <= ISize
  PROVE  /\ Filled(mem, at, cs) \in Memory
         /\ \A k \in 1 .. at : Filled(mem, at, cs)[k] = mem[k]
         /\ \A k \in at + 1 .. at + Len(cs) : Filled(mem, at, cs)[k] = cs[k - at]
  <1>0. Len(cs) \in Nat
    OBVIOUS
  <1>1. \A i \in 1 .. ISize : i > at /\ i <= at + Len(cs) => i - at \in 1 .. Len(cs)
    BY <1>0, Sizes
  <1>2. \A j \in 1 .. Len(cs) : cs[j] \in 0 .. MaxIn
    <2> SUFFICES ASSUME NEW j \in 1 .. Len(cs) PROVE cs[j] \in 0 .. MaxIn
      OBVIOUS
    <2>1. cs[j] \in 1 .. MaxIn
      BY Element
    <2> QED
      BY <2>1, Sizes
  <1>3. \A i \in 1 .. ISize : (IF i > at /\ i <= at + Len(cs) THEN cs[i - at] ELSE mem[i]) \in 0 .. MaxIn
    BY <1>1, <1>2 DEF Memory
  <1>4. Filled(mem, at, cs) \in Memory
    BY <1>3 DEF Memory, Filled
  <1>5. \A k \in 1 .. at + Len(cs) : k \in 1 .. ISize
    BY <1>0, Sizes
  <1>6. \A k \in 1 .. at : Filled(mem, at, cs)[k] = mem[k]
    BY <1>0, <1>5, Sizes DEF Filled
  <1>7. \A k \in at + 1 .. at + Len(cs) : Filled(mem, at, cs)[k] = cs[k - at]
    BY <1>0, <1>5, Sizes DEF Filled
  <1> QED
    BY <1>4, <1>6, <1>7

\* What is left and what can be put back moves to the front, the read goes behind it.
LEMMA BufferReadBegunFields ==
  ASSUME NEW d \in IoType, d.mem \in Memory, PointersRight(d), PbMax + Leftover(d) < ISize
  PROVE  LET e == BufferReadBegun(d) IN
         /\ e \in IoType /\ e.mem \in Memory /\ SamePut(e, d) /\ SameKind(e, d)
         /\ e.eback = PbMax - Putback(d) /\ e.gptr = Putback(d) /\ e.egptr = PbMax + Leftover(d)
         /\ d.gptr = Null => e.mem = d.mem
         /\ d.gptr # Null =>
              \A k \in PbMax - Putback(d) + 1 .. PbMax + Leftover(d) : e.mem[k] = d.mem[k - PbMax + d.gptr]
         /\ e.rpos = e.egptr /\ e.pollin /\ e.pollout = d.pollout /\ e.fault = d.fault
         /\ e.state = IF d.eof \/ d.wavail > 0 THEN "avail" ELSE "busy"
  <1> DEFINE pb == Putback(d)
             left == Leftover(d)
             mem == IF d.gptr = Null THEN d.mem ELSE Moved(d.mem, PbMax - pb, d.gptr - pb, pb + left)
             b == ReadBegun(d, PbMax + left)
             e == BufferReadBegun(d)
  <1>1. /\ pb \in 0 .. PbMax /\ left \in 0 .. ISize
        /\ d.gptr # Null => /\ pb <= d.gptr - d.eback /\ left = d.egptr - d.gptr
                            /\ d.gptr \in 0 .. ISize /\ d.eback \in 0 .. d.gptr
                            /\ d.egptr \in d.gptr .. ISize
    BY PutbackBounds
  <1>2. /\ b \in IoType /\ SameGet(b, d) /\ SamePut(b, d) /\ SameKind(b, d)
        /\ b.rpos = PbMax + left /\ b.pollin /\ b.pollout = d.pollout /\ b.fault = d.fault /\ b.eof = d.eof
        /\ b.state = IF d.eof \/ d.wavail > 0 THEN "avail" ELSE "busy"
    <2>1. PbMax + left \in Int
      BY <1>1, Sizes
    <2> QED
      BY <2>1, ReadBegunFields
  <1>3. /\ mem \in Memory
        /\ d.gptr = Null => mem = d.mem
        /\ d.gptr # Null => \A k \in PbMax - pb + 1 .. PbMax + left : mem[k] = d.mem[k - PbMax + d.gptr]
    <2>1. CASE d.gptr = Null
      BY <2>1
    <2>2. CASE d.gptr # Null
      <3> DEFINE to == PbMax - pb
                 from == d.gptr - pb
                 n == pb + left
      <3>1. /\ to \in Nat /\ from \in Nat /\ n \in Nat /\ to + n <= ISize /\ from + n <= ISize
            /\ to + n = PbMax + left
        BY <1>1, <2>2, Sizes
      <3>2. mem = Moved(d.mem, to, from, n)
        BY <2>2
      <3>3. \A k \in Int : k - to + from = k - PbMax + d.gptr
        BY <1>1, <2>2, Sizes
      <3> HIDE DEF to, from, n, mem, pb, left
      <3>4. mem \in Memory /\ \A k \in to + 1 .. to + n : mem[k] = d.mem[k - to + from]
        BY <3>1, <3>2, MovedMemory, ZenonT(30)
      <3>5. \A k \in to + 1 .. to + n : mem[k] = d.mem[k - PbMax + d.gptr]
        BY <3>1, <3>3, <3>4
      <3> QED
        BY <2>2, <3>1, <3>4, <3>5 DEF to
    <2> QED
      BY <2>1, <2>2
  <1>4. e = [b EXCEPT !.mem = mem, !.eback = PbMax - pb, !.gptr = pb, !.egptr = PbMax + left]
    BY DEF BufferReadBegun
  <1>5. mem \in Seq(0 .. MaxIn)
    BY <1>3, Sizes, FunctionIsSeq DEF Memory
  <1> HIDE DEF e, b, mem, pb, left
  <1>6. e \in IoType
    <2>1. PbMax - pb \in Int /\ pb \in Int /\ PbMax + left \in Int
      BY <1>1, Sizes
    <2> QED
      BY <1>2, <1>4, <1>5, <2>1 DEF IoType
  <1>7. /\ e.mem = mem /\ e.eback = PbMax - pb /\ e.gptr = pb /\ e.egptr = PbMax + left
        /\ SamePut(e, b) /\ SameKind(e, b)
    BY <1>2, <1>4 DEF IoType, SamePut, SameKind
  <1>8. /\ e.rpos = b.rpos /\ e.pollin = b.pollin /\ e.pollout = b.pollout /\ e.fault = b.fault
        /\ e.state = b.state
    BY <1>2, <1>4 DEF IoType
  <1> QED
    BY <1>2, <1>3, <1>6, <1>7, <1>8 DEF e, pb, left, SamePut, SameKind

\* No character is lost or repeated by it, if PbMax characters were kept.
LEMMA BufferReadBegunGet ==
  ASSUME NEW d \in IoType, d.mem \in Memory, PbMax + Leftover(d) < ISize, Putback(d) >= PbMax,
         NEW c \in Nat, NEW t \in Nat, NEW q \in Seq(1 .. MaxIn), NEW s \in Nat, GetArea(d, c, t, q, s)
  PROVE  GetArea(BufferReadBegun(d), c, t, q, s)
  <1> DEFINE e == BufferReadBegun(d)
  <1>1. PointersRight(d)
    BY DEF GetArea
  <1>2. /\ Putback(d) = PbMax /\ Leftover(d) \in 0 .. ISize
        /\ d.gptr # Null => /\ PbMax <= d.gptr - d.eback /\ Leftover(d) = d.egptr - d.gptr
                            /\ d.gptr \in 0 .. ISize /\ d.eback \in 0 .. d.gptr
                            /\ d.egptr \in d.gptr .. ISize
        /\ d.gptr = Null => Leftover(d) = 0
    BY <1>1, PutbackBounds, Sizes
  <1>3. /\ e \in IoType /\ e.eback = 0 /\ e.gptr = PbMax /\ e.egptr = PbMax + Leftover(d)
        /\ d.gptr # Null => \A k \in 1 .. PbMax + Leftover(d) : e.mem[k] = d.mem[k - PbMax + d.gptr]
    <2>1. /\ e \in IoType
          /\ e.eback = PbMax - Putback(d) /\ e.gptr = Putback(d) /\ e.egptr = PbMax + Leftover(d)
          /\ d.gptr # Null =>
               \A k \in PbMax - Putback(d) + 1 .. PbMax + Leftover(d) : e.mem[k] = d.mem[k - PbMax + d.gptr]
      BY <1>1, BufferReadBegunFields
    <2>2. PbMax - Putback(d) = 0 /\ PbMax - Putback(d) + 1 = 1
      BY <1>2, Sizes
    <2> HIDE DEF e
    <2> QED
      BY <1>2, <2>1, <2>2
  <1> HIDE DEF e
  <1>4. PointersRight(e) /\ Leftover(e) = Leftover(d) /\ e.gptr # Null
    BY <1>2, <1>3, Sizes DEF PointersRight, Leftover, Null
  <1>5. ASSUME NEW k \in e.eback + 1 .. e.egptr, k > e.gptr - t
        PROVE  e.mem[k] = c + (k - e.gptr)
    <2>1. CASE d.gptr = Null
      <3>1. t = 0
        BY <2>1 DEF GetArea
      <3> QED
        BY <1>2, <1>3, <1>5, <2>1, <3>1, Sizes
    <2>2. CASE d.gptr # Null
      <3> DEFINE j == k - PbMax + d.gptr
      <3>0. /\ PbMax \in Nat /\ d.gptr \in Int /\ d.eback \in Int /\ d.egptr \in Int /\ k \in Int
            /\ PbMax <= d.gptr - d.eback /\ k <= PbMax + (d.egptr - d.gptr) /\ k >= 1
            /\ k > PbMax - t /\ e.gptr = PbMax /\ Leftover(d) = d.egptr - d.gptr
        BY <1>2, <1>3, <1>5, <2>2, Sizes, SMTT(30)
      <3>1. /\ j \in d.eback + 1 .. d.egptr /\ j > d.gptr - t /\ j - d.gptr = k - e.gptr
            /\ k \in 1 .. PbMax + Leftover(d)
        <4>1. j \in Int /\ j >= d.eback + 1 /\ j <= d.egptr /\ j > d.gptr - t
          BY <3>0, SMTT(30)
        <4>2. j - d.gptr = k - e.gptr /\ k <= PbMax + Leftover(d)
          BY <3>0
        <4> QED
          BY <3>0, <4>1, <4>2
      <3>2. e.mem[k] = d.mem[j]
        BY <1>3, <2>2, <3>1
      <3> HIDE DEF j
      <3>3. d.mem[j] = c + (j - d.gptr)
        BY <3>1 DEF GetArea
      <3> QED
        BY <3>1, <3>2, <3>3
    <2> QED
      BY <2>1, <2>2
  <1>6. t <= c /\ s = c + Leftover(e) + Len(q) /\ \A j \in 1 .. Len(q) : q[j] = c + Leftover(e) + j
    BY <1>4 DEF GetArea
  <1> QED
    BY <1>4, <1>5, <1>6 DEF GetArea, e

\* Characters cs, the next ones that were sent, are appended to the get area.
LEMMA ArrivedGet ==
  ASSUME NEW d \in IoType, NEW e \in IoType, NEW c \in Nat, NEW t \in Nat, NEW q \in Seq(1 .. MaxIn),
         NEW s \in Nat, NEW n \in 0 .. Len(q), GetArea(d, c, t, q, s), d.gptr # Null,
         d.egptr + n <= ISize, e.eback = d.eback, e.gptr = d.gptr, e.egptr = d.egptr + n,
         d.mem \in Memory, e.mem = Filled(d.mem, d.egptr, SubSeq(q, 1, n))
  PROVE  GetArea(e, c, t, SubSeq(q, n + 1, Len(q)), s) /\ e.mem \in Memory
  <1> DEFINE cs == SubSeq(q, 1, n)
             r == SubSeq(q, n + 1, Len(q))
  <1>0. /\ Len(q) \in Nat /\ d.eback \in Int /\ d.gptr \in Int /\ d.egptr \in Int
        /\ Leftover(d) = d.egptr - d.gptr /\ Leftover(d) \in 0 .. ISize
        /\ 0 <= d.eback /\ d.eback <= d.gptr /\ d.gptr <= d.egptr /\ n \in Nat /\ n <= Len(q)
    <2>1. PointersRight(d) /\ Len(q) \in Nat
      BY DEF GetArea
    <2>2. /\ Leftover(d) = d.egptr - d.gptr /\ Leftover(d) \in 0 .. ISize
          /\ d.gptr \in 0 .. ISize /\ d.eback \in 0 .. d.gptr /\ d.egptr \in d.gptr .. ISize
      BY <2>1, PutbackBounds
    <2> QED
      BY <2>1, <2>2, Sizes
  <1>1. cs \in Seq(1 .. MaxIn) /\ Len(cs) = n /\ \A j \in 1 .. n : cs[j] = q[j]
    BY Halves
  <1>2. Len(r) = Len(q) - n /\ \A j \in 1 .. Len(r) : r[j] = q[j + n] /\ j + n \in 1 .. Len(q)
    BY Halves
  <1>3. /\ e.mem \in Memory
        /\ \A k \in 1 .. d.egptr : e.mem[k] = d.mem[k]
        /\ \A k \in d.egptr + 1 .. d.egptr + n : e.mem[k] = cs[k - d.egptr]
    <2>1. d.egptr \in Nat /\ d.egptr + Len(cs) <= ISize /\ e.mem = Filled(d.mem, d.egptr, cs)
      BY <1>0, <1>1
    <2>2. /\ Filled(d.mem, d.egptr, cs) \in Memory
          /\ \A k \in 1 .. d.egptr : Filled(d.mem, d.egptr, cs)[k] = d.mem[k]
          /\ \A k \in d.egptr + 1 .. d.egptr + Len(cs) : Filled(d.mem, d.egptr, cs)[k] = cs[k - d.egptr]
      BY <1>1, <2>1, FilledMemory
    <2> HIDE DEF cs
    <2> QED
      BY <1>1, <2>1, <2>2
  <1> HIDE DEF cs, r
  <1>4. PointersRight(e) /\ Leftover(e) = Leftover(d) + n
    BY <1>0 DEF PointersRight, Leftover
  <1>5. ASSUME NEW k \in e.eback + 1 .. e.egptr, k > e.gptr - t
        PROVE  e.mem[k] = c + (k - e.gptr)
    <2>1. CASE k <= d.egptr
      <3>1. k \in d.eback + 1 .. d.egptr /\ k \in 1 .. d.egptr /\ k > d.gptr - t
        BY <1>0, <1>5, <2>1
      <3> QED
        BY <1>3, <3>1 DEF GetArea
    <2>2. CASE k > d.egptr
      <3>0. k \in Int /\ k <= d.egptr + n
        BY <1>0
      <3>1. k - d.egptr \in 1 .. n /\ k - d.egptr \in 1 .. Len(q) /\ k \in d.egptr + 1 .. d.egptr + n
        <4>1. \A a, b, l, m \in Int : a > b /\ a <= b + m /\ m <= l =>
                a - b \in 1 .. m /\ a - b \in 1 .. l /\ a \in b + 1 .. b + m
          OBVIOUS
        <4>2. Len(q) \in Int /\ d.egptr \in Int /\ n \in Int
          BY <1>0
        <4> QED
          BY <1>0, <2>2, <3>0, <4>1, <4>2
      <3>2. q[k - d.egptr] = c + Leftover(d) + (k - d.egptr)
        BY <3>1 DEF GetArea
      <3>3. e.mem[k] = q[k - d.egptr]
        BY <1>1, <1>3, <3>1
      <3>4. Leftover(d) + (k - d.egptr) = k - e.gptr
        BY <1>0, <3>0, SMTT(30)
      <3>5. c + Leftover(d) + (k - d.egptr) = c + (k - e.gptr)
        <4>1. \A a, b, g, i \in Int : a + (b - g) + (i - b) = a + (i - g)
          OBVIOUS
        <4>2. c \in Int /\ d.egptr \in Int /\ d.gptr \in Int /\ k \in Int
          BY <1>0, <3>0
        <4>3. c + (d.egptr - d.gptr) + (k - d.egptr) = c + (k - d.gptr)
          BY <4>1, <4>2
        <4> QED
          BY <1>0, <4>3
      <3> QED
        BY <3>2, <3>3, <3>5
    <2> QED
      BY <1>0, <2>1, <2>2
  <1>6. t <= c /\ (e.gptr = Null => t = 0) /\ s = c + Leftover(e) + Len(r)
    BY <1>0, <1>2, <1>4 DEF GetArea
  <1>7. \A j \in 1 .. Len(r) : r[j] = c + Leftover(e) + j
    <2> SUFFICES ASSUME NEW j \in 1 .. Len(r) PROVE r[j] = c + Leftover(e) + j
      OBVIOUS
    <2>1. q[j + n] = c + Leftover(d) + (j + n)
      BY <1>2 DEF GetArea
    <2> QED
      BY <1>0, <1>2, <1>4, <2>1
  <1> QED
    BY <1>3, <1>4, <1>5, <1>6, <1>7 DEF GetArea, r

\* memmove() of what may be put back, in front of PbMax.
LEMMA KeptMemory ==
  ASSUME NEW mem \in Memory, NEW g \in Nat, NEW pb \in 0 .. PbMax, pb <= g, g <= ISize
  PROVE  /\ Moved(mem, PbMax - pb, g - pb, pb) \in Memory
         /\ \A k \in PbMax - pb + 1 .. PbMax : Moved(mem, PbMax - pb, g - pb, pb)[k] = mem[k - PbMax + g]
  <1> DEFINE to == PbMax - pb
             from == g - pb
  <1>1. to \in Nat /\ from \in Nat /\ pb \in Nat /\ to + pb <= ISize /\ from + pb <= ISize /\ to + pb = PbMax
    BY Sizes
  <1>2. \A k \in Int : k - to + from = k - PbMax + g
    BY Sizes
  <1> HIDE DEF to, from
  <1>3. /\ Moved(mem, to, from, pb) \in Memory
        /\ \A k \in to + 1 .. to + pb : Moved(mem, to, from, pb)[k] = mem[k - to + from]
    BY <1>1, MovedMemory
  <1>4. \A k \in to + 1 .. PbMax : Moved(mem, to, from, pb)[k] = mem[k - PbMax + g]
    BY <1>1, <1>2, <1>3
  <1> QED
    BY <1>3, <1>4 DEF to, from

\* What may be put back moves in front of PbMax, with nothing left behind it.
LEMMA KeptGet ==
  ASSUME NEW d \in IoType, NEW e \in IoType, d.mem \in Memory, d.gptr = d.egptr,
         NEW c \in Nat, NEW t \in Nat, NEW q \in Seq(1 .. MaxIn), NEW s \in Nat, GetArea(d, c, t, q, s),
         e.mem = IF d.gptr = Null THEN d.mem
                 ELSE Moved(d.mem, PbMax - Putback(d), d.gptr - Putback(d), Putback(d)),
         e.eback = PbMax - Putback(d), e.gptr = PbMax, e.egptr = PbMax
  PROVE  e.mem \in Memory /\ GetArea(e, c, t, q, s)
  <1> DEFINE pb == Putback(d)
  <1>1. /\ pb \in 0 .. PbMax /\ Leftover(d) = 0
        /\ d.gptr # Null => pb <= d.gptr - d.eback /\ d.gptr \in 0 .. ISize /\ d.eback \in 0 .. d.gptr
    <2>1. PointersRight(d)
      BY DEF GetArea
    <2>2. /\ pb \in 0 .. PbMax
          /\ d.gptr # Null => /\ pb <= d.gptr - d.eback /\ Leftover(d) = d.egptr - d.gptr
                              /\ d.gptr \in 0 .. ISize /\ d.eback \in 0 .. d.gptr
          /\ d.gptr = Null => Leftover(d) = 0
      BY <2>1, PutbackBounds
    <2> QED
      BY <2>2
  <1> HIDE DEF pb
  <1>2. /\ e.mem \in Memory
        /\ d.gptr # Null => \A k \in PbMax - pb + 1 .. PbMax : e.mem[k] = d.mem[k - PbMax + d.gptr]
    <2>1. CASE d.gptr = Null
      BY <2>1
    <2>2. CASE d.gptr # Null
      <3>1. d.gptr \in Nat /\ pb \in 0 .. PbMax /\ pb <= d.gptr /\ d.gptr <= ISize
        BY <1>1, <2>2, Sizes
      <3>2. e.mem = Moved(d.mem, PbMax - pb, d.gptr - pb, pb)
        BY <2>2 DEF pb
      <3>3. /\ Moved(d.mem, PbMax - pb, d.gptr - pb, pb) \in Memory
            /\ \A k \in PbMax - pb + 1 .. PbMax :
                 Moved(d.mem, PbMax - pb, d.gptr - pb, pb)[k] = d.mem[k - PbMax + d.gptr]
        BY <3>1, KeptMemory
      <3> QED
        BY <2>2, <3>2, <3>3
    <2> QED
      BY <2>1, <2>2
  <1>3. e.eback = PbMax - pb /\ PointersRight(e) /\ Leftover(e) = 0 /\ e.gptr # Null
    BY <1>1, Sizes DEF PointersRight, Leftover, Null, pb
  <1>4. ASSUME NEW k \in e.eback + 1 .. e.egptr, k > e.gptr - t
        PROVE  e.mem[k] = c + (k - e.gptr)
    <2>1. CASE d.gptr = Null
      <3>1. t = 0
        BY <2>1 DEF GetArea
      <3> QED
        BY <1>4, <3>1, Sizes
    <2>2. CASE d.gptr # Null
      <3> DEFINE j == k - PbMax + d.gptr
      <3>0. /\ PbMax \in Nat /\ d.gptr \in Int /\ d.eback \in Int /\ d.egptr = d.gptr /\ k \in Int
            /\ pb \in Int /\ pb <= d.gptr - d.eback /\ k <= PbMax /\ k >= PbMax - pb + 1
            /\ k > PbMax - t /\ e.gptr = PbMax
        BY <1>1, <1>3, <1>4, <2>2, Sizes
      <3>1. /\ j \in d.eback + 1 .. d.egptr /\ j > d.gptr - t /\ j - d.gptr = k - e.gptr
            /\ k \in PbMax - pb + 1 .. PbMax
        <4>1. j \in Int /\ j >= d.eback + 1 /\ j <= d.egptr /\ j > d.gptr - t
          BY <3>0, SMTT(30)
        <4>2. j - d.gptr = k - e.gptr
          BY <3>0
        <4> QED
          BY <3>0, <4>1, <4>2
      <3>2. e.mem[k] = d.mem[j]
        BY <1>2, <2>2, <3>1
      <3> HIDE DEF j
      <3>3. d.mem[j] = c + (j - d.gptr)
        BY <3>1 DEF GetArea
      <3> QED
        BY <3>1, <3>2, <3>3
    <2> QED
      BY <2>1, <2>2
  <1>5. t <= c /\ s = c + Leftover(e) + Len(q) /\ \A j \in 1 .. Len(q) : q[j] = c + Leftover(e) + j
    BY <1>1, <1>3 DEF GetArea
  <1> QED
    BY <1>2, <1>3, <1>4, <1>5 DEF GetArea

-----------------------------------------------------------------------------
(* The put area.                                                           *)

LEMMA SamePutArea ==
  ASSUME NEW d, NEW e, SamePut(e, d)
  PROVE  /\ PutFits(d) => PutFits(e)
         /\ \A w, p : PutArea(d, w, p) => PutArea(e, w, p)
  BY DEF SamePut, PutFits, PutArea

LEMMA TakesBounds ==
  ASSUME NEW n \in Nat \ {0}, room \in 0 .. Room, NEW k \in Takes(n)
  PROVE  k \in 0 .. n /\ k <= room /\ (k = 0 <=> peer = "reset" \/ room = 0) /\ room - k \in 0 .. Room
  BY Sizes DEF Takes, MinOf

\* The first n characters are written.
LEMMA WriteEndedPut ==
  ASSUME NEW d \in IoType, NEW e \in IoType, NEW n \in 1 .. Len(d.obuf), NEW w \in Nat, NEW p \in Nat,
         PutFits(d), e.obuf = SubSeq(d.obuf, n + 1, Len(d.obuf)), e.ocap = d.ocap,
         e.wlen = 0, e.wavail = 0
  PROVE  /\ PutFits(e) /\ Len(e.obuf) = Len(d.obuf) - n
         /\ PutArea(d, w, p) => PutArea(e, w - d.wavail + n, p)
  <1>1. /\ d.obuf \in Seq(Nat) /\ d.ocap \in Nat /\ d.wavail \in Nat /\ Len(d.obuf) \in Nat
        /\ n \in 0 .. Len(d.obuf) /\ n \in Nat
    BY DEF IoType
  <1>2. /\ Len(e.obuf) = Len(d.obuf) - n
        /\ \A j \in 1 .. Len(d.obuf) - n : e.obuf[j] = d.obuf[j + n] /\ j + n \in 1 .. Len(d.obuf)
    BY <1>1, Halves
  <1>3. PutFits(e)
    BY <1>1, <1>2, Sizes DEF PutFits
  <1>4. ASSUME PutArea(d, w, p) PROVE PutArea(e, w - d.wavail + n, p)
    <2>0. Len(d.obuf) = p - w + d.wavail
      BY <1>4 DEF PutArea
    <2>1. Len(e.obuf) = p - (w - d.wavail + n) + 0
      <3>2. p \in Int /\ w \in Int /\ d.wavail \in Int /\ n \in Int
        BY <1>1
      <3>4. Len(e.obuf) = Len(d.obuf) - n
        BY <1>2
      <3> DEFINE l == Len(d.obuf)
                 m == Len(e.obuf)
                 v == d.wavail
      <3>5. l = p - w + v /\ m = l - n /\ p \in Int /\ w \in Int /\ v \in Int /\ n \in Int
        BY <2>0, <3>2, <3>4
      <3> HIDE DEF l, m, v
      <3>6. m = p - (w - v + n) + 0
        BY <3>5
      <3> QED
        BY <3>6 DEF m, v
    <2>2. ASSUME NEW i \in 1 .. Len(e.obuf) PROVE e.obuf[i] = (w - d.wavail + n) - 0 + i
      <3>0. i \in 1 .. Len(d.obuf) - n
        BY <1>2
      <3>1. i + n \in 1 .. Len(d.obuf) /\ e.obuf[i] = d.obuf[i + n] /\ i \in Int
        BY <1>2, <3>0, SMTT(30)
      <3>2. d.obuf[i + n] = w - d.wavail + (i + n)
        BY <1>4, <3>1 DEF PutArea
      <3>3. \A a, b, c, m \in Int : a - b + (c + m) = (a - b + m) - 0 + c
        OBVIOUS
      <3>4. w \in Int /\ d.wavail \in Int /\ n \in Int
        BY <1>1
      <3>5. w - d.wavail + (i + n) = (w - d.wavail + n) - 0 + i
        BY <3>1, <3>3, <3>4
      <3> QED
        BY <3>1, <3>2, <3>5
    <2> QED
      BY <2>1, <2>2 DEF PutArea
  <1> QED
    BY <1>2, <1>3, <1>4

\* A write of all characters begins, and the kernel takes k of them.
LEMMA WriteBegunPut ==
  ASSUME NEW d \in IoType, NEW e \in IoType, NEW k \in 0 .. Len(d.obuf), NEW w \in Nat, NEW p \in Nat,
         PutFits(d), d.wavail = 0, e.obuf = d.obuf, e.ocap = d.ocap,
         e.wlen = Len(d.obuf), e.wavail = k
  PROVE  PutFits(e) /\ (PutArea(d, w, p) => PutArea(e, w + k, p))
  <1>1. Len(d.obuf) \in Nat /\ k \in Nat
    BY DEF IoType
  <1>2. PutFits(e)
    BY <1>1 DEF PutFits
  <1>3. ASSUME PutArea(d, w, p) PROVE PutArea(e, w + k, p)
    <2>1. Len(d.obuf) = p - w + 0 /\ \A i \in 1 .. Len(d.obuf) : d.obuf[i] = w - 0 + i
      BY <1>3 DEF PutArea
    <2>2. Len(e.obuf) = p - (w + k) + k
      BY <1>1, <2>1
    <2>3. \A i \in 1 .. Len(e.obuf) : e.obuf[i] = (w + k) - k + i
      BY <1>1, <2>1
    <2> QED
      BY <2>2, <2>3 DEF PutArea
  <1> QED
    BY <1>2, <1>3

\* A character is put.
LEMMA AddedPut ==
  ASSUME NEW d \in IoType, NEW w \in Nat, NEW p \in Nat, PutFits(d),
         d.ocap = 0 \/ Len(d.obuf) < d.ocap
  PROVE  LET e == Added(d, p + 1) IN
         /\ e \in IoType /\ SameGet(e, d) /\ SameKind(e, d) /\ PutFits(e)
         /\ e.wlen = d.wlen /\ e.wavail = d.wavail /\ e.rpos = d.rpos /\ e.pollin = d.pollin
         /\ e.pollout = d.pollout /\ e.fault = d.fault /\ e.state = d.state
         /\ PutArea(d, w, p) => PutArea(e, w, p + 1)
  <1> DEFINE e == Added(d, p + 1)
             o == Append(d.obuf, p + 1)
             cap == IF d.ocap = 0 THEN BufSize ELSE d.ocap
  <1>1. /\ d.obuf \in Seq(Nat) /\ d.ocap \in Nat /\ d.wavail \in Nat /\ d.wlen \in Nat
        /\ Len(d.obuf) \in Nat
    BY DEF IoType
  <1>2. /\ o \in Seq(Nat) /\ Len(o) = Len(d.obuf) + 1
        /\ \A i \in 1 .. Len(o) : o[i] = IF i = Len(d.obuf) + 1 THEN p + 1 ELSE d.obuf[i]
    BY <1>1
  <1>3. cap \in Nat /\ Len(o) <= cap /\ cap >= BufSize
    BY <1>1, <1>2, Sizes DEF PutFits
  <1>4. e = [d EXCEPT !.obuf = o, !.ocap = cap]
    BY DEF Added
  <1> HIDE DEF e, o, cap
  <1>5. e \in IoType
    BY <1>2, <1>3, <1>4 DEF IoType
  <1>6. /\ e.obuf = o /\ e.ocap = cap /\ SameGet(e, d) /\ SameKind(e, d)
        /\ e.wlen = d.wlen /\ e.wavail = d.wavail
    BY <1>4 DEF IoType, SameGet, SameKind
  <1>7. /\ e.rpos = d.rpos /\ e.pollin = d.pollin
        /\ e.pollout = d.pollout /\ e.fault = d.fault /\ e.state = d.state
    BY <1>4 DEF IoType
  <1>8. PutFits(e)
    BY <1>1, <1>2, <1>3, <1>6 DEF PutFits
  <1>9. ASSUME PutArea(d, w, p) PROVE PutArea(e, w, p + 1)
    <2>1. Len(d.obuf) = p - w + d.wavail /\ \A i \in 1 .. Len(d.obuf) : d.obuf[i] = w - d.wavail + i
      BY <1>9 DEF PutArea
    <2>2. Len(o) = (p + 1) - w + d.wavail
      BY <1>1, <1>2, <2>1
    <2>3. \A i \in 1 .. Len(o) : o[i] = w - d.wavail + i
      <3> SUFFICES ASSUME NEW i \in 1 .. Len(o) PROVE o[i] = w - d.wavail + i
        OBVIOUS
      <3>1. CASE i = Len(d.obuf) + 1
        <4>1. \A a, b, c \in Int : a + 1 = b - c + (a - b + c + 1)
          OBVIOUS
        <4> QED
          BY <1>1, <1>2, <2>1, <3>1, <4>1
      <3>2. CASE i # Len(d.obuf) + 1
        <4>1. i \in 1 .. Len(d.obuf) /\ o[i] = d.obuf[i]
          BY <1>1, <1>2, <3>2
        <4> QED
          BY <2>1, <4>1
      <3> QED
        BY <3>1, <3>2
    <2> QED
      BY <1>6, <2>2, <2>3 DEF PutArea
  <1> QED
    BY <1>5, <1>6, <1>7, <1>8, <1>9 DEF e

-----------------------------------------------------------------------------
(* Reading.                                                                *)

\* The invariant where steps start from.
LEMMA Now ==
  ASSUME StreamInv, ~deep, ~recalled
  PROVE  /\ StreamRight /\ io \in IoType /\ io.mem \in Memory /\ inq \in Seq(1 .. MaxIn)
         /\ room \in 0 .. Room /\ sent \in Nat /\ sent <= MaxIn /\ put \in Nat /\ put <= MaxOut
         /\ consumed \in Nat /\ taken \in Nat /\ wired \in Nat
         /\ PutFits(io) /\ ReadBehind(io) /\ FaultIsFinal(io) /\ Known(io, failed) /\ io.wavail <= wired
         /\ GetArea(io, consumed, taken, inq, sent) /\ PutArea(io, wired, put) /\ PointersRight(io)
  BY Sizes DEF StreamInv, StreamRight, GetArea

LEMMA BeginReadKeeps == ASSUME StreamInv, ~deep, ~recalled, BeginRead PROVE StreamInv'
  <1>1. /\ StreamRight /\ io \in IoType /\ io.mem \in Memory /\ inq \in Seq(1 .. MaxIn)
        /\ sent \in Nat /\ consumed \in Nat /\ taken \in Nat /\ PointersRight(io)
        /\ PutFits(io) /\ ReadBehind(io) /\ FaultIsFinal(io) /\ Known(io, failed) /\ io.wavail <= wired
        /\ GetArea(io, consumed, taken, inq, sent) /\ PutArea(io, wired, put)
    BY Now
  <1>2. /\ io' = BufferReadBegun(io) /\ PbMax + Leftover(io) < ISize
        /\ deep' = (deep \/ Putback(io) < PbMax)
        /\ UNCHANGED <<inq, room, peer, sent, consumed, wired, put, failed, recalled, taken>>
    BY DEF BeginRead
  <1>3. /\ io' \in IoType /\ io'.mem \in Memory /\ SamePut(io', io)
        /\ io'.gptr = Putback(io) /\ io'.rpos = io'.egptr /\ io'.pollin
        /\ io'.pollout = io.pollout /\ io'.fault = io.fault
        /\ io'.state = IF io.eof \/ io.wavail > 0 THEN "avail" ELSE "busy"
    BY <1>1, <1>2, BufferReadBegunFields
  <1>4. Putback(io) \in 0 .. PbMax
    BY <1>1, PutbackBounds
  <1>5. StreamRight'
    BY <1>1, <1>2, <1>3, <1>4, Sizes DEF StreamRight
  <1>6. PutFits(io') /\ PutArea(io', wired, put)
    BY <1>1, <1>3, SamePutArea
  <1>7. ReadBehind(io') /\ FaultIsFinal(io)' /\ io'.wavail = io.wavail
    BY <1>1, <1>2, <1>3, <1>4, Sizes DEF ReadBehind, FaultIsFinal, SamePut, Null
  <1>8. io'.rpos # Null
    BY <1>1, <1>3, <1>4, BufferReadBegunFields, <1>2, PutbackBounds, Sizes DEF Null
  <1>9. Known(io', failed)
    BY <1>1, <1>3, <1>8 DEF Known, SamePut
  <1>10. deep' = FALSE => GetArea(io', consumed, taken, inq, sent)
    <2> SUFFICES ASSUME deep' = FALSE PROVE GetArea(io', consumed, taken, inq, sent)
      OBVIOUS
    <2>0. ~(Putback(io) < PbMax)
      BY <1>2
    <2>1. Putback(io) >= PbMax
      BY <1>4, <2>0, Sizes
    <2> QED
      BY <1>1, <1>2, <2>1, BufferReadBegunGet
  <1> QED
    BY <1>1, <1>2, <1>5, <1>6, <1>7, <1>9, <1>10 DEF StreamInv

LEMMA EndReadKeeps == ASSUME StreamInv, ~deep, ~recalled, EndRead PROVE StreamInv'
  <1>1. /\ StreamRight /\ io \in IoType /\ io.mem \in Memory /\ inq \in Seq(1 .. MaxIn)
        /\ sent \in Nat /\ consumed \in Nat /\ taken \in Nat /\ PointersRight(io)
        /\ PutFits(io) /\ ReadBehind(io) /\ FaultIsFinal(io) /\ Known(io, failed) /\ io.wavail <= wired
        /\ GetArea(io, consumed, taken, inq, sent) /\ PutArea(io, wired, put)
    BY Now
  <1>2. /\ io.rpos # Null /\ ~io.fault
        /\ UNCHANGED <<room, peer, sent, consumed, wired, put, deep, failed, recalled, taken>>
    BY DEF EndRead, Reading
  <1>3. PICK n \in 0 .. MinOf(ISize - io.rpos, Len(inq)) :
          /\ io' = [ReadEnded(io, n) EXCEPT !.mem = Filled(@, io.rpos, SubSeq(inq, 1, n)), !.egptr = @ + n]
          /\ inq' = SubSeq(inq, n + 1, Len(inq))
    BY DEF EndRead
  <1> DEFINE r == ReadEnded(io, n)
  <1>4. /\ r \in IoType /\ SameGet(r, io) /\ SamePut(r, io) /\ SameKind(r, io)
        /\ r.rpos = Null /\ r.pollout = io.pollout /\ r.fault = io.fault
        /\ r.state = IF io.wavail > 0 THEN "avail" ELSE IF io.wlen > 0 THEN "busy" ELSE "idle"
    BY <1>1, ReadEndedFields
  <1>5. /\ io.rpos = io.egptr /\ io.gptr # Null /\ io.egptr \in 0 .. ISize /\ Len(inq) \in Nat
    BY <1>1, <1>2, PutbackBounds, Sizes, SMTT(30) DEF ReadBehind
  <1>6. n \in 0 .. Len(inq) /\ n \in Nat /\ io.egptr + n <= ISize
    BY <1>5, Sizes DEF MinOf
  <1> DEFINE mem == Filled(io.mem, io.egptr, SubSeq(inq, 1, n))
  <1>7. io' = [r EXCEPT !.mem = mem, !.egptr = io.egptr + n]
    BY <1>3, <1>4, <1>5 DEF SameGet, IoType
  <1>8. mem \in Memory
    <2> DEFINE cs == SubSeq(inq, 1, n)
    <2>1. cs \in Seq(1 .. MaxIn) /\ Len(cs) = n
      BY <1>1, <1>6, Halves, ZenonT(30)
    <2>2. io.egptr \in Nat /\ io.egptr + Len(cs) <= ISize
      BY <1>5, <1>6, <2>1, Sizes
    <2> HIDE DEF cs
    <2>3. Filled(io.mem, io.egptr, cs) \in Memory
      BY <1>1, <2>1, <2>2, FilledMemory
    <2> QED
      BY <2>3 DEF cs
  <1>9. mem \in Seq(0 .. MaxIn) /\ io.egptr + n \in Int
    BY <1>5, <1>6, <1>8, Sizes, FunctionIsSeq DEF Memory
  <1> HIDE DEF r, mem
  <1>10. io' \in IoType
    BY <1>4, <1>7, <1>9 DEF IoType
  <1>11. /\ io'.mem = mem /\ io'.eback = io.eback /\ io'.gptr = io.gptr /\ io'.egptr = io.egptr + n
         /\ SamePut(io', io)
    BY <1>4, <1>7 DEF IoType, SamePut, SameGet
  <1>12. /\ io'.rpos = Null /\ io'.pollout = io.pollout /\ io'.fault = io.fault
         /\ io'.state = r.state
    BY <1>4, <1>7 DEF IoType
  <1>13. GetArea(io', consumed, taken, inq', sent)
    BY <1>1, <1>3, <1>5, <1>6, <1>10, <1>11, ArrivedGet DEF mem
  <1>14. inq' \in Seq(1 .. MaxIn)
    BY <1>1, <1>3, <1>6, Halves
  <1>15. StreamRight'
    BY <1>1, <1>2, <1>8, <1>10, <1>11, <1>14 DEF StreamRight
  <1>16. PutFits(io') /\ PutArea(io', wired, put)
    BY <1>1, <1>11, SamePutArea
  <1>17. ReadBehind(io') /\ FaultIsFinal(io)' /\ io'.wavail = io.wavail
    BY <1>1, <1>2, <1>11, <1>12 DEF ReadBehind, FaultIsFinal, SamePut
  <1>18. Known(io', failed)
    <2>1. /\ io.wavail \in Nat /\ io.wlen \in Nat /\ io.wavail <= io.wlen
          /\ io'.wavail = io.wavail /\ io'.wlen = io.wlen
      BY <1>1, <1>11 DEF SamePut, PutFits, IoType
    <2>2. io'.state = IF io.wavail > 0 THEN "avail" ELSE IF io.wlen > 0 THEN "busy" ELSE "idle"
      BY <1>4, <1>12
    <2>3. ~failed => (io'.wlen > 0 /\ io'.wavail = 0 /\ ~io'.fault => io'.pollout)
      BY <1>1, <1>12, <2>1 DEF Known
    <2>4. io'.state = "idle" <=> io'.wlen = 0
      BY <2>1, <2>2
    <2> QED
      BY <1>12, <2>1, <2>2, <2>3, <2>4 DEF Known
  <1> QED
    BY <1>1, <1>2, <1>13, <1>15, <1>16, <1>17, <1>18 DEF StreamInv

LEMMA EndReadFailsKeeps == ASSUME StreamInv, ~deep, ~recalled, EndReadFails PROVE StreamInv'
  <1>1. /\ StreamRight /\ io \in IoType /\ io.mem \in Memory /\ inq \in Seq(1 .. MaxIn)
        /\ PutFits(io) /\ io.wavail <= wired
        /\ GetArea(io, consumed, taken, inq, sent) /\ PutArea(io, wired, put)
    BY Now
  <1>2. /\ io' = ReadFailed(io) /\ failed' = TRUE
        /\ UNCHANGED <<inq, room, peer, sent, consumed, wired, put, deep, recalled, taken>>
    BY DEF EndReadFails
  <1>3. /\ io' \in IoType /\ SameGet(io', io) /\ SamePut(io', io) /\ io'.rpos = Null /\ ~io'.fault
    BY <1>1, <1>2, ReadFailedFields
  <1>4. GetArea(io', consumed, taken, inq, sent) /\ PutFits(io') /\ PutArea(io', wired, put)
    BY <1>1, <1>3, SameGetArea, SamePutArea
  <1>5. StreamRight'
    BY <1>1, <1>2, <1>3 DEF StreamRight, SameGet
  <1>6. ReadBehind(io') /\ FaultIsFinal(io)' /\ Known(io', failed') /\ io'.wavail = io.wavail
    BY <1>2, <1>3 DEF ReadBehind, FaultIsFinal, Known, SamePut
  <1> QED
    BY <1>1, <1>2, <1>4, <1>5, <1>6 DEF StreamInv

\* A character is taken, or put back.
LEMMA StepKeeps == ASSUME StreamInv, ~deep, ~recalled, Getc \/ Unget PROVE StreamInv'
  <1>1. /\ StreamRight /\ io \in IoType /\ io.mem \in Memory /\ inq \in Seq(1 .. MaxIn)
        /\ sent \in Nat /\ consumed \in Nat /\ taken \in Nat /\ PointersRight(io)
        /\ PutFits(io) /\ ReadBehind(io) /\ FaultIsFinal(io) /\ Known(io, failed) /\ io.wavail <= wired
        /\ GetArea(io, consumed, taken, inq, sent) /\ PutArea(io, wired, put)
    BY Now
  <1>2. /\ io.gptr \in Int /\ io.eback \in Int /\ io.egptr \in Int
        /\ UNCHANGED <<inq, room, peer, sent, wired, put, deep, failed, recalled>>
    BY <1>1 DEF Getc, Unget, IoType
  <1>3. PICK x \in {-1, 1} :
          /\ io' = [io EXCEPT !.gptr = @ + x] /\ consumed' = consumed + x /\ taken' = taken + x
          /\ x = 1 => io.gptr < io.egptr
          /\ x = -1 => io.gptr > io.eback /\ taken > 0
    BY <1>1, <1>2 DEF Getc, Unget
  <1>4. /\ io' \in IoType /\ SamePut(io', io) /\ io'.mem = io.mem /\ io'.gptr = io.gptr + x
        /\ io'.eback = io.eback /\ io'.egptr = io.egptr
        /\ io'.rpos = io.rpos /\ io'.pollin = io.pollin /\ io'.pollout = io.pollout
        /\ io'.fault = io.fault /\ io'.state = io.state
    <2>1. io' = [io EXCEPT !.gptr = io.gptr + x] /\ io.gptr + x \in Int
      BY <1>2, <1>3
    <2> QED
      BY <1>1, <2>1 DEF IoType, SamePut
  <1>5. io.gptr # Null /\ 0 <= io.eback /\ io.eback <= io.gptr /\ io.gptr <= io.egptr /\ io.egptr <= ISize
    BY <1>1, <1>2, <1>3 DEF PointersRight, Null
  <1>6. /\ taken <= consumed /\ sent = consumed + Leftover(io) + Len(inq)
        /\ \A j \in 1 .. Len(inq) : inq[j] = consumed + Leftover(io) + j
        /\ \A k \in io.eback + 1 .. io.egptr : k > io.gptr - taken => io.mem[k] = consumed + (k - io.gptr)
    BY <1>1 DEF GetArea
  <1>7. /\ consumed' \in Nat /\ taken' \in Nat /\ taken' <= consumed'
    BY <1>1, <1>3, <1>6
  <1>8. PointersRight(io') /\ io'.gptr # Null
    BY <1>2, <1>3, <1>4, <1>5, Sizes DEF PointersRight, Null
  <1>9. Leftover(io) = io.egptr - io.gptr /\ Leftover(io') = io.egptr - (io.gptr + x)
    BY <1>4, <1>5, <1>8 DEF Leftover
  <1>10. consumed' + Leftover(io') = consumed + Leftover(io)
    <2>1. \A a, b, g, y \in Int : (a + y) + (b - (g + y)) = a + (b - g)
      OBVIOUS
    <2> QED
      <3>1. consumed \in Int /\ io.egptr \in Int /\ io.gptr \in Int /\ x \in Int
        BY <1>1, <1>2, <1>3
      <3>2. (consumed + x) + (io.egptr - (io.gptr + x)) = consumed + (io.egptr - io.gptr)
        BY <2>1, <3>1
      <3> QED
        BY <1>3, <1>9, <3>2
  <1>11. io'.gptr - taken' = io.gptr - taken
    BY <1>1, <1>2, <1>3, <1>4
  <1>12. ASSUME NEW k \in io'.eback + 1 .. io'.egptr, k > io'.gptr - taken'
         PROVE  io'.mem[k] = consumed' + (k - io'.gptr)
    <2>1. k \in io.eback + 1 .. io.egptr /\ k > io.gptr - taken /\ k \in Int
      BY <1>2, <1>4, <1>11, <1>12
    <2>2. io.mem[k] = consumed + (k - io.gptr)
      BY <1>6, <2>1
    <2>3. consumed + (k - io.gptr) = (consumed + x) + (k - (io.gptr + x))
      BY <1>1, <1>2, <1>3, <2>1, SMTT(30)
    <2> QED
      BY <1>3, <1>4, <2>2, <2>3
  <1>13. GetArea(io', consumed', taken', inq, sent)
    BY <1>6, <1>7, <1>8, <1>10, <1>12 DEF GetArea
  <1>14. StreamRight'
    BY <1>1, <1>2, <1>4, <1>7 DEF StreamRight
  <1>15. PutFits(io') /\ PutArea(io', wired, put) /\ io'.wavail = io.wavail
    BY <1>1, <1>4, SamePutArea DEF SamePut
  <1>16. ReadBehind(io') /\ FaultIsFinal(io)' /\ Known(io', failed)
    BY <1>1, <1>2, <1>4, <1>8 DEF ReadBehind, FaultIsFinal, Known, SamePut
  <1> QED
    BY <1>1, <1>2, <1>13, <1>14, <1>15, <1>16 DEF StreamInv
LEMMA UnderflowKeeps == ASSUME StreamInv, ~deep, ~recalled, Underflow PROVE StreamInv'
  <1>1. /\ StreamRight /\ io \in IoType /\ io.mem \in Memory /\ inq \in Seq(1 .. MaxIn)
        /\ sent \in Nat /\ consumed \in Nat /\ taken \in Nat /\ PointersRight(io)
        /\ PutFits(io) /\ ReadBehind(io) /\ FaultIsFinal(io) /\ Known(io, failed) /\ io.wavail <= wired
        /\ GetArea(io, consumed, taken, inq, sent) /\ PutArea(io, wired, put)
    BY Now
  <1> DEFINE pb == Putback(io)
             mem == IF io.gptr = Null THEN io.mem ELSE Moved(io.mem, PbMax - pb, io.gptr - pb, pb)
             after == IF io.async THEN [ReadBegun(io, 0) EXCEPT !.rpos = Null, !.pollin = FALSE] ELSE io
             m == [io EXCEPT !.mem = mem, !.eback = PbMax - pb, !.gptr = PbMax, !.egptr = PbMax]
  <1>2. /\ io.gptr = io.egptr /\ io.rpos = Null /\ failed' = (failed \/ io.async)
        /\ UNCHANGED <<room, peer, sent, consumed, wired, put, deep, recalled, taken>>
    BY DEF Underflow, Reading
  <1>3. PICK n \in 0 .. MinOf(BufSize, Len(inq)) :
          /\ io' = [after EXCEPT !.mem = Filled(mem, PbMax, SubSeq(inq, 1, n)), !.eof = (n = 0),
                                 !.eback = PbMax - pb, !.gptr = PbMax, !.egptr = PbMax + n]
          /\ inq' = SubSeq(inq, n + 1, Len(inq))
    BY DEF Underflow
  <1>4. n \in 0 .. Len(inq) /\ n \in Nat /\ PbMax + n <= ISize
    BY <1>1, Sizes DEF MinOf
  <1>5. pb \in 0 .. PbMax
    BY <1>1, PutbackBounds
  <1>6. mem \in Memory
    <2>1. CASE io.gptr = Null
      BY <1>1, <2>1
    <2>2. CASE io.gptr # Null
      <3>1. io.gptr \in 0 .. ISize /\ pb <= io.gptr - io.eback /\ io.eback \in 0 .. io.gptr
        BY <1>1, <2>2, PutbackBounds
      <3>2. /\ PbMax - pb \in Nat /\ io.gptr - pb \in Nat /\ pb \in Nat
            /\ (PbMax - pb) + pb <= ISize /\ (io.gptr - pb) + pb <= ISize
        BY <1>5, <3>1, Sizes, SMTT(30)
      <3> HIDE DEF pb
      <3>3. Moved(io.mem, PbMax - pb, io.gptr - pb, pb) \in Memory
        BY <1>1, <3>2, MovedMemory
      <3> QED
        BY <2>2, <3>3
    <2> QED
      BY <2>1, <2>2
  <1>7. mem \in Seq(0 .. MaxIn) /\ PbMax - pb \in Int /\ PbMax \in Int /\ PbMax + n \in Int
    <2> HIDE DEF pb, mem, m, after
    <2>1. mem \in Seq(0 .. MaxIn)
      BY <1>6, Sizes, FunctionIsSeq DEF Memory
    <2>2. PbMax - pb \in Int /\ PbMax \in Int /\ PbMax + n \in Int
      BY <1>4, <1>5, Sizes
    <2> QED
      BY <2>1, <2>2
  <1>8. /\ after \in IoType /\ SamePut(after, io) /\ SameGet(after, io) /\ after.rpos = Null
        /\ after.pollout = io.pollout /\ after.fault = io.fault
        /\ ~io.async => after = io
    <2>1. CASE io.async
      <3> DEFINE b == ReadBegun(io, 0)
      <3>0. 0 \in Int
        OBVIOUS
      <3>1. /\ b \in IoType /\ SamePut(b, io) /\ SameGet(b, io) /\ b.pollout = io.pollout /\ b.fault = io.fault
        BY <1>1, <3>0, ReadBegunFields
      <3>2. after = [b EXCEPT !.rpos = Null, !.pollin = FALSE]
        BY <2>1
      <3> HIDE DEF b, after
      <3>3. after \in IoType
        BY <3>1, <3>2, Sizes DEF IoType
      <3>4. SamePut(after, io) /\ SameGet(after, io)
        BY <3>1, <3>2 DEF IoType, SamePut, SameGet
      <3>5. after.rpos = Null /\ after.pollout = io.pollout /\ after.fault = io.fault
        BY <3>1, <3>2 DEF IoType
      <3> QED
        BY <2>1, <3>3, <3>4, <3>5
    <2>2. CASE ~io.async
      BY <1>1, <1>2, <2>2 DEF SamePut, SameGet
    <2> QED
      BY <2>1, <2>2
  <1> DEFINE cs == SubSeq(inq, 1, n)
             all == Filled(mem, PbMax, cs)
  <1>9. all \in Memory /\ all \in Seq(0 .. MaxIn)
    <2>1. cs \in Seq(1 .. MaxIn) /\ Len(cs) = n
      BY <1>1, <1>4, Halves, ZenonT(30)
    <2>2. PbMax \in Nat /\ PbMax + Len(cs) <= ISize
      BY <1>4, <2>1, Sizes
    <2> HIDE DEF cs, mem
    <2>3. all \in Memory
      BY <1>6, <2>1, <2>2, FilledMemory
    <2> HIDE DEF all
    <2> QED
      BY <2>3, Sizes, FunctionIsSeq DEF Memory
  <1>10. io' = [after EXCEPT !.mem = all, !.eof = (n = 0), !.eback = PbMax - pb, !.gptr = PbMax,
                             !.egptr = PbMax + n]
    BY <1>3
  <1>11. mem = IF io.gptr = Null THEN io.mem
               ELSE Moved(io.mem, PbMax - Putback(io), io.gptr - Putback(io), Putback(io))
    OBVIOUS
  <1>12. pb = Putback(io)
    OBVIOUS
  <1>13. all = Filled(mem, PbMax, SubSeq(inq, 1, n))
    OBVIOUS
  <1> HIDE DEF pb, mem, after, all, cs
  <1>14. m \in IoType /\ m.mem = mem /\ m.eback = PbMax - pb /\ m.gptr = PbMax /\ m.egptr = PbMax
    BY <1>1, <1>7 DEF IoType
  <1>15. io' \in IoType
    BY <1>7, <1>8, <1>9, <1>10 DEF IoType
  <1>16. /\ io'.mem = all /\ io'.eback = PbMax - pb /\ io'.gptr = PbMax /\ io'.egptr = PbMax + n
         /\ SamePut(io', io)
    BY <1>8, <1>10 DEF IoType, SamePut
  <1>17. /\ io'.rpos = Null /\ io'.pollout = io.pollout /\ io'.fault = io.fault
         /\ io'.state = after.state
    BY <1>8, <1>10 DEF IoType
  <1> HIDE DEF m
  <1>18. m.mem \in Memory /\ GetArea(m, consumed, taken, inq, sent)
    BY <1>1, <1>2, <1>11, <1>12, <1>14, KeptGet
  <1>19. GetArea(io', consumed, taken, inq', sent)
    <2>1. m.gptr # Null /\ m.egptr + n <= ISize /\ io'.eback = m.eback /\ io'.gptr = m.gptr
          /\ io'.egptr = m.egptr + n /\ io'.mem = Filled(m.mem, m.egptr, SubSeq(inq, 1, n))
      BY <1>4, <1>13, <1>14, <1>16, Sizes DEF Null
    <2>2. GetArea(io', consumed, taken, SubSeq(inq, n + 1, Len(inq)), sent)
      BY <1>1, <1>4, <1>14, <1>15, <1>18, <2>1, ArrivedGet
    <2> QED
      BY <1>3, <2>2
  <1>20. inq' \in Seq(1 .. MaxIn)
    BY <1>1, <1>3, <1>4, Halves
  <1>21. StreamRight'
    <2>1. failed' \in BOOLEAN
      BY <1>1, <1>2 DEF StreamRight
    <2> QED
      BY <1>1, <1>2, <1>9, <1>15, <1>16, <1>20, <2>1 DEF StreamRight
  <1>22. PutFits(io') /\ PutArea(io', wired, put) /\ io'.wavail = io.wavail
    BY <1>1, <1>16, SamePutArea DEF SamePut
  <1>23. ReadBehind(io') /\ FaultIsFinal(io)'
    BY <1>1, <1>2, <1>17, <1>22 DEF ReadBehind, FaultIsFinal
  <1>24. Known(io', failed')
    <2>1. failed' = FALSE => failed = FALSE /\ ~io.async
      BY <1>1, <1>2 DEF StreamRight
    <2>2. ~io.async => io'.state = io.state /\ io'.wlen = io.wlen
      BY <1>8, <1>16, <1>17 DEF SamePut
    <2> QED
      BY <1>1, <1>2, <1>17, <1>22, <2>1, <2>2 DEF Known
  <1> QED
    BY <1>1, <1>2, <1>19, <1>21, <1>22, <1>23, <1>24 DEF StreamInv
-----------------------------------------------------------------------------
(* Writing.                                                                *)

\* The invariant of a buffer d, when the kernel has got w and p characters are put.
BufferInv(d, w, p, f) ==
  /\ d \in IoType /\ d.mem \in Memory /\ PutFits(d) /\ ReadBehind(d) /\ FaultIsFinal(d) /\ Known(d, f)
  /\ d.wavail <= w /\ PutArea(d, w, p)

\* A step that leaves the get area and the peer alone, or moves the area by a read.
LEMMA Written ==
  ASSUME StreamInv, ~deep, ~recalled, BufferInv(io', wired', put', failed'),
         deep' = FALSE => GetArea(io', consumed, taken, inq, sent),
         deep' \in BOOLEAN, failed' \in BOOLEAN, wired' \in Nat, put' \in 0 .. MaxOut, room' \in 0 .. Room,
         UNCHANGED <<inq, peer, sent, consumed, recalled, taken>>
  PROVE  StreamInv'
  <1>1. StreamRight
    BY DEF StreamInv
  <1>2. StreamRight'
    BY <1>1 DEF StreamRight, BufferInv
  <1>3. FaultIsFinal(io)'
    BY DEF BufferInv, FaultIsFinal
  <1> QED
    BY <1>2, <1>3 DEF StreamInv, BufferInv

\* What the invariant says, of the buffer.
LEMMA BufferNow ==
  ASSUME StreamInv, ~deep, ~recalled
  PROVE  /\ BufferInv(io, wired, put, failed) /\ GetArea(io, consumed, taken, inq, sent)
         /\ wired \in Nat /\ put \in Nat /\ put \in 0 .. MaxOut /\ room \in 0 .. Room
         /\ deep = FALSE /\ recalled = FALSE /\ failed \in BOOLEAN
         /\ io.obuf \in Seq(Nat) /\ io.ocap \in Nat /\ io.wlen \in Nat /\ io.wavail \in Nat
         /\ Len(io.obuf) \in Nat /\ PointersRight(io)
         /\ consumed \in Nat /\ taken \in Nat /\ inq \in Seq(1 .. MaxIn) /\ sent \in Nat
  <1>1. /\ StreamRight /\ io \in IoType /\ io.mem \in Memory /\ inq \in Seq(1 .. MaxIn)
        /\ room \in 0 .. Room /\ sent \in Nat /\ consumed \in Nat /\ taken \in Nat /\ wired \in Nat
        /\ PutFits(io) /\ ReadBehind(io) /\ FaultIsFinal(io) /\ Known(io, failed) /\ io.wavail <= wired
        /\ GetArea(io, consumed, taken, inq, sent) /\ PutArea(io, wired, put) /\ PointersRight(io)
    BY Now
  <1>2. BufferInv(io, wired, put, failed)
    BY <1>1 DEF BufferInv
  <1>3. put \in Nat /\ put \in 0 .. MaxOut /\ deep = FALSE /\ recalled = FALSE /\ failed \in BOOLEAN
    BY <1>1, Sizes DEF StreamRight
  <1>4. /\ io.obuf \in Seq(Nat) /\ io.ocap \in Nat /\ io.wlen \in Nat /\ io.wavail \in Nat
        /\ Len(io.obuf) \in Nat
    BY <1>1 DEF IoType
  <1> QED
    BY <1>1, <1>2, <1>3, <1>4

\* A write of all characters begins, of which the kernel takes k at once.
LEMMA WriteBegunInv ==
  ASSUME NEW d \in IoType, NEW w \in Nat, NEW p \in Nat, NEW f, BufferInv(d, w, p, f), d.wlen = 0,
         d.obuf # <<>>, room \in 0 .. Room, NEW k \in Takes(Len(d.obuf))
  PROVE  LET e == WriteBegun(d, Len(d.obuf), k) IN
         /\ BufferInv(e, w + k, p, f) /\ SameGet(e, d) /\ e.rpos = d.rpos
         /\ e.obuf = d.obuf /\ e.ocap = d.ocap
         /\ k \in Nat /\ w + k \in Nat /\ room - k \in 0 .. Room
  <1> DEFINE e == WriteBegun(d, Len(d.obuf), k)
             l == Len(d.obuf)
  <1>1. /\ l \in Nat \ {0} /\ d.wavail = 0
    BY DEF BufferInv, PutFits, IoType
  <1>2. k \in 0 .. l /\ (k = 0 <=> peer = "reset" \/ room = 0) /\ room - k \in 0 .. Room
    <2> HIDE DEF l
    <2> QED
      BY <1>1, TakesBounds DEF l
  <1>3. k \in Nat /\ w + k \in Nat /\ k <= w + k
    BY <1>1, <1>2
  <1>4. IsWriteBegun(e, d, l, k)
    BY <1>1, <1>3, WriteBegunFields
  <1> HIDE DEF e
  <1>5. /\ e \in IoType /\ SameGet(e, d) /\ e.obuf = d.obuf /\ e.ocap = d.ocap
        /\ e.wlen = l /\ e.wavail = k /\ e.rpos = d.rpos /\ e.pollin = d.pollin
        /\ (e.fault <=> (d.fault \/ peer = "reset")) /\ (k = 0 /\ peer # "reset" => e.pollout)
        /\ e.state = IF k > 0 THEN "avail" ELSE "busy"
    BY <1>4 DEF IsWriteBegun
  <1>6. PutFits(e) /\ PutArea(e, w + k, p)
    BY <1>1, <1>2, <1>5, WriteBegunPut DEF BufferInv
  <1>7. ReadBehind(e) /\ e.mem \in Memory
    BY <1>5 DEF BufferInv, ReadBehind, SameGet
  <1>8. FaultIsFinal(e)
    BY <1>2, <1>5 DEF BufferInv, FaultIsFinal
  <1>9. Known(e, f)
    <2> HIDE DEF l
    <2> QED
      BY <1>1, <1>2, <1>5 DEF BufferInv, Known
  <1>10. BufferInv(e, w + k, p, f)
    BY <1>3, <1>5, <1>6, <1>7, <1>8, <1>9 DEF BufferInv
  <1> QED
    BY <1>2, <1>3, <1>5, <1>10 DEF e

LEMMA BeginWriteKeeps == ASSUME StreamInv, ~deep, ~recalled, BeginWrite PROVE StreamInv'
  <1>1. /\ BufferInv(io, wired, put, failed) /\ GetArea(io, consumed, taken, inq, sent)
        /\ wired \in Nat /\ put \in Nat /\ put \in 0 .. MaxOut /\ room \in 0 .. Room
        /\ deep = FALSE /\ failed \in BOOLEAN /\ io.wlen \in Nat /\ io \in IoType
    BY BufferNow DEF BufferInv
  <1>2. /\ io.wlen = 0 /\ io.obuf # <<>>
        /\ UNCHANGED <<inq, peer, sent, consumed, put, deep, failed, recalled, taken>>
    BY <1>1 DEF BeginWrite, Writing
  <1>3. PICK k \in Takes(Len(io.obuf)) :
          io' = WriteBegun(io, Len(io.obuf), k) /\ wired' = wired + k /\ room' = room - k
    BY DEF BeginWrite
  <1>4. /\ BufferInv(io', wired', put', failed') /\ SameGet(io', io)
        /\ wired' \in Nat /\ room' \in 0 .. Room
    BY <1>1, <1>2, <1>3, WriteBegunInv
  <1>5. GetArea(io', consumed, taken, inq, sent)
    BY <1>1, <1>4, SameGetArea
  <1>6. deep' \in BOOLEAN /\ failed' \in BOOLEAN /\ put' \in 0 .. MaxOut
    BY <1>1, <1>2
  <1> QED
    BY <1>2, <1>4, <1>5, <1>6, Written

\* A write of n characters ends, of which v were taken by the kernel before.
LEMMA WriteEndedInv ==
  ASSUME NEW d \in IoType, NEW w \in Nat, NEW p \in Nat, NEW f, BufferInv(d, w, p, f),
         NEW n \in 1 .. Len(d.obuf)
  PROVE  /\ BufferInv(WriteEnded(d, n), w - d.wavail + n, p, f) /\ w - d.wavail + n \in Nat
         /\ WriteEnded(d, n).rpos = d.rpos
         /\ WriteEnded(d, n).ocap = d.ocap /\ SameGet(WriteEnded(d, n), d) /\ WriteEnded(d, n).wlen = 0
         /\ Len(WriteEnded(d, n).obuf) < Len(d.obuf) /\ WriteEnded(d, n).fault = d.fault
         /\ WriteEnded(d, n).wavail = 0
  <1> DEFINE e == WriteEnded(d, n)
             l == Len(d.obuf)
             v == d.wavail
             m == Len(e.obuf)
  <1>1. /\ e \in IoType /\ SameGet(e, d) /\ e.ocap = d.ocap /\ e.obuf = SubSeq(d.obuf, n + 1, Len(d.obuf))
        /\ e.wlen = 0 /\ e.wavail = 0 /\ e.rpos = d.rpos /\ e.pollin = d.pollin /\ e.fault = d.fault
        /\ e.state = IF d.rpos # Null /\ d.eof THEN "avail" ELSE IF d.rpos # Null THEN "busy" ELSE "idle"
    BY WriteEndedFields
  <1> HIDE DEF e
  <1>2. PutFits(e) /\ m = l - n /\ PutArea(e, w - v + n, p)
    BY <1>1, WriteEndedPut DEF BufferInv
  <1>3. ReadBehind(e) /\ e.mem \in Memory /\ FaultIsFinal(e)
    BY <1>1 DEF BufferInv, ReadBehind, SameGet, FaultIsFinal
  <1>4. Known(e, f)
    BY <1>1 DEF BufferInv, Known
  <1>5. v \in Nat /\ v <= w /\ n \in Nat /\ n >= 1 /\ l \in Nat
    BY DEF BufferInv, IoType
  <1> HIDE DEF v, m, l
  <1>6. w - v + n \in Nat /\ 0 <= w - v + n /\ m < l
    BY <1>2, <1>5
  <1> QED
    BY <1>1, <1>2, <1>3, <1>4, <1>6 DEF BufferInv, e, v, m, l

LEMMA EndWriteKeeps == ASSUME StreamInv, ~deep, ~recalled, EndWrite PROVE StreamInv'
  <1>1. /\ BufferInv(io, wired, put, failed) /\ GetArea(io, consumed, taken, inq, sent)
        /\ wired \in Nat /\ put \in Nat /\ put \in 0 .. MaxOut /\ room \in 0 .. Room
        /\ deep = FALSE /\ failed \in BOOLEAN /\ Len(io.obuf) \in Nat
        /\ io.wlen \in Nat /\ io.wavail \in Nat
    BY BufferNow
  <1>2. /\ io.wlen > 0 /\ io.wavail <= io.wlen /\ io.wlen <= Len(io.obuf) /\ io \in IoType
        /\ UNCHANGED <<inq, peer, sent, consumed, put, deep, failed, recalled, taken>>
    BY <1>1 DEF EndWrite, Writing, BufferInv, PutFits
  <1>3. \E n \in 1 .. Len(io.obuf) :
          io' = WriteEnded(io, n) /\ wired' = wired - io.wavail + n /\ room' \in 0 .. Room
    <2>1. CASE io.wavail > 0
      <3>1. io' = WriteEnded(io, io.wavail) /\ UNCHANGED <<wired, room>>
        BY <2>1 DEF EndWrite
      <3>2. io.wavail \in 1 .. Len(io.obuf) /\ wired = wired - io.wavail + io.wavail
        BY <1>1, <1>2, <2>1
      <3> QED
        BY <1>1, <3>1, <3>2
    <2>2. CASE ~(io.wavail > 0)
      <3>1. /\ io.wavail = 0 /\ room > 0 /\ peer # "reset"
            /\ \E k \in Takes(io.wlen) : io' = WriteEnded(io, k) /\ wired' = wired + k /\ room' = room - k
        BY <2>2 DEF EndWrite
      <3>2. PICK k \in Takes(io.wlen) : io' = WriteEnded(io, k) /\ wired' = wired + k /\ room' = room - k
        BY <3>1
      <3>3. io.wlen \in Nat \ {0}
        BY <1>1, <1>2
      <3>4. k \in 0 .. io.wlen /\ (k = 0 <=> peer = "reset" \/ room = 0) /\ room - k \in 0 .. Room
        BY <1>1, <3>3, TakesBounds
      <3>5. k # 0
        BY <1>1, <3>1, <3>4
      <3>6. k \in 1 .. Len(io.obuf) /\ wired + k = wired - io.wavail + k
        BY <1>1, <1>2, <3>1, <3>4, <3>5
      <3> QED
        BY <3>2, <3>4, <3>6
    <2> QED
      BY <2>1, <2>2
  <1>4. PICK n \in 1 .. Len(io.obuf) :
          io' = WriteEnded(io, n) /\ wired' = wired - io.wavail + n /\ room' \in 0 .. Room
    BY <1>3
  <1>5. BufferInv(io', wired', put', failed') /\ wired' \in Nat /\ SameGet(io', io)
    BY <1>1, <1>2, <1>4, WriteEndedInv
  <1>6. GetArea(io', consumed, taken, inq, sent)
    BY <1>1, <1>5, SameGetArea
  <1> QED
    BY <1>1, <1>2, <1>4, <1>5, <1>6, Written

LEMMA EndWriteFailsKeeps == ASSUME StreamInv, ~deep, ~recalled, EndWriteFails PROVE StreamInv'
  <1>1. /\ BufferInv(io, wired, put, failed) /\ GetArea(io, consumed, taken, inq, sent)
        /\ wired \in Nat /\ put \in 0 .. MaxOut /\ room \in 0 .. Room /\ deep = FALSE
        /\ Len(io.obuf) \in Nat
    BY BufferNow
  <1>2. /\ io' = WriteFailed(io) /\ failed' = TRUE /\ (io.fault \/ io.wavail = 0)
        /\ UNCHANGED <<inq, room, peer, sent, consumed, wired, put, deep, recalled, taken>>
    BY DEF EndWriteFails
  <1>3. /\ io' \in IoType /\ SameGet(io', io) /\ io'.obuf = io.obuf /\ io'.ocap = io.ocap
        /\ io'.wlen = 0 /\ io'.wavail = 0 /\ io'.rpos = io.rpos /\ io'.pollin = io.pollin /\ ~io'.fault
    BY <1>1, <1>2, WriteFailedFields DEF BufferInv
  <1>4. io.wavail = 0
    BY <1>1, <1>2 DEF BufferInv, FaultIsFinal
  <1>5. PutFits(io') /\ PutArea(io', wired, put)
    BY <1>1, <1>3, <1>4 DEF BufferInv, PutFits, PutArea
  <1>6. ReadBehind(io') /\ io'.mem \in Memory /\ FaultIsFinal(io') /\ Known(io', TRUE)
    BY <1>1, <1>3 DEF BufferInv, ReadBehind, SameGet, FaultIsFinal, Known
  <1>7. BufferInv(io', wired', put', failed')
    <2>1. Known(io', failed') /\ wired' = wired /\ put' = put
      BY <1>2, <1>6
    <2>2. io'.wavail <= wired
      BY <1>1, <1>3
    <2> QED
      BY <1>3, <1>5, <1>6, <2>1, <2>2 DEF BufferInv
  <1>8. GetArea(io', consumed, taken, inq, sent)
    BY <1>1, <1>3, SameGetArea
  <1> QED
    BY <1>1, <1>2, <1>7, <1>8, Written

\* A character is put behind the others.
LEMMA AddedInv ==
  ASSUME NEW d \in IoType, NEW w \in Nat, NEW p \in Nat, NEW f, BufferInv(d, w, p, f),
         d.ocap = 0 \/ Len(d.obuf) < d.ocap
  PROVE  BufferInv(Added(d, p + 1), w, p + 1, f) /\ SameGet(Added(d, p + 1), d)
  <1> DEFINE e == Added(d, p + 1)
  <1>1. /\ e \in IoType /\ SameGet(e, d) /\ PutFits(e)
        /\ e.wlen = d.wlen /\ e.wavail = d.wavail /\ e.rpos = d.rpos /\ e.pollin = d.pollin
        /\ e.pollout = d.pollout /\ e.fault = d.fault /\ e.state = d.state
        /\ PutArea(d, w, p) => PutArea(e, w, p + 1)
    BY AddedPut DEF BufferInv
  <1> HIDE DEF e
  <1>2. ReadBehind(e) /\ e.mem \in Memory /\ FaultIsFinal(e) /\ Known(e, f)
    BY <1>1 DEF BufferInv, ReadBehind, SameGet, FaultIsFinal, Known
  <1> QED
    BY <1>1, <1>2 DEF BufferInv, e

LEMMA PutcKeeps == ASSUME StreamInv, ~deep, ~recalled, Putc PROVE StreamInv'
  <1>1. /\ BufferInv(io, wired, put, failed) /\ GetArea(io, consumed, taken, inq, sent) /\ io \in IoType
        /\ wired \in Nat /\ put \in Nat /\ put \in 0 .. MaxOut /\ room \in 0 .. Room /\ deep = FALSE
        /\ failed \in BOOLEAN
    BY BufferNow DEF BufferInv
  <1>2. /\ put < MaxOut /\ (io.ocap = 0 \/ Len(io.obuf) < io.ocap)
        /\ io' = Added(io, put + 1) /\ put' = put + 1
        /\ UNCHANGED <<inq, room, peer, sent, consumed, wired, deep, failed, recalled, taken>>
    BY DEF Putc
  <1>3. BufferInv(io', wired', put', failed') /\ SameGet(io', io)
    BY <1>1, <1>2, AddedInv
  <1>4. GetArea(io', consumed, taken, inq, sent) /\ put' \in 0 .. MaxOut
    BY <1>1, <1>2, <1>3, SameGetArea, Sizes
  <1> QED
    BY <1>1, <1>2, <1>3, <1>4, Written
\* The put area grows if it is full.
LEMMA GrownInv ==
  ASSUME NEW d \in IoType, NEW w \in Nat, NEW p \in Nat, NEW f, BufferInv(d, w, p, f), d.ocap > 0
  PROVE  LET e == IF Len(d.obuf) = d.ocap THEN [d EXCEPT !.ocap = @ + (@ \div 2)] ELSE d IN
         /\ BufferInv(e, w, p, f) /\ SameGet(e, d) /\ e.rpos = d.rpos /\ e.wlen = d.wlen
         /\ Len(e.obuf) < e.ocap
  <1> DEFINE l == Len(d.obuf)
             cap == d.ocap
             more == cap + (cap \div 2)
             g == [d EXCEPT !.ocap = more]
             e == IF l = cap THEN g ELSE d
  <1>1. /\ l \in Nat /\ cap \in Nat /\ l <= cap /\ cap >= BufSize /\ d.mem \in Memory /\ PutFits(d)
        /\ ReadBehind(d) /\ FaultIsFinal(d) /\ Known(d, f) /\ d.wavail <= w /\ PutArea(d, w, p)
    BY DEF BufferInv, PutFits, IoType
  <1>2. more \in Nat /\ cap < more /\ more >= BufSize
    <2> HIDE DEF cap
    <2>1. cap \in Nat /\ cap >= 2 /\ BufSize \in Nat /\ cap >= BufSize
      BY <1>1, Sizes
    <2> QED
      BY <2>1
  <1> HIDE DEF more
  <1>3. CASE l = cap
    <2>1. g \in IoType
      BY <1>2 DEF IoType
    <2>2. /\ SameGet(g, d) /\ g.obuf = d.obuf /\ g.ocap = more /\ g.wlen = d.wlen /\ g.wavail = d.wavail
      BY DEF IoType, SameGet
    <2>3. /\ g.rpos = d.rpos /\ g.pollin = d.pollin
          /\ g.pollout = d.pollout /\ g.fault = d.fault /\ g.state = d.state
      BY DEF IoType
    <2> HIDE DEF g
    <2>4. PutFits(g) /\ PutArea(g, w, p) /\ l < more
      BY <1>1, <1>2, <1>3, <2>2 DEF PutFits, PutArea
    <2>5. ReadBehind(g) /\ FaultIsFinal(g) /\ Known(g, f) /\ g.mem \in Memory
      BY <1>1, <2>2, <2>3 DEF ReadBehind, FaultIsFinal, Known, SameGet
    <2>6. BufferInv(g, w, p, f)
      BY <1>1, <2>1, <2>2, <2>4, <2>5 DEF BufferInv
    <2>7. e = g /\ Len(g.obuf) < g.ocap
      BY <1>3, <2>2, <2>4
    <2> QED
      BY <2>2, <2>3, <2>6, <2>7 DEF g, more
  <1>4. CASE l # cap
    <2>1. e = d /\ l < cap
      BY <1>1, <1>4
    <2> QED
      BY <2>1 DEF SameGet, more
  <1> QED
    BY <1>3, <1>4

\* Both operations are cancelled; what the kernel has not taken stays.
LEMMA CancelledInv ==
  ASSUME NEW d \in IoType, NEW w \in Nat, NEW p, NEW f, BufferInv(d, w, p, f)
  PROVE  LET e == Cancelled(d) IN
         /\ e \in IoType /\ e.mem \in Memory /\ PutFits(e) /\ ReadBehind(e) /\ FaultIsFinal(e) /\ Known(e, f)
         /\ e.wavail <= w /\ (d.wavail = 0 => PutArea(e, w, p))
         /\ SameGet(e, d) /\ e.rpos = Null /\ e.wlen = 0 /\ e.ocap = d.ocap /\ e.obuf = d.obuf
  <1> DEFINE e == Cancelled(d)
  <1>1. /\ e \in IoType /\ SameGet(e, d) /\ e.obuf = d.obuf /\ e.ocap = d.ocap
        /\ e.wlen = 0 /\ e.wavail = 0 /\ e.rpos = Null /\ e.fault = d.fault /\ e.state = "idle"
    BY CancelledFields
  <1> HIDE DEF e
  <1>2. PutFits(e) /\ (d.wavail = 0 => PutArea(e, w, p))
    <2>1. Len(d.obuf) \in Nat
      BY DEF IoType
    <2> QED
      BY <1>1, <2>1 DEF BufferInv, PutFits, PutArea
  <1>3. e.mem \in Memory /\ ReadBehind(e) /\ FaultIsFinal(e) /\ Known(e, f)
    BY <1>1 DEF BufferInv, SameGet, ReadBehind, FaultIsFinal, Known
  <1> QED
    BY <1>1, <1>2, <1>3 DEF e

\* A read begins, with the get area moved to the front.
LEMMA ReadBegunInv ==
  ASSUME NEW d \in IoType, NEW w \in Nat, NEW p, NEW f, BufferInv(d, w, p, f), PointersRight(d),
         PbMax + Leftover(d) < ISize
  PROVE  LET e == BufferReadBegun(d) IN
         BufferInv(e, w, p, f) /\ e.ocap = d.ocap /\ e.obuf = d.obuf
  <1> DEFINE e == BufferReadBegun(d)
  <1>1. d.mem \in Memory /\ Putback(d) \in 0 .. PbMax /\ Leftover(d) \in 0 .. ISize
    BY PutbackBounds DEF BufferInv
  <1>2. /\ e \in IoType /\ e.mem \in Memory /\ SamePut(e, d)
        /\ e.gptr = Putback(d) /\ e.egptr = PbMax + Leftover(d) /\ e.rpos = e.egptr /\ e.pollin
        /\ e.pollout = d.pollout /\ e.fault = d.fault
        /\ e.state = IF d.eof \/ d.wavail > 0 THEN "avail" ELSE "busy"
    BY <1>1, BufferReadBegunFields
  <1> HIDE DEF e
  <1>3. PutFits(e) /\ PutArea(e, w, p)
    BY <1>2, SamePutArea DEF BufferInv
  <1>4. e.rpos # Null /\ e.gptr # Null
    BY <1>1, <1>2, Sizes DEF Null
  <1>5. ReadBehind(e) /\ FaultIsFinal(e) /\ Known(e, f) /\ e.wavail <= w
    BY <1>2, <1>4 DEF BufferInv, SamePut, ReadBehind, FaultIsFinal, Known
  <1> QED
    BY <1>2, <1>3, <1>5 DEF BufferInv, SamePut, e
LEMMA OverflowExtendKeeps == ASSUME StreamInv, ~deep, ~recalled, OverflowExtend PROVE StreamInv'
  <1> DEFINE written == Writing /\ io.wavail > 0
             d == IF written THEN WriteEnded(io, io.wavail) ELSE IF Writing THEN Cancelled(io) ELSE io
             e == IF Len(d.obuf) = d.ocap THEN [d EXCEPT !.ocap = @ + (@ \div 2)] ELSE d
             again == Writing /\ e.obuf # <<>>
             reads == Writing /\ ~written /\ Reading
             W(k) == IF again THEN WriteBegun(e, Len(e.obuf), k) ELSE e
             R(k) == IF reads THEN BufferReadBegun(W(k)) ELSE W(k)
  <1>1. /\ BufferInv(io, wired, put, failed) /\ GetArea(io, consumed, taken, inq, sent)
        /\ wired \in Nat /\ put \in Nat /\ put \in 0 .. MaxOut /\ room \in 0 .. Room
        /\ deep = FALSE /\ failed \in BOOLEAN /\ io \in IoType /\ PointersRight(io)
        /\ io.wlen \in Nat /\ io.wavail \in Nat /\ io.ocap \in Nat
        /\ consumed \in Nat /\ taken \in Nat /\ inq \in Seq(1 .. MaxIn) /\ sent \in Nat
    BY BufferNow DEF BufferInv
  <1>2. /\ put < MaxOut /\ io.ocap > 0 /\ put' = put + 1
        /\ reads => PbMax + Leftover(io) < ISize
        /\ deep' = (deep \/ (reads /\ Putback(io) < PbMax))
        /\ UNCHANGED <<inq, peer, sent, consumed, failed, recalled, taken>>
    BY SMTT(30) DEF OverflowExtend, Full
  <1>3. PICK k \in IF again THEN Takes(Len(e.obuf)) ELSE {0} :
          io' = Added(R(k), put + 1) /\ wired' = wired + k /\ room' = room - k
    BY DEF OverflowExtend
  <1>4. BufferInv(d, wired, put, failed) /\ SameGet(d, io) /\ d.ocap = io.ocap /\ (~again \/ d.wlen = 0)
    <2>1. CASE written
      <3>0. io.wavail <= io.wlen /\ io.wlen <= Len(io.obuf) /\ Len(io.obuf) \in Nat
        BY <1>1 DEF BufferInv, PutFits, IoType
      <3>1. io.wavail \in 1 .. Len(io.obuf) /\ wired - io.wavail + io.wavail = wired
        BY <1>1, <2>1, <3>0
      <3> QED
        BY <1>1, <2>1, <3>1, WriteEndedInv
    <2>2. CASE Writing /\ ~written
      <3>1. d = Cancelled(io) /\ io.wavail = 0
        BY <1>1, <2>2
      <3> QED
        BY <1>1, <3>1, CancelledInv DEF BufferInv
    <2>3. CASE ~Writing
      <3>1. d = io /\ ~again
        BY <2>3
      <3> QED
        BY <1>1, <3>1 DEF SameGet
    <2> QED
      BY <2>1, <2>2, <2>3
  <1> HIDE DEF d
  <1>5. /\ BufferInv(e, wired, put, failed) /\ SameGet(e, d) /\ Len(e.obuf) < e.ocap /\ e.wlen = d.wlen
    BY <1>1, <1>2, <1>4, GrownInv DEF BufferInv
  <1>6. SameGet(e, io) /\ e \in IoType /\ (again => e.wlen = 0 /\ e.obuf # <<>>)
    BY <1>4, <1>5 DEF SameGet, BufferInv
  <1> HIDE DEF e
  <1>7. /\ BufferInv(W(k), wired + k, put, failed) /\ SameGet(W(k), io) /\ Len(W(k).obuf) < W(k).ocap
        /\ wired + k \in Nat /\ room - k \in 0 .. Room
    <2>1. CASE again
      <3>1. W(k) = WriteBegun(e, Len(e.obuf), k) /\ k \in Takes(Len(e.obuf))
        BY <2>1
      <3>2. /\ BufferInv(W(k), wired + k, put, failed) /\ SameGet(W(k), e)
            /\ W(k).obuf = e.obuf /\ W(k).ocap = e.ocap
            /\ wired + k \in Nat /\ room - k \in 0 .. Room
        BY <1>1, <1>5, <1>6, <2>1, <3>1, WriteBegunInv
      <3> QED
        BY <1>5, <1>6, <3>2 DEF SameGet
    <2>2. CASE ~again
      <3>1. W(k) = e /\ k = 0 /\ wired + k = wired /\ room - k = room
        BY <1>1, <2>2
      <3> QED
        BY <1>1, <1>5, <1>6, <3>1
    <2> QED
      BY <2>1, <2>2
  <1>8. W(k) \in IoType /\ W(k).mem \in Memory
    BY <1>7 DEF BufferInv
  <1>9. PointersRight(W(k)) /\ Leftover(W(k)) = Leftover(io) /\ Putback(W(k)) = Putback(io)
        /\ GetArea(W(k), consumed, taken, inq, sent)
    BY <1>1, <1>7, SameGetArea
  <1>10. /\ BufferInv(R(k), wired + k, put, failed) /\ Len(R(k).obuf) < R(k).ocap
         /\ deep' = FALSE => GetArea(R(k), consumed, taken, inq, sent)
    <2> DEFINE v == W(k)
    <2>0. BufferInv(v, wired + k, put, failed) /\ Len(v.obuf) < v.ocap /\ v \in IoType /\ v.mem \in Memory
          /\ PointersRight(v) /\ Leftover(v) = Leftover(io) /\ Putback(v) = Putback(io)
          /\ GetArea(v, consumed, taken, inq, sent) /\ wired + k \in Nat
      BY <1>7, <1>8, <1>9
    <2>1. CASE reads
      <3>1. R(k) = BufferReadBegun(v) /\ PbMax + Leftover(io) < ISize
        BY <1>2, <2>1
      <3> HIDE DEF v, W
      <3>2. BufferInv(R(k), wired + k, put, failed) /\ R(k).ocap = v.ocap /\ R(k).obuf = v.obuf
        BY <2>0, <3>1, ReadBegunInv
      <3>3. ASSUME deep' = FALSE PROVE GetArea(R(k), consumed, taken, inq, sent)
        <4>1. Putback(v) >= PbMax
          <5>1. ~(Putback(io) < PbMax) /\ Putback(v) = Putback(io) /\ Putback(v) \in 0 .. PbMax
            BY <1>2, <2>0, <2>1, <3>3, PutbackBounds
          <5> QED
            BY <5>1, Sizes
        <4> QED
          BY <1>1, <2>0, <3>1, <4>1, BufferReadBegunGet
      <3> QED
        BY <2>0, <3>2, <3>3
    <2>2. CASE ~reads
      <3>1. R(k) = v
        BY <2>2
      <3> HIDE DEF v, W, R
      <3> QED
        BY <2>0, <3>1
    <2> QED
      BY <2>1, <2>2
  <1>11. R(k) \in IoType
    BY <1>10 DEF BufferInv
  <1> HIDE DEF R, W, again
  <1>12. BufferInv(io', wired + k, put + 1, failed) /\ SameGet(io', R(k))
    BY <1>1, <1>3, <1>7, <1>10, <1>11, AddedInv
  <1>13. deep' = FALSE => GetArea(io', consumed, taken, inq, sent)
    BY <1>10, <1>12, SameGetArea
  <1>14. BufferInv(io', wired', put', failed')
    BY <1>2, <1>3, <1>12
  <1>15. /\ deep' \in BOOLEAN /\ failed' \in BOOLEAN /\ wired' \in Nat /\ put' \in 0 .. MaxOut
         /\ room' \in 0 .. Room
    <2>1. deep' \in BOOLEAN
      BY <1>2 DEF Reading
    <2>2. put' \in 0 .. MaxOut
      BY <1>1, <1>2, Sizes
    <2>3. failed' \in BOOLEAN /\ wired' \in Nat /\ room' \in 0 .. Room
      BY <1>1, <1>2, <1>3, <1>7
    <2> QED
      BY <2>1, <2>2, <2>3
  <1> QED
    BY <1>2, <1>13, <1>14, <1>15, Written

\* The get area is full, so that the read is not begun again.
LEMMA OverflowThrowsKeeps == ASSUME StreamInv, ~deep, ~recalled, OverflowThrows PROVE StreamInv'
  <1> DEFINE d == Cancelled(io)
             e == [d EXCEPT !.ocap = @ + (@ \div 2)]
             mem == MovedToFront(io)
             W(k) == WriteBegun(e, Len(io.obuf), k)
  <1>1. /\ BufferInv(io, wired, put, failed) /\ wired \in Nat /\ put \in Nat /\ put \in 0 .. MaxOut
        /\ room \in 0 .. Room /\ io \in IoType /\ io.mem \in Memory /\ PointersRight(io) /\ ReadBehind(io)
        /\ io.obuf \in Seq(Nat) /\ Len(io.obuf) \in Nat
    BY BufferNow DEF BufferInv
  <1>2. /\ io.ocap > 0 /\ Len(io.obuf) = io.ocap /\ io.wlen > 0 /\ io.wavail = 0 /\ io.rpos # Null
        /\ PbMax + Leftover(io) = ISize /\ deep' = TRUE /\ failed' = TRUE
        /\ UNCHANGED <<inq, peer, sent, consumed, put, recalled, taken>>
    BY DEF OverflowThrows, Full, Writing, Reading
  <1>3. PICK k \in Takes(Len(io.obuf)) :
          io' = [W(k) EXCEPT !.mem = mem] /\ wired' = wired + k /\ room' = room - k
    BY DEF OverflowThrows
  <1>4. mem \in Memory
    <2>1. /\ Putback(io) \in 0 .. PbMax /\ Putback(io) <= io.gptr - io.eback /\ Leftover(io) = io.egptr - io.gptr
          /\ io.gptr \in 0 .. ISize /\ io.eback \in 0 .. io.gptr /\ io.egptr \in io.gptr .. ISize
      BY <1>1, <1>2, PutbackBounds DEF ReadBehind
    <2> DEFINE pb == Putback(io)
               left == Leftover(io)
    <2>2. /\ PbMax - pb \in Nat /\ io.gptr - pb \in Nat /\ pb + left \in Nat
          /\ (PbMax - pb) + (pb + left) <= ISize /\ (io.gptr - pb) + (pb + left) <= ISize
      <3>1. /\ pb \in 0 .. PbMax /\ pb <= io.gptr - io.eback /\ left = io.egptr - io.gptr
            /\ PbMax + left = ISize
        BY <1>2, <2>1
      <3>2. /\ PbMax \in Int /\ ISize \in Int /\ io.gptr \in Int /\ io.eback \in Int /\ io.egptr \in Int
            /\ io.gptr >= 0 /\ io.eback >= 0 /\ io.egptr >= io.gptr /\ io.egptr <= ISize
        BY <2>1, Sizes
      <3>3. pb \in Int /\ left \in Int /\ pb >= 0 /\ pb <= PbMax /\ left >= 0
        BY <3>1, <3>2
      <3> HIDE DEF pb, left
      <3>4. pb <= io.gptr /\ io.gptr + left = io.egptr
        BY <3>1, <3>2, <3>3
      <3>5. \A x, y, z \in Int : (x - y) + (y + z) = x + z
        OBVIOUS
      <3>6. PbMax - pb \in Nat /\ io.gptr - pb \in Nat /\ pb + left \in Nat
        BY <3>2, <3>3, <3>4
      <3>7. (PbMax - pb) + (pb + left) = ISize /\ (io.gptr - pb) + (pb + left) = io.egptr
        BY <3>1, <3>2, <3>3, <3>4, <3>5
      <3>8. ISize <= ISize
        BY <3>2
      <3> QED
        BY <3>2, <3>6, <3>7, <3>8
    <2>3. Moved(io.mem, PbMax - pb, io.gptr - pb, pb + left) \in Memory
      <3> HIDE DEF pb, left
      <3> QED
        BY <1>1, <2>2, MovedMemory
    <2> QED
      BY <2>3 DEF MovedToFront
  <1> HIDE DEF mem
  <1>5. /\ BufferInv(d, wired, put, failed) /\ d.ocap = io.ocap /\ d.obuf = io.obuf /\ d.wlen = 0
        /\ d \in IoType
    BY <1>1, <1>2, CancelledInv DEF BufferInv
  <1> HIDE DEF d
  <1>6. /\ BufferInv(e, wired, put, failed) /\ e.wlen = 0 /\ e.obuf = io.obuf /\ e \in IoType
    <2>1. BufferInv(e, wired, put, failed) /\ e.wlen = d.wlen
      BY <1>1, <1>2, <1>5, GrownInv
    <2>2. e.obuf = d.obuf
      BY <1>5 DEF IoType
    <2> QED
      BY <1>5, <2>1, <2>2 DEF BufferInv
  <1> HIDE DEF e
  <1>7. io.obuf # <<>>
    BY <1>2
  <1>8. BufferInv(W(k), wired + k, put, failed) /\ wired + k \in Nat /\ room - k \in 0 .. Room
    BY <1>1, <1>3, <1>6, <1>7, WriteBegunInv
  <1> HIDE DEF W
  <1>9. /\ io' \in IoType /\ io'.mem = mem /\ io'.egptr = W(k).egptr /\ io'.gptr = W(k).gptr
        /\ io'.obuf = W(k).obuf /\ io'.ocap = W(k).ocap /\ io'.wlen = W(k).wlen /\ io'.wavail = W(k).wavail
        /\ io'.rpos = W(k).rpos /\ io'.pollin = W(k).pollin /\ io'.pollout = W(k).pollout
        /\ io'.fault = W(k).fault /\ io'.state = W(k).state
    <2>1. W(k) \in IoType /\ mem \in Seq(0 .. MaxIn)
      BY <1>4, <1>8, Sizes, FunctionIsSeq DEF BufferInv, Memory
    <2> QED
      BY <1>3, <2>1 DEF IoType
  <1>10. BufferInv(io', wired', put', failed')
    BY <1>2, <1>3, <1>4, <1>8, <1>9 DEF BufferInv, PutFits, ReadBehind, FaultIsFinal, Known, PutArea
  <1> QED
    BY <1>1, <1>2, <1>3, <1>8, <1>10, Written

\* Characters from the front of the put area are written, and io is d then.
LEMMA FlushedInv ==
  ASSUME StreamInv, ~deep, ~recalled, NEW k \in 1 .. Len(io.obuf), io.wavail > 0 => k = io.wavail
  PROVE  LET d == Flushed(k) IN
         /\ BufferInv(d, wired - io.wavail + k, put, failed) /\ wired - io.wavail + k \in Nat
         /\ SameGet(d, io) /\ Len(d.obuf) < Len(io.obuf) /\ d.ocap = io.ocap
  <1> DEFINE d == Flushed(k)
  <1>1. /\ BufferInv(io, wired, put, failed) /\ io \in IoType /\ wired \in Nat /\ put \in Nat
    BY BufferNow DEF BufferInv
  <1>2. CASE Writing \/ io.async
    <2>1. d = WriteEnded(io, k)
      BY <1>2 DEF Flushed
    <2> QED
      BY <1>1, <2>1, WriteEndedInv
  <1>3. CASE ~(Writing \/ io.async)
    <2> DEFINE o == SubSeq(io.obuf, k + 1, Len(io.obuf))
    <2>1. o \in Seq(Nat) /\ io.wlen = 0 /\ io.wavail = 0
      BY <1>1, <1>3, SMTT(30) DEF IoType, Writing, BufferInv, PutFits
    <2>2. d = [io EXCEPT !.obuf = o]
      BY <1>3 DEF Flushed
    <2> HIDE DEF o, d
    <2>3. d \in IoType
      BY <1>1, <2>1, <2>2 DEF IoType
    <2>4. /\ SameGet(d, io) /\ d.obuf = o /\ d.ocap = io.ocap /\ d.wlen = 0 /\ d.wavail = 0
      BY <1>1, <2>1, <2>2 DEF IoType, SameGet
    <2>5. /\ d.rpos = io.rpos /\ d.pollin = io.pollin
          /\ d.pollout = io.pollout /\ d.fault = io.fault /\ d.state = io.state
      BY <1>1, <2>2 DEF IoType
    <2>6. PutFits(d) /\ Len(d.obuf) = Len(io.obuf) - k /\ PutArea(d, wired - io.wavail + k, put)
      BY <1>1, <2>3, <2>4, WriteEndedPut DEF BufferInv, o
    <2>7. d.mem \in Memory /\ ReadBehind(d) /\ FaultIsFinal(d) /\ Known(d, failed)
      BY <1>1, <2>1, <2>4, <2>5 DEF BufferInv, SameGet, ReadBehind, FaultIsFinal, Known
    <2>8. wired - io.wavail + k \in Nat /\ Len(io.obuf) \in Nat /\ k \in 1 .. Len(io.obuf)
      BY <1>1, <2>1 DEF IoType
    <2>9. 0 <= wired - io.wavail + k /\ Len(d.obuf) < Len(io.obuf)
      BY <2>6, <2>8
    <2> QED
      BY <2>3, <2>4, <2>6, <2>7, <2>8, <2>9 DEF BufferInv, d
  <1> QED
    BY <1>2, <1>3

\* What overflow() and a turn of sync() have in common.
LEMMA OverflowWrites ==
  ASSUME StreamInv, ~deep, ~recalled, NEW c, Overflow(c), io.obuf # <<>>
  PROVE  \E k \in 1 .. Len(io.obuf) :
           /\ io.wavail > 0 => k = io.wavail
           /\ io' = IF c = 0 THEN Flushed(k) ELSE Added(Flushed(k), c)
           /\ wired' = wired - io.wavail + k /\ room' \in 0 .. Room
  <1>1. /\ wired \in Nat /\ room \in 0 .. Room /\ io.wavail \in Nat /\ io.obuf \in Seq(Nat)
        /\ io.wavail <= Len(io.obuf) /\ Len(io.obuf) \in Nat
    BY BufferNow DEF BufferInv, PutFits
  <1>2. PICK k \in IF io.wavail > 0 THEN {io.wavail} ELSE Takes(Len(io.obuf)) :
          /\ io' = IF c = 0 THEN Flushed(k) ELSE Added(Flushed(k), c)
          /\ IF io.wavail > 0 THEN UNCHANGED <<wired, room>> ELSE wired' = wired + k /\ room' = room - k
    BY DEF Overflow
  <1>3. CASE io.wavail > 0
    <2>1. k = io.wavail /\ wired' = wired - io.wavail + k /\ room' = room /\ k \in 1 .. Len(io.obuf)
      BY <1>1, <1>2, <1>3
    <2> QED
      BY <1>1, <1>2, <2>1
  <1>4. CASE ~(io.wavail > 0)
    <2>1. io.wavail = 0 /\ room > 0 /\ peer # "reset" /\ Len(io.obuf) \in Nat \ {0}
      BY <1>1, <1>4 DEF Overflow
    <2>2. k \in Takes(Len(io.obuf)) /\ wired' = wired + k /\ room' = room - k
      BY <1>2, <1>4
    <2>3. k \in 0 .. Len(io.obuf) /\ (k = 0 <=> peer = "reset" \/ room = 0) /\ room - k \in 0 .. Room
      BY <1>1, <2>1, <2>2, TakesBounds
    <2>4. k \in 1 .. Len(io.obuf) /\ wired' = wired - io.wavail + k
      BY <1>1, <2>1, <2>2, <2>3
    <2> QED
      BY <1>2, <1>4, <2>2, <2>3, <2>4
  <1> QED
    BY <1>3, <1>4

LEMMA OverflowKeeps == ASSUME StreamInv, ~deep, ~recalled, OverflowFlush \/ Sync PROVE StreamInv'
  <1>1. /\ BufferInv(io, wired, put, failed) /\ GetArea(io, consumed, taken, inq, sent)
        /\ put \in Nat /\ put \in 0 .. MaxOut /\ deep = FALSE /\ failed \in BOOLEAN /\ io.obuf \in Seq(Nat)
        /\ Len(io.obuf) <= io.ocap /\ io.ocap \in Nat /\ Len(io.obuf) \in Nat
    BY BufferNow DEF BufferInv, PutFits
  <1>2. PICK c \in {0, put + 1} :
          /\ Overflow(c) /\ put' = IF c = 0 THEN put ELSE put + 1
          /\ c # 0 => put < MaxOut /\ Len(io.obuf) = io.ocap /\ io.ocap > 0
          /\ c = 0 => io.obuf # <<>>
    BY <1>1 DEF OverflowFlush, Sync, Full
  <1>3. io.obuf # <<>> /\ put' \in 0 .. MaxOut
    BY <1>1, <1>2, Sizes
  <1>4. PICK k \in 1 .. Len(io.obuf) :
          /\ io.wavail > 0 => k = io.wavail
          /\ io' = IF c = 0 THEN Flushed(k) ELSE Added(Flushed(k), c)
          /\ wired' = wired - io.wavail + k /\ room' \in 0 .. Room
    BY <1>2, <1>3, OverflowWrites
  <1> DEFINE d == Flushed(k)
  <1>5. /\ BufferInv(d, wired', put, failed) /\ wired' \in Nat
        /\ SameGet(d, io) /\ Len(d.obuf) < Len(io.obuf) /\ d.ocap = io.ocap
    BY <1>4, FlushedInv
  <1> HIDE DEF d
  <1>6. BufferInv(io', wired', put', failed) /\ SameGet(io', io)
    <2>1. CASE c = 0
      BY <1>2, <1>4, <1>5, <2>1 DEF d
    <2>2. CASE c # 0
      <3>1. io' = Added(d, put + 1) /\ put' = put + 1
        BY <1>2, <1>4, <2>2 DEF d
      <3>2. Len(d.obuf) < d.ocap /\ d \in IoType
        BY <1>2, <1>5, <2>2 DEF BufferInv
      <3>3. BufferInv(io', wired', put + 1, failed) /\ SameGet(io', d)
        BY <1>1, <1>5, <3>1, <3>2, AddedInv
      <3> QED
        BY <1>5, <3>1, <3>3 DEF SameGet
    <2> QED
      BY <2>1, <2>2
  <1>7. GetArea(io', consumed, taken, inq, sent)
    BY <1>1, <1>6, SameGetArea
  <1>8. UNCHANGED <<inq, peer, sent, consumed, deep, failed, recalled, taken>>
    BY <1>2 DEF Overflow
  <1>9. BufferInv(io', wired', put', failed')
    BY <1>6, <1>8
  <1>10. deep' \in BOOLEAN /\ failed' \in BOOLEAN
    BY <1>1, <1>8
  <1> QED
    BY <1>3, <1>4, <1>5, <1>7, <1>8, <1>9, <1>10, Written
LEMMA CancelKeeps == ASSUME StreamInv, ~deep, ~recalled, Cancel PROVE StreamInv'
  <1>1. /\ StreamRight /\ BufferInv(io, wired, put, failed) /\ GetArea(io, consumed, taken, inq, sent)
        /\ io \in IoType /\ wired \in Nat /\ put \in Nat /\ recalled = FALSE /\ io.wavail \in Nat
    BY BufferNow DEF BufferInv, StreamInv
  <1>2. /\ io' = Cancelled(io) /\ recalled' = (recalled \/ io.wavail > 0)
        /\ UNCHANGED <<inq, room, peer, sent, consumed, wired, put, deep, failed, taken>>
    BY DEF Cancel
  <1>3. /\ io' \in IoType /\ io'.mem \in Memory /\ PutFits(io') /\ ReadBehind(io') /\ FaultIsFinal(io')
        /\ Known(io', failed) /\ io'.wavail <= wired /\ (io.wavail = 0 => PutArea(io', wired, put))
        /\ SameGet(io', io)
    BY <1>1, <1>2, CancelledInv
  <1>4. GetArea(io', consumed, taken, inq, sent)
    BY <1>1, <1>3, SameGetArea
  <1>5. StreamRight'
    <2>1. recalled' \in BOOLEAN
      BY <1>1, <1>2
    <2> QED
      BY <1>1, <1>2, <1>3, <2>1 DEF StreamRight
  <1>6. FaultIsFinal(io)'
    BY <1>2, <1>3 DEF FaultIsFinal
  <1>7. recalled' = FALSE => PutArea(io', wired, put)
    <2>1. recalled' = FALSE => ~(io.wavail > 0)
      BY <1>2
    <2>2. ~(io.wavail > 0) => io.wavail = 0
      BY <1>1
    <2> QED
      BY <1>3, <2>1, <2>2
  <1> QED
    BY <1>2, <1>3, <1>4, <1>5, <1>6, <1>7 DEF StreamInv

LEMMA DiscardKeeps == ASSUME StreamInv, ~deep, ~recalled, Discard PROVE StreamInv'
  <1> DEFINE b == IF io.gptr = Null THEN Null ELSE 0
             g == IF io.gptr = Null THEN Null ELSE ISize
             h == IF io.egptr = Null THEN Null ELSE ISize
  <1>1. /\ StreamRight /\ BufferInv(io, wired, put, failed) /\ GetArea(io, consumed, taken, inq, sent)
        /\ io \in IoType /\ put \in Nat /\ consumed \in Nat /\ inq \in Seq(1 .. MaxIn) /\ PointersRight(io)
        /\ io.mem \in Memory /\ sent \in Nat
    BY BufferNow DEF BufferInv, StreamInv
  <1>2. /\ io.rpos = Null /\ ~(io.wlen > 0)
        /\ io' = [io EXCEPT !.eback = b, !.gptr = g, !.egptr = h, !.obuf = <<>>]
        /\ consumed' = consumed + Leftover(io) /\ taken' = 0 /\ wired' = put
        /\ UNCHANGED <<inq, room, peer, sent, put, deep, failed, recalled>>
    BY <1>1 DEF Discard, Reading, Writing, IoType
  <1>3. b \in Int /\ g \in Int /\ h \in Int /\ <<>> \in Seq(Nat)
    BY Sizes
  <1>4. \/ b = Null /\ g = Null /\ h = Null
        \/ b = 0 /\ g = ISize /\ h = ISize
    <2>1. io.gptr = Null <=> io.egptr = Null
      BY <1>1, Sizes, PutbackBounds DEF Null
    <2>2. CASE io.gptr = Null
      BY <2>1, <2>2
    <2>3. CASE io.gptr # Null
      BY <2>1, <2>3
    <2> QED
      BY <2>2, <2>3
  <1> HIDE DEF b, g, h
  <1>5. io' \in IoType
    BY <1>1, <1>2, <1>3 DEF IoType
  <1>6. /\ io'.mem = io.mem /\ io'.eback = b /\ io'.gptr = g /\ io'.egptr = h /\ io'.obuf = <<>>
        /\ io'.ocap = io.ocap /\ io'.wlen = io.wlen /\ io'.wavail = io.wavail
    BY <1>1, <1>2 DEF IoType
  <1>7. /\ io'.rpos = Null /\ io'.pollin = io.pollin
        /\ io'.pollout = io.pollout /\ io'.fault = io.fault /\ io'.state = io.state
    BY <1>1, <1>2 DEF IoType
  <1>8. PointersRight(io') /\ Leftover(io') = 0
    BY <1>4, <1>6, Sizes DEF PointersRight, Leftover, Null
  <1>9. Leftover(io) \in Nat /\ consumed' \in Nat
    <2>1. Leftover(io) \in 0 .. ISize
      BY <1>1, PutbackBounds
    <2> QED
      BY <1>1, <1>2, <2>1, Sizes
  <1>10. GetArea(io', consumed', taken', inq, sent)
    <2>1. \A k \in io'.eback + 1 .. io'.egptr : ~(k > io'.gptr - 0)
      BY <1>4, <1>6, Sizes DEF Null
    <2>2. /\ sent = consumed' + Leftover(io') + Len(inq)
          /\ \A j \in 1 .. Len(inq) : inq[j] = consumed' + Leftover(io') + j
      BY <1>1, <1>2, <1>8, <1>9 DEF GetArea
    <2> QED
      BY <1>2, <1>8, <1>9, <2>1, <2>2 DEF GetArea
  <1>11. io.wlen = 0 /\ io.wavail = 0 /\ io.ocap \in Nat
    BY <1>1, <1>2 DEF BufferInv, PutFits, IoType
  <1>12. PutFits(io') /\ PutArea(io', put, put) /\ io'.wavail <= put
    BY <1>1, <1>6, <1>11 DEF BufferInv, PutFits, PutArea
  <1>13. ReadBehind(io') /\ FaultIsFinal(io)' /\ Known(io', failed)
    BY <1>1, <1>2, <1>6, <1>7, <1>11 DEF BufferInv, ReadBehind, FaultIsFinal, Known
  <1>14. StreamRight'
    BY <1>1, <1>2, <1>5, <1>6, <1>9 DEF StreamRight
  <1> QED
    BY <1>2, <1>10, <1>12, <1>13, <1>14 DEF StreamInv

-----------------------------------------------------------------------------
(* The peer.                                                               *)

LEMMA PeerSendsKeeps == ASSUME StreamInv, ~deep, ~recalled, PeerSends PROVE StreamInv'
  <1>1. /\ StreamRight /\ io \in IoType /\ inq \in Seq(1 .. MaxIn)
        /\ sent \in Nat /\ consumed \in Nat /\ PointersRight(io)
        /\ PutFits(io) /\ ReadBehind(io) /\ FaultIsFinal(io) /\ Known(io, failed) /\ io.wavail <= wired
        /\ GetArea(io, consumed, taken, inq, sent) /\ PutArea(io, wired, put)
    BY Now
  <1>2. /\ sent < MaxIn /\ sent' = sent + 1 /\ inq' = Append(inq, sent + 1)
        /\ UNCHANGED <<io, room, peer, consumed, wired, put, deep, failed, recalled, taken>>
    BY DEF PeerSends
  <1>3. sent + 1 \in 1 .. MaxIn /\ sent + 1 \in 0 .. MaxIn
    BY <1>1, <1>2, Sizes
  <1>4. /\ inq' \in Seq(1 .. MaxIn) /\ Len(inq') = Len(inq) + 1 /\ Len(inq) \in Nat
        /\ \A j \in 1 .. Len(inq) + 1 : inq'[j] = IF j = Len(inq) + 1 THEN sent + 1 ELSE inq[j]
    BY <1>1, <1>2, <1>3
  <1>5. GetArea(io, consumed, taken, inq', sent + 1)
    <2>1. Leftover(io) \in Nat
      <3>1. Leftover(io) \in 0 .. ISize
        BY <1>1, PutbackBounds
      <3> QED
        BY <3>1, Sizes
    <2>2. /\ sent = consumed + Leftover(io) + Len(inq)
          /\ \A j \in 1 .. Len(inq) : inq[j] = consumed + Leftover(io) + j
      BY <1>1 DEF GetArea
    <2>3. sent + 1 = consumed + Leftover(io) + Len(inq')
      BY <1>1, <1>4, <2>1, <2>2
    <2>4. ASSUME NEW j \in 1 .. Len(inq') PROVE inq'[j] = consumed + Leftover(io) + j
      <3>1. j \in 1 .. Len(inq) + 1
        BY <1>4
      <3>2. CASE j = Len(inq) + 1
        <4>1. inq'[j] = sent + 1
          BY <1>4, <3>1, <3>2
        <4> QED
          BY <1>1, <1>4, <2>1, <2>2, <3>2, <4>1
      <3>3. CASE j # Len(inq) + 1
        <4>1. inq'[j] = inq[j] /\ j \in 1 .. Len(inq)
          BY <1>4, <3>1, <3>3
        <4> QED
          BY <2>2, <4>1
      <3> QED
        BY <3>2, <3>3
    <2> QED
      BY <1>1, <2>3, <2>4 DEF GetArea
  <1>6. StreamRight'
    BY <1>1, <1>2, <1>3, <1>4 DEF StreamRight
  <1>7. FaultIsFinal(io)'
    BY <1>1, <1>2 DEF FaultIsFinal
  <1> QED
    BY <1>1, <1>2, <1>5, <1>6, <1>7 DEF StreamInv

LEMMA PeerKeeps == ASSUME StreamInv, ~deep, ~recalled, PeerReads \/ PeerEnds PROVE StreamInv'
  <1>1. /\ StreamRight /\ PutFits(io) /\ ReadBehind(io) /\ FaultIsFinal(io) /\ Known(io, failed)
        /\ io.wavail <= wired
        /\ GetArea(io, consumed, taken, inq, sent) /\ PutArea(io, wired, put)
    BY Now
  <1>2. /\ peer # "reset" /\ room' \in 0 .. Room /\ peer' \in {"open", "closed", "reset"}
        /\ UNCHANGED <<io, inq, sent, consumed, wired, put, deep, failed, recalled, taken>>
    BY <1>1, Sizes DEF PeerReads, PeerEnds, StreamRight
  <1>3. ~io.fault /\ FaultIsFinal(io)'
    BY <1>1, <1>2 DEF FaultIsFinal
  <1>4. StreamRight'
    BY <1>1, <1>2 DEF StreamRight
  <1> QED
    BY <1>1, <1>2, <1>3, <1>4 DEF StreamInv

-----------------------------------------------------------------------------
(* The theorems.                                                           *)

LEMMA StartsRight == ASSUME StreamInit PROVE StreamInv
  <1> DEFINE m == [i \in 1 .. ISize |-> 0]
  <1>1. m \in Memory /\ m \in Seq(0 .. MaxIn)
    <2>1. m \in Memory
      BY Sizes DEF Memory
    <2> HIDE DEF m
    <2> QED
      BY <2>1, Sizes, FunctionIsSeq DEF Memory
  <1> HIDE DEF m
  <1>2. /\ io \in [async : BOOLEAN, extend : BOOLEAN, mem : {m},
             eback : {Null}, gptr : {Null}, egptr : {Null}, rpos : {Null}, obuf : {<<>>},
             ocap : {0}, wlen : {0}, wavail : {0}, state : {"idle"}, pollin : {FALSE},
             pollout : {FALSE}, fault : {FALSE}, eof : {FALSE}]
        /\ inq = <<>> /\ room = Room /\ peer = "open" /\ sent = 0 /\ consumed = 0 /\ taken = 0 /\ wired = 0
        /\ put = 0 /\ deep = FALSE /\ failed = FALSE /\ recalled = FALSE
    BY DEF StreamInit, m
  <1>3. /\ io.async \in BOOLEAN /\ io.extend \in BOOLEAN /\ io.mem = m /\ io.eback = Null
        /\ io.gptr = Null /\ io.egptr = Null /\ io.rpos = Null /\ io.obuf = <<>> /\ io.ocap = 0
        /\ io.wlen = 0 /\ io.wavail = 0 /\ io.state = "idle" /\ io.pollin = FALSE
        /\ io.pollout = FALSE /\ io.fault = FALSE /\ io.eof = FALSE
    BY <1>2
  <1>4. <<>> \in Seq(Nat) /\ <<>> \in Seq(1 .. MaxIn) /\ 0 \in 0 .. MaxIn /\ 0 \in 0 .. MaxOut
        /\ Room \in 0 .. Room /\ Null \in Int
    BY Sizes
  <1>5. io \in IoType
    <2>1. \A t \in Seq(0 .. MaxIn), a, x \in BOOLEAN :
            [async |-> a, extend |-> x, mem |-> t, eback |-> Null, gptr |-> Null, egptr |-> Null,
             rpos |-> Null, obuf |-> <<>>, ocap |-> 0, wlen |-> 0, wavail |-> 0, state |-> "idle",
             pollin |-> FALSE, pollout |-> FALSE, fault |-> FALSE, eof |-> FALSE] \in IoType
      BY <1>4 DEF IoType
    <2>2. io = [async |-> io.async, extend |-> io.extend, mem |-> m, eback |-> Null, gptr |-> Null,
                egptr |-> Null, rpos |-> Null, obuf |-> <<>>, ocap |-> 0, wlen |-> 0, wavail |-> 0,
                state |-> "idle", pollin |-> FALSE, pollout |-> FALSE, fault |-> FALSE, eof |-> FALSE]
      BY <1>2
    <2> QED
      BY <1>1, <1>3, <2>1, <2>2
  <1>6. StreamRight
    BY <1>1, <1>2, <1>3, <1>4, <1>5 DEF StreamRight
  <1>7. PutFits(io) /\ ReadBehind(io) /\ FaultIsFinal(io) /\ Known(io, failed) /\ io.wavail <= wired
    BY <1>2, <1>3 DEF PutFits, ReadBehind, FaultIsFinal, Known
  <1>8. GetArea(io, consumed, taken, inq, sent)
    BY <1>2, <1>3 DEF GetArea, PointersRight, Leftover, Null
  <1>9. PutArea(io, wired, put)
    BY <1>2, <1>3 DEF PutArea
  <1> QED
    BY <1>6, <1>7, <1>8, <1>9 DEF StreamInv

LEMMA StreamStepKeeps == ASSUME StreamInv, [StreamNext]_streamVars PROVE StreamInv'
  <1>1. CASE UNCHANGED streamVars
    BY <1>1 DEF streamVars, StreamInv, StreamRight, FaultIsFinal
  <1>2. CASE StreamNext
    <2>1. ~deep /\ ~recalled
      BY <1>2 DEF StreamNext
    <2>2. CASE BeginRead BY <2>1, <2>2, BeginReadKeeps
    <2>3. CASE EndRead BY <2>1, <2>3, EndReadKeeps
    <2>4. CASE EndReadFails BY <2>1, <2>4, EndReadFailsKeeps
    <2>5. CASE Getc \/ Unget BY <2>1, <2>5, StepKeeps
    <2>6. CASE Underflow BY <2>1, <2>6, UnderflowKeeps
    <2>7. CASE BeginWrite BY <2>1, <2>7, BeginWriteKeeps
    <2>8. CASE EndWrite BY <2>1, <2>8, EndWriteKeeps
    <2>9. CASE EndWriteFails BY <2>1, <2>9, EndWriteFailsKeeps
    <2>10. CASE Putc BY <2>1, <2>10, PutcKeeps
    <2>11. CASE OverflowExtend BY <2>1, <2>11, OverflowExtendKeeps
    <2>12. CASE OverflowFlush \/ Sync BY <2>1, <2>12, OverflowKeeps
    <2>17. CASE OverflowThrows BY <2>1, <2>17, OverflowThrowsKeeps
    <2>13. CASE Cancel BY <2>1, <2>13, CancelKeeps
    <2>14. CASE Discard BY <2>1, <2>14, DiscardKeeps
    <2>15. CASE PeerSends BY <2>1, <2>15, PeerSendsKeeps
    <2>16. CASE PeerReads \/ PeerEnds BY <2>1, <2>16, PeerKeeps
    <2> QED
      BY <1>2, <2>2, <2>3, <2>4, <2>5, <2>6, <2>7, <2>8, <2>9, <2>10, <2>11, <2>12, <2>13, <2>14,
         <2>15, <2>16, <2>17 DEF StreamNext
  <1> QED
    BY <1>1, <1>2

\* The memory of the get area, the kernel's queue and the put area always hold
\* what was sent and not taken, and what was put and not written: whatever
\* reads and writes StreamBuffer (streambuffer.cpp) has begun meanwhile.
THEOREM StreamInvariant == StreamSpec => []StreamInv
  <1>1. StreamInit => StreamInv
    BY StartsRight
  <1>2. StreamInv /\ [StreamNext]_streamVars => StreamInv'
    BY StreamStepKeeps
  <1> QED
    BY <1>1, <1>2, PTL DEF StreamSpec

LEMMA UnreadAre ==
  ASSUME StreamInv, ~deep
  PROVE  [i \in 1 .. Leftover(io) |-> io.mem[io.gptr + i]] \o inq = Numbers(consumed + 1, sent)
  <1> DEFINE left == Leftover(io)
             unread == [i \in 1 .. left |-> io.mem[io.gptr + i]]
             all == Numbers(consumed + 1, sent)
  <1>1. /\ io \in IoType /\ io.mem \in Memory /\ inq \in Seq(1 .. MaxIn) /\ Len(inq) \in Nat
        /\ consumed \in Nat /\ sent \in Nat /\ taken \in Nat
        /\ PointersRight(io) /\ GetArea(io, consumed, taken, inq, sent)
    BY DEF StreamInv, StreamRight, GetArea
  <1>2. /\ left \in Nat /\ left <= ISize
        /\ io.gptr # Null => left = io.egptr - io.gptr /\ io.gptr \in 0 .. ISize
                             /\ io.eback \in 0 .. io.gptr /\ io.egptr \in io.gptr .. ISize
        /\ io.gptr = Null => left = 0
    BY <1>1, PutbackBounds, Sizes
  <1> HIDE DEF left
  <1>3. \A i \in 1 .. left : io.mem[io.gptr + i] = consumed + i /\ io.mem[io.gptr + i] \in 0 .. MaxIn
    <2> SUFFICES ASSUME NEW i \in 1 .. left
                 PROVE  io.mem[io.gptr + i] = consumed + i /\ io.mem[io.gptr + i] \in 0 .. MaxIn
      OBVIOUS
    <2>1. io.gptr # Null
      BY <1>2
    <2>2. /\ io.gptr + i \in io.eback + 1 .. io.egptr /\ io.gptr + i > io.gptr - taken
          /\ io.gptr + i \in 1 .. ISize /\ (io.gptr + i) - io.gptr = i
      <3> DEFINE g == io.gptr
                 b == io.eback
                 h == io.egptr
      <3>1. g \in Nat /\ b \in Nat /\ h \in Nat /\ b <= g /\ h <= ISize /\ left = h - g
        BY <1>2, <2>1, Sizes
      <3> HIDE DEF g, b, h
      <3>2. g + i \in b + 1 .. h /\ g + i > g - taken /\ g + i \in 1 .. ISize /\ (g + i) - g = i
        BY <1>1, <1>2, <3>1, Sizes
      <3> QED
        BY <3>2 DEF g, b, h
    <2>3. io.mem[io.gptr + i] = consumed + ((io.gptr + i) - io.gptr)
      BY <1>1, <2>2 DEF GetArea
    <2>4. io.mem[io.gptr + i] \in 0 .. MaxIn
      BY <1>1, <2>2 DEF Memory
    <2> QED
      BY <2>2, <2>3, <2>4
  <1>4. unread \in Seq(Nat) /\ Len(unread) = left /\ \A i \in 1 .. left : unread[i] = consumed + i
    <2>1. \A i \in 1 .. left : io.mem[io.gptr + i] \in Nat
      BY <1>3, Sizes
    <2>2. unread \in [1 .. left -> Nat]
      BY <2>1
    <2>3. \A i \in 1 .. left : unread[i] = consumed + i
      BY <1>3
    <2> HIDE DEF unread
    <2> QED
      BY <1>2, <2>2, <2>3, FunctionIsSeq
  <1> HIDE DEF unread
  <1>5. inq \in Seq(Nat) /\ \A j \in 1 .. Len(inq) : inq[j] = consumed + left + j
    BY <1>1, Sizes DEF GetArea, left
  <1>6. sent = consumed + left + Len(inq)
    BY <1>1 DEF GetArea, left
  <1>7. /\ unread \o inq \in Seq(Nat) /\ Len(unread \o inq) = left + Len(inq)
        /\ \A i \in 1 .. left + Len(inq) : (unread \o inq)[i] = consumed + i
    <2> DEFINE l == Len(inq)
               u == unread \o inq
    <2>1. /\ u \in Seq(Nat) /\ Len(u) = left + l
          /\ \A i \in 1 .. left : u[i] = unread[i]
          /\ \A i \in 1 .. l : u[left + i] = inq[i]
      <3>1. /\ u \in Seq(Nat) /\ Len(u) = Len(unread) + l
            /\ \A i \in 1 .. Len(unread) : u[i] = unread[i]
            /\ \A i \in 1 .. l : u[Len(unread) + i] = inq[i]
        <4>1. unread \in Seq(Nat) /\ inq \in Seq(Nat)
          BY <1>4, <1>5
        <4>2. u = unread \o inq /\ l = Len(inq)
          OBVIOUS
        <4> HIDE DEF u, l
        <4> QED
          BY <4>1, <4>2, Joined
      <3> HIDE DEF u, l
      <3> QED
        BY <1>4, <3>1
    <2> HIDE DEF l, u
    <2>2. ASSUME NEW i \in 1 .. left + l PROVE u[i] = consumed + i
      <3>1. CASE i <= left
        <4>1. i \in 1 .. left
          BY <1>2, <3>1
        <4> QED
          BY <1>4, <2>1, <4>1
      <3>2. CASE ~(i <= left)
        <4>1. i - left \in 1 .. l /\ left + (i - left) = i /\ consumed + left + (i - left) = consumed + i
          BY <1>1, <1>2, <3>2 DEF l
        <4>2. inq[i - left] = consumed + left + (i - left)
          BY <1>5, <4>1 DEF l
        <4> QED
          BY <2>1, <4>1, <4>2
      <3> QED
        BY <3>1, <3>2
    <2> QED
      BY <2>1, <2>2 DEF l, u
  <1>8. /\ all \in Seq(Nat) /\ Len(all) = left + Len(inq)
        /\ \A i \in 1 .. left + Len(inq) : all[i] = consumed + i
    <2> DEFINE n == left + Len(inq)
    <2>1. n \in Nat /\ sent - (consumed + 1) + 1 = n
      BY <1>1, <1>2, <1>6
    <2>2. all = [i \in 1 .. n |-> (consumed + 1) + i - 1]
      BY <2>1 DEF Numbers
    <2> HIDE DEF n, all
    <2>3. all \in [1 .. n -> Nat]
      BY <1>1, <2>2
    <2>4. all \in Seq(Nat) /\ Len(all) = n
      BY <2>1, <2>3, FunctionIsSeq
    <2>5. \A i \in 1 .. n : all[i] = consumed + i
      BY <1>1, <2>2
    <2> QED
      BY <2>4, <2>5 DEF n
  <1> HIDE DEF all
  <1>9. unread \o inq = all
    BY <1>7, <1>8, EqualSequences
  <1> QED
    BY <1>9 DEF unread, all, left

LEMMA BufferedAre == ASSUME StreamInv, ~recalled PROVE io.obuf = Numbers(wired - io.wavail + 1, put)
  <1> DEFINE all == Numbers(wired - io.wavail + 1, put)
             w == wired - io.wavail
             n == Len(io.obuf)
  <1>1. /\ io.obuf \in Seq(Nat) /\ n \in Nat /\ w \in Nat /\ put \in Nat
        /\ n = put - w /\ \A i \in 1 .. n : io.obuf[i] = w + i
    <2>1. /\ io.obuf \in Seq(Nat) /\ io.wavail \in Nat /\ wired \in Nat /\ put \in Nat
          /\ io.wavail <= wired /\ PutArea(io, wired, put)
      BY Sizes DEF StreamInv, StreamRight, IoType
    <2>2. n \in Nat /\ n = put - wired + io.wavail /\ \A i \in 1 .. n : io.obuf[i] = w + i
      BY <2>1 DEF PutArea
    <2>3. w \in Nat /\ put - wired + io.wavail = put - w
      BY <2>1
    <2> QED
      BY <2>1, <2>2, <2>3
  <1>2. all = [i \in 1 .. put - (w + 1) + 1 |-> (w + 1) + i - 1]
    BY DEF Numbers
  <1> HIDE DEF all, w, n
  <1>3. put - (w + 1) + 1 = n
    BY <1>1
  <1>4. all \in [1 .. n -> Nat] /\ \A i \in 1 .. n : all[i] = w + i
    BY <1>1, <1>2, <1>3
  <1>5. all \in Seq(Nat) /\ Len(all) = n
    BY <1>1, <1>4, FunctionIsSeq
  <1>6. io.obuf = all
    BY <1>1, <1>4, <1>5, EqualSequences DEF n
  <1> QED
    BY <1>6 DEF all

\* What a program that reads and writes through a StreamBuffer relies on: no
\* character is lost, repeated or out of order, a pending read works behind
\* the get area, and the selector knows what is pending.
THEOREM StreamsAreSound == StreamSpec => []StreamsSound
  <1>1. StreamInv => StreamTypeOK
    <2> SUFFICES ASSUME StreamInv PROVE StreamTypeOK
      OBVIOUS
    <2>1. io \in IoType /\ inq \in Seq(1 .. MaxIn) /\ room \in 0 .. Room /\ PutFits(io)
      BY DEF StreamInv, StreamRight
    <2>2. Len(io.mem) = ISize
      BY Sizes, FunctionIsSeq DEF StreamInv, StreamRight, Memory
    <2>3. deep \/ PointersRight(io)
      BY DEF StreamInv, GetArea
    <2> QED
      BY <2>1, <2>2, <2>3 DEF StreamTypeOK, PutFits, PointersRight
  <1>2. StreamInv => ReadInOrder /\ WrittenInOrder
    BY UnreadAre, BufferedAre DEF ReadInOrder, WrittenInOrder
  <1>3. StreamInv => ReadIsBehind /\ SelectorKnows
    <2> SUFFICES ASSUME StreamInv PROVE ReadIsBehind /\ SelectorKnows
      OBVIOUS
    <2>1. io.wlen \in Nat
      BY DEF StreamInv, StreamRight, IoType
    <2> QED
      BY <2>1 DEF StreamInv, ReadBehind, Known, ReadIsBehind, SelectorKnows, Reading, Writing
  <1>4. StreamInv => StreamsSound
    BY <1>1, <1>2, <1>3 DEF StreamsSound
  <1> QED
    BY <1>4, StreamInvariant, PTL

(***************************************************************************)
(* TcpSocket                                                               *)
(***************************************************************************)

-----------------------------------------------------------------------------
(* The inductive invariant.                                                *)

\* There is a descriptor and it has no connection yet.
Fresh(d) == d.fd /\ ~IsConnected(d)

\* The kernel has an answer only for the descriptor of an attempt.
WireRight == wire # "none" => Fresh(tcp) /\ tcp.ptr <= Addresses /\ asked # "ssl"

\* An attempt that is not under way has left its result or a message.
AttemptRight == Fresh(tcp) => wire # "none" \/ tcp.result \/ tcp.messages

\* The program is in connect() or endConnect() only with something to end.
CallRight ==
  call # "none" =>
    /\ tcp.state \in {"idle", "connecting", "connected"}
    /\ asked = "none"
    /\ call = "connect" /\ Fresh(tcp) => wire # "none"
    /\ call = "endConnect" => tcp.enabled
    /\ tcp.state = "connected" \/ tcp.fd \/ tcp.result \/ tcp.messages

\* It waits there only for an attempt.
LoopRight == looping => call # "none" /\ Fresh(tcp)

\* Nothing is read or written before there is a connection, after close(), or
\* in a handshake.
Quiet ==
  Fresh(tcp) \/ ~tcp.enabled \/ tcp.state \in Handshakes => ~tcp.reading /\ ~tcp.writing

\* Who waits for the connection waits for an attempt that is polled for once
\* the selector has its list.
ConnectAwaited ==
  asked = "connect" /\ pollerr =>
    wire # "none" /\ (~tcp.dirty => tcp.polled /\ "out" \in tcp.events)

\* Who waits for the end of a handshake or a shutdown waits for one.
SslAwaited ==
  asked = "ssl" /\ ~tcp.fault =>
    tcp.state \in Operating /\ (tcp.polled /\ ~dropped => tcp.events # {})

TypeRight ==
  /\ TcpTypeOK
  /\ call \in {"none", "connect", "endConnect"} /\ looping \in BOOLEAN
  /\ asked \in {"none", "connect", "ssl"} /\ pollerr \in BOOLEAN
  /\ reset \in BOOLEAN /\ dropped \in BOOLEAN

SocketInv ==
  /\ TypeRight /\ SslHasSession /\ ConnectedHasDescriptor /\ ReadIsPolled
  /\ WireRight /\ AttemptRight /\ CallRight /\ LoopRight /\ Quiet
  /\ ConnectAwaited /\ SslAwaited

-----------------------------------------------------------------------------
(* What the operations on the socket do.                                   *)

\* ImplClosed() closes and forgets the session, and keeps the rest.
LEMMA ClosedFields ==
  ASSUME NEW d \in TcpType
  PROVE  LET e == ImplClosed(d) IN
         /\ e \in TcpType
         /\ ~e.fd /\ ~e.ssl /\ e.state = "idle" /\ e.polled = (d.polled /\ ~d.fd)
         /\ e.ptr = d.ptr /\ e.result = d.result /\ e.messages = d.messages
         /\ e.enabled = d.enabled /\ e.dirty = d.dirty /\ e.events = d.events
         /\ e.reading = d.reading /\ e.writing = d.writing /\ e.fault = d.fault
  BY ZenonT(30) DEF TcpType, ImplClosed, SslStates, Operating, Handshakes

LEMMA DeviceClosedFields ==
  ASSUME NEW d \in TcpType
  PROVE  LET e == DeviceClosed(d) IN
         /\ e \in TcpType /\ ~e.enabled
         /\ ~d.enabled => e = d
         /\ d.enabled => /\ ~e.fd /\ ~e.ssl /\ e.state = "idle" /\ e.dirty
                         /\ ~e.reading /\ ~e.writing
         /\ e.ptr = d.ptr /\ e.result = d.result /\ e.messages = d.messages
         /\ e.fault = d.fault
  <1>1. CASE ~d.enabled
    BY <1>1 DEF DeviceClosed
  <1>2. CASE d.enabled
    <2> DEFINE c == ImplClosed(d)
    <2>1. /\ c \in TcpType /\ ~c.fd /\ ~c.ssl /\ c.state = "idle"
          /\ c.ptr = d.ptr /\ c.result = d.result /\ c.messages = d.messages
          /\ c.fault = d.fault
      BY ClosedFields
    <2>2. DeviceClosed(d) = [c EXCEPT !.reading = FALSE, !.writing = FALSE, !.enabled = FALSE,
                                      !.dirty = TRUE, !.events = {}]
      BY <1>2 DEF DeviceClosed
    <2> HIDE DEF c
    <2>3. DeviceClosed(d) \in TcpType
      BY <2>1, <2>2 DEF TcpType
    <2>4. LET e == DeviceClosed(d) IN
            /\ ~e.enabled /\ ~e.fd /\ ~e.ssl /\ e.state = "idle" /\ e.dirty
            /\ ~e.reading /\ ~e.writing
            /\ e.ptr = d.ptr /\ e.result = d.result /\ e.messages = d.messages
            /\ e.fault = d.fault
      BY <2>1, <2>2 DEF TcpType
    <2> QED
      BY <1>2, <2>3, <2>4
  <1> QED
    BY <1>1, <1>2 DEF TcpType

\* What tryConnect() leaves: an attempt, a connection or a result.
LEMMA TriedFields ==
  ASSUME NEW d \in TcpType, ~d.fd, d.state \in {"idle", "connecting"}, NEW e \in Tried(d)
  PROVE  /\ e \in TcpType
         /\ e.state \in {"idle", "connecting", "connected"}
         /\ e.fd => e.ptr <= Addresses
         /\ e.fd \/ e.result
         /\ e.state = "connected" => e.fd
         /\ e.enabled = d.enabled /\ e.dirty = d.dirty
         /\ e.reading = d.reading /\ e.writing = d.writing /\ e.fault = d.fault
  <1>0. Addresses \in Nat \ {0}
    BY AddressesAssumption
  <1> DEFINE Result ==
               /\ e \in TcpType
               /\ e.state \in {"idle", "connecting", "connected"}
               /\ e.fd => e.ptr <= Addresses
               /\ e.fd \/ e.result
               /\ e.state = "connected" => e.fd
               /\ e.enabled = d.enabled /\ e.dirty = d.dirty
               /\ e.reading = d.reading /\ e.writing = d.writing /\ e.fault = d.fault
  <1> DEFINE Good(p, a) ==
               /\ p \in TcpType /\ ~p.fd /\ p.state \in {"idle", "connecting"} /\ p.ptr = a
               /\ p.enabled = d.enabled /\ p.dirty = d.dirty
               /\ p.reading = d.reading /\ p.writing = d.writing /\ p.fault = d.fault
  <1> DEFINE opened == ImplClosed([d EXCEPT !.fd = TRUE])
  <1>2. /\ opened \in TcpType /\ ~opened.fd /\ opened.state \in {"idle", "connecting"}
        /\ opened.enabled = d.enabled /\ opened.dirty = d.dirty
        /\ opened.reading = d.reading /\ opened.writing = d.writing /\ opened.fault = d.fault
    BY DEF TcpType, ImplClosed
  <1> HIDE DEF opened
  <1>3. ASSUME NEW a \in 1 .. Addresses + 1, NEW silent \in BOOLEAN
        PROVE  Good(Passed(d, a, silent), a)
    <2> DEFINE b == IF a = d.ptr \/ silent THEN d ELSE opened
               p == [b EXCEPT !.ptr = a, !.messages = @ \/ (a > d.ptr /\ ~silent)]
               later == a > d.ptr /\ ~silent
    <2>1. /\ b \in TcpType /\ ~b.fd /\ b.state \in {"idle", "connecting"}
          /\ b.enabled = d.enabled /\ b.dirty = d.dirty
          /\ b.reading = d.reading /\ b.writing = d.writing /\ b.fault = d.fault
      BY <1>2
    <2>2. later \in BOOLEAN
      OBVIOUS
    <2>3. p = [b EXCEPT !.ptr = a, !.messages = @ \/ later]
      OBVIOUS
    <2>4. Passed(d, a, silent) = p
      BY DEF Passed, opened
    <2> HIDE DEF b, later, p
    <2>5. Good(p, a)
      BY <2>1, <2>2, <2>3 DEF TcpType
    <2> QED
      BY <2>4, <2>5
  <1>4. \A a \in d.ptr .. Addresses : a \in 1 .. Addresses + 1 /\ a <= Addresses
    BY <1>0 DEF TcpType
  <1>5. Addresses + 1 \in 1 .. Addresses + 1
    BY <1>0
  <1>6. ASSUME NEW a \in d.ptr .. Addresses, NEW silent \in BOOLEAN,
               e = InProgress(d, a, silent)
        PROVE  Result
    <2> DEFINE p == Passed(d, a, silent)
    <2>1. Good(p, a) /\ e = [p EXCEPT !.fd = TRUE] /\ a <= Addresses
      BY <1>3, <1>4, <1>6 DEF InProgress
    <2> HIDE DEF p
    <2> QED
      BY <2>1 DEF TcpType
  <1>7. ASSUME NEW a \in d.ptr .. Addresses, NEW silent \in BOOLEAN,
               e = AtOnce(d, a, silent)
        PROVE  Result
    <2> DEFINE p == Passed(d, a, silent)
    <2>1. /\ Good(p, a) /\ e = [[p EXCEPT !.fd = TRUE] EXCEPT !.state = "connected"]
          /\ a <= Addresses
      BY <1>3, <1>4, <1>7 DEF AtOnce, InProgress
    <2> HIDE DEF p
    <2> QED
      BY <2>1 DEF TcpType
  <1>8. ASSUME NEW silent \in BOOLEAN,
               e = NoneLeft(d, silent)
        PROVE  Result
    <2> DEFINE p == Passed(d, Addresses + 1, silent)
    <2>1. Good(p, Addresses + 1) /\ e = [p EXCEPT !.result = TRUE]
      BY <1>3, <1>5, <1>8 DEF NoneLeft
    <2> HIDE DEF p
    <2> QED
      BY <2>1 DEF TcpType
  <1> HIDE DEF Result
  <1>9. Result
    BY <1>6, <1>7, <1>8 DEF Tried
  <1> QED
    BY <1>9 DEF Result

\* What beginConnect() leaves.
LEMMA BegunFields ==
  ASSUME SocketInv, BeginAsserts(DeviceClosed(tcp)), NEW d \in Begun(DeviceClosed(tcp))
  PROVE  /\ d \in TcpType
         /\ d.state \in {"idle", "connecting", "connected"}
         /\ d.fd => d.ptr <= Addresses
         /\ d.fd \/ d.result
         /\ d.state = "connected" => d.fd
         /\ ~d.enabled /\ ~d.reading /\ ~d.writing
  <1> DEFINE c == DeviceClosed(tcp)
             b == [c EXCEPT !.messages = FALSE, !.ptr = 1, !.state = "connecting"]
  <1>1. tcp \in TcpType
    BY DEF SocketInv, TypeRight, TcpTypeOK
  <1>2. c \in TcpType /\ ~c.enabled /\ (~tcp.enabled => c = tcp)
        /\ (tcp.enabled => ~c.reading /\ ~c.writing)
    BY <1>1, DeviceClosedFields
  <1>3. ~c.fd /\ ~c.enabled /\ ~c.reading /\ ~c.writing
    BY <1>2 DEF BeginAsserts, SocketInv, Quiet
  <1>4. d \in Tried(b)
    BY DEF Begun
  <1> HIDE DEF c
  <1>5. 1 \in 1 .. Addresses + 1
    BY AddressesAssumption
  <1>6. b \in TcpType /\ ~b.fd /\ b.state = "connecting" /\ ~b.enabled /\ ~b.reading /\ ~b.writing
    BY <1>2, <1>3, <1>5 DEF TcpType
  <1> HIDE DEF b
  <1> QED
    BY <1>4, <1>6, TriedFields

\* A socket that is enabled.
LEMMA EnabledFields ==
  ASSUME NEW d \in TcpType
  PROVE  LET e == Enabled(d) IN
         /\ e \in TcpType /\ e.enabled /\ e.dirty
         /\ e.state = d.state /\ e.fd = d.fd /\ e.ssl = d.ssl /\ e.ptr = d.ptr
         /\ e.result = d.result /\ e.messages = d.messages /\ e.polled = d.polled
         /\ e.events = d.events /\ e.reading = d.reading /\ e.writing = d.writing
         /\ e.fault = d.fault
  BY DEF TcpType, Enabled

\* What the outcome of a TLS operation changes.
LEMMA CheckedFields ==
  ASSUME NEW d \in TcpType, NEW r
  PROVE  LET e == Checked(d, r) IN
         /\ e \in TcpType
         /\ e.ptr = d.ptr /\ e.result = d.result /\ e.messages = d.messages
         /\ e.enabled = d.enabled /\ e.dirty = d.dirty
         /\ e.reading = d.reading /\ e.writing = d.writing /\ e.fault = d.fault
         /\ r = "lost" => ~e.fd /\ ~e.ssl /\ e.state = "idle"
         /\ r # "lost" => /\ e.fd = d.fd /\ e.ssl = d.ssl /\ e.polled = d.polled
                          /\ e.state = IF r = "zero" THEN "connected" ELSE d.state
         /\ r \in {"read", "write"} /\ d.polled => e.events # {}
         /\ r \notin {"read", "write"} => e.events = d.events
         /\ "in" \in d.events /\ r # "write" => "in" \in e.events
  <1>1. CASE r = "read"
    BY <1>1 DEF Checked, TcpType
  <1>2. CASE r = "write"
    BY <1>2 DEF Checked, TcpType
  <1>3. CASE r = "zero"
    BY <1>3 DEF Checked, TcpType
  <1>4. CASE r = "lost"
    BY <1>4, ClosedFields DEF Checked
  <1>5. CASE r \notin {"read", "write", "zero", "lost"}
    BY <1>5 DEF Checked
  <1> QED
    BY <1>1, <1>2, <1>3, <1>4, <1>5

\* The same with the exception kept.
LEMMA KeptFields ==
  ASSUME NEW d \in TcpType, NEW r
  PROVE  LET e == Kept(d, r) IN
         /\ e \in TcpType
         /\ e.ptr = d.ptr /\ e.result = d.result /\ e.messages = d.messages
         /\ e.enabled = d.enabled /\ e.dirty = d.dirty
         /\ e.reading = d.reading /\ e.writing = d.writing
         /\ e.fault <=> d.fault \/ r \in {"lost", "error"}
         /\ r = "lost" => ~e.fd /\ ~e.ssl /\ e.state = "idle"
         /\ r # "lost" => /\ e.fd = d.fd /\ e.ssl = d.ssl /\ e.polled = d.polled
                          /\ e.state = IF r = "zero" THEN "connected" ELSE d.state
         /\ r \in {"read", "write"} /\ d.polled => e.events # {}
         /\ r \notin {"read", "write"} => e.events = d.events
         /\ "in" \in d.events /\ r # "write" => "in" \in e.events
  <1> DEFINE c == Checked(d, r)
             f == c.fault \/ r \in {"lost", "error"}
             k == [c EXCEPT !.fault = f]
  <1>1. Kept(d, r) = k /\ f \in BOOLEAN
    BY DEF Kept
  <1>2. /\ c \in TcpType
        /\ c.ptr = d.ptr /\ c.result = d.result /\ c.messages = d.messages
        /\ c.enabled = d.enabled /\ c.dirty = d.dirty
        /\ c.reading = d.reading /\ c.writing = d.writing /\ c.fault = d.fault
        /\ r = "lost" => ~c.fd /\ ~c.ssl /\ c.state = "idle"
        /\ r # "lost" => /\ c.fd = d.fd /\ c.ssl = d.ssl /\ c.polled = d.polled
                         /\ c.state = IF r = "zero" THEN "connected" ELSE d.state
        /\ r \in {"read", "write"} /\ d.polled => c.events # {}
        /\ r \notin {"read", "write"} => c.events = d.events
        /\ "in" \in d.events /\ r # "write" => "in" \in c.events
    BY CheckedFields
  <1> HIDE DEF c
  <1>3. f <=> d.fault \/ r \in {"lost", "error"}
    BY <1>2
  <1> HIDE DEF f
  <1>4. /\ k \in TcpType
        /\ k.fault = f /\ k.ptr = c.ptr /\ k.result = c.result /\ k.messages = c.messages
        /\ k.enabled = c.enabled /\ k.dirty = c.dirty /\ k.events = c.events
        /\ k.reading = c.reading /\ k.writing = c.writing
        /\ k.fd = c.fd /\ k.ssl = c.ssl /\ k.polled = c.polled /\ k.state = c.state
    BY <1>1, <1>2 DEF TcpType
  <1> HIDE DEF k
  <1> QED
    BY <1>1, <1>2, <1>3, <1>4

\* An operation that goes on is polled for.
LEMMA KeptPolled ==
  ASSUME NEW d \in TcpType, NEW r \in {"read", "write"}, d.polled
  PROVE  Kept(d, r).events # {}
  BY KeptFields, SMTT(30)

\* An operation that neither ends nor finds the connection lost.
LEMMA KeptState ==
  ASSUME NEW d \in TcpType, NEW r, r \notin {"lost", "zero"}
  PROVE  LET e == Kept(d, r) IN
         e.fd = d.fd /\ e.ssl = d.ssl /\ e.polled = d.polled /\ e.state = d.state
  BY KeptFields, SMTT(30)

\* The end of TLS takes the socket back to connected.
LEMMA KeptZero ==
  ASSUME NEW d \in TcpType
  PROVE  Kept(d, "zero").fd = d.fd /\ Kept(d, "zero").state = "connected"
  BY KeptFields, SMTT(30)

\* Every step keeps the invariant.
LEMMA NextSocket == SocketInv /\ [TcpNext]_tcpVars => SocketInv'
  <1> SUFFICES ASSUME SocketInv, [TcpNext]_tcpVars PROVE SocketInv'
    OBVIOUS
  <1>type. tcp \in TcpType
    BY DEF SocketInv, TypeRight, TcpTypeOK
  <1> USE DEF SocketInv, TypeRight, TcpTypeOK, SslHasSession, ConnectedHasDescriptor,
        ReadIsPolled, WireRight, AttemptRight, CallRight, LoopRight, Quiet, ConnectAwaited,
        SslAwaited, Fresh, IsConnected, SslStates, Operating, Handshakes
  <1>1. ASSUME BeginConnect PROVE SocketInv'
    <2>1. PICK d \in Begun(DeviceClosed(tcp)) :
            /\ tcp' = Enabled(d) /\ wire' = Attempt(d)
            /\ asked' = IF d.state = "connected" \/ d.result THEN "none" ELSE "connect"
      BY <1>1 DEF BeginConnect
    <2>2. /\ call = "none" /\ UNCHANGED <<call, looping, pollerr, reset, dropped>>
          /\ BeginAsserts(DeviceClosed(tcp))
      BY <1>1 DEF BeginConnect
    <2>3. /\ d \in TcpType
          /\ d.state \in {"idle", "connecting", "connected"}
          /\ d.fd => d.ptr <= Addresses
          /\ d.fd \/ d.result
          /\ d.state = "connected" => d.fd
          /\ ~d.reading /\ ~d.writing
      BY <2>2, BegunFields
    <2>4. /\ tcp' \in TcpType /\ tcp'.enabled /\ tcp'.dirty
          /\ tcp'.state = d.state /\ tcp'.fd = d.fd /\ tcp'.ptr = d.ptr
          /\ tcp'.result = d.result /\ ~tcp'.reading /\ ~tcp'.writing
      BY <2>1, <2>3, EnabledFields
    <2>5. wire' \in {"none", "progress"} /\ (wire' # "none" <=> d.fd /\ d.state # "connected")
      BY <2>1 DEF Attempt
    <2> QED
      BY <2>1, <2>2, <2>3, <2>4, <2>5
  <1>2. ASSUME ConnectNow PROVE SocketInv'
    <2>1. PICK d \in Begun(DeviceClosed(tcp)) : tcp' = d /\ wire' = Attempt(d)
      BY <1>2 DEF ConnectNow
    <2>2. /\ call = "none" /\ call' = "connect" /\ asked' = "none"
          /\ UNCHANGED <<looping, pollerr, reset, dropped>>
          /\ BeginAsserts(DeviceClosed(tcp))
      BY <1>2 DEF ConnectNow
    <2>3. /\ d \in TcpType
          /\ d.state \in {"idle", "connecting", "connected"}
          /\ d.fd => d.ptr <= Addresses
          /\ d.fd \/ d.result
          /\ d.state = "connected" => d.fd
          /\ ~d.reading /\ ~d.writing
      BY <2>2, BegunFields
    <2>4. wire' \in {"none", "progress"} /\ (wire' # "none" <=> d.fd /\ d.state # "connected")
      BY <2>1 DEF Attempt
    <2> QED
      BY <2>1, <2>2, <2>3, <2>4
  <1>3. ASSUME CallEndConnect PROVE SocketInv'
    <2>1. /\ tcp' = [tcp EXCEPT !.events = IF tcp.writing THEN @ ELSE @ \ {"out"}]
          /\ UNCHANGED <<wire, looping, pollerr, reset, dropped>>
          /\ call = "none" /\ call' = "endConnect" /\ asked' = "none" /\ tcp.enabled
          /\ tcp.state \in {"idle", "connecting", "connected"}
          /\ tcp.fd \/ tcp.result \/ tcp.messages
      BY <1>3 DEF CallEndConnect
    <2>2. /\ tcp' \in TcpType /\ tcp'.state = tcp.state /\ tcp'.fd = tcp.fd /\ tcp'.ptr = tcp.ptr
          /\ tcp'.result = tcp.result /\ tcp'.messages = tcp.messages
          /\ tcp'.enabled = tcp.enabled /\ tcp'.dirty = tcp.dirty /\ tcp'.polled = tcp.polled
          /\ tcp'.reading = tcp.reading /\ tcp'.writing = tcp.writing
          /\ "in" \in tcp.events => "in" \in tcp'.events
      BY <1>type, <2>1 DEF TcpType
    <2> QED
      BY <2>1, <2>2
  <1>4. ASSUME PendingError PROVE SocketInv'
    <2> DEFINE b == [tcp EXCEPT !.result = FALSE, !.messages = FALSE]
    <2>1. /\ call # "none" /\ ~looping /\ call' = "none" /\ looping' = FALSE
          /\ tcp' = (IF call = "connect" THEN b ELSE DeviceClosed(b))
          /\ wire' = (IF tcp'.fd THEN wire ELSE "none")
          /\ UNCHANGED <<asked, pollerr, reset, dropped>>
      BY <1>4 DEF PendingError, Fail
    <2>2. /\ b \in TcpType /\ b.state = tcp.state /\ b.fd = tcp.fd /\ b.ptr = tcp.ptr
          /\ b.ssl = tcp.ssl
          /\ b.enabled = tcp.enabled /\ b.dirty = tcp.dirty /\ b.polled = tcp.polled
          /\ b.reading = tcp.reading /\ b.writing = tcp.writing /\ b.events = tcp.events
      BY <1>type DEF TcpType
    <2> HIDE DEF b
    <2>3. CASE call = "connect"
      BY <2>1, <2>2, <2>3
    <2>4. CASE call = "endConnect"
      <3>1. /\ tcp' \in TcpType /\ ~tcp'.enabled /\ ~tcp'.fd /\ tcp'.state = "idle"
            /\ ~tcp'.reading /\ ~tcp'.writing
        BY <2>1, <2>2, <2>4, DeviceClosedFields
      <3> QED
        BY <2>1, <2>4, <3>1
    <2> QED
      BY <2>1, <2>3, <2>4
  <1>5. ASSUME EndConnect PROVE SocketInv'
    <2>1. /\ call # "none" /\ ~looping /\ ~tcp.result /\ ~tcp.messages
          /\ UNCHANGED <<asked, pollerr, reset, dropped>>
      BY <1>5 DEF EndConnect
    <2>2. CASE tcp.state = "connected"
      <3>1. /\ call' = "none" /\ looping' = FALSE /\ wire' = "none"
            /\ tcp' = IF call = "connect" THEN Enabled(tcp) ELSE tcp
        BY <1>5, <2>2 DEF EndConnect, Succeed
      <3>2. CASE call = "connect"
        <4>1. /\ tcp' \in TcpType /\ tcp'.enabled /\ tcp'.dirty
              /\ tcp'.state = tcp.state /\ tcp'.fd = tcp.fd /\ tcp'.ptr = tcp.ptr
              /\ tcp'.reading = tcp.reading /\ tcp'.writing = tcp.writing
          BY <1>type, <3>1, <3>2, EnabledFields
        <4> QED
          BY <2>1, <2>2, <3>1, <4>1
      <3>3. CASE call = "endConnect"
        BY <2>1, <2>2, <3>1, <3>3
      <3> QED
        BY <2>1, <3>2, <3>3
    <2>3. CASE tcp.state # "connected"
      BY <1>5, <2>1, <2>3 DEF EndConnect
    <2> QED
      BY <2>2, <2>3
  <1>6. ASSUME EndConnected PROVE SocketInv'
    <2> DEFINE b == [tcp EXCEPT !.state = "connected", !.messages = FALSE]
    <2>1. /\ looping /\ wire = "ok" /\ call' = "none" /\ looping' = FALSE /\ wire' = "none"
          /\ tcp' = (IF call = "connect" THEN Enabled(b) ELSE b)
          /\ UNCHANGED <<asked, pollerr, reset, dropped>>
      BY <1>6 DEF EndConnected, Succeed
    <2>2. /\ b \in TcpType /\ b.state = "connected" /\ b.fd = tcp.fd /\ b.ptr = tcp.ptr
          /\ b.enabled = tcp.enabled /\ b.dirty = tcp.dirty /\ b.polled = tcp.polled
          /\ b.reading = tcp.reading /\ b.writing = tcp.writing /\ b.events = tcp.events
      BY <1>type DEF TcpType
    <2> HIDE DEF b
    <2>3. /\ tcp' \in TcpType /\ tcp'.state = b.state /\ tcp'.fd = b.fd
          /\ tcp'.reading = b.reading /\ tcp'.writing = b.writing
      BY <2>1, <2>2, EnabledFields
    <2> QED
      BY <2>1, <2>2, <2>3
  <1>7. ASSUME NextAddress PROVE SocketInv'
    <2> DEFINE b == ImplClosed([tcp EXCEPT !.ptr = @ + 1])
    <2>1. /\ looping /\ call # "none" /\ Fresh(tcp) /\ wire \in {"refused", "progress"}
          /\ UNCHANGED <<asked, pollerr, reset, dropped>>
      BY <1>7 DEF NextAddress
    <2>2. tcp.ptr \in Nat /\ tcp.ptr + 1 \in 1 .. Addresses + 1
      BY <1>type, <2>1, AddressesAssumption DEF TcpType
    <2> DEFINE n == [tcp EXCEPT !.ptr = tcp.ptr + 1]
    <2>3. n \in TcpType /\ n.fd = tcp.fd /\ n.enabled = tcp.enabled
          /\ n.reading = tcp.reading /\ n.writing = tcp.writing
      BY <1>type, <2>2 DEF TcpType
    <2>4. b = ImplClosed(n)
      OBVIOUS
    <2> HIDE DEF b, n
    <2>5. /\ b \in TcpType /\ ~b.fd /\ b.state = "idle" /\ b.enabled = tcp.enabled
          /\ ~b.reading /\ ~b.writing
      BY <2>1, <2>3, <2>4, ClosedFields
    <2>6. ASSUME NEW c \in TcpType, ~c.fd, c.state = "idle", ~c.reading, ~c.writing, Fail(c)
          PROVE  SocketInv'
      <3>1. /\ call' = "none" /\ looping' = FALSE
            /\ tcp' = (IF call = "connect" THEN c ELSE DeviceClosed(c))
            /\ wire' = (IF tcp'.fd THEN wire ELSE "none")
        BY <2>6 DEF Fail
      <3>2. tcp' \in TcpType /\ ~tcp'.fd /\ tcp'.state = "idle" /\ ~tcp'.reading /\ ~tcp'.writing
        BY <2>6, <3>1, DeviceClosedFields
      <3> QED
        BY <2>1, <3>1, <3>2
    <2>7. CASE tcp.ptr = Addresses
      <3>1. Fail(b)
        BY <1>7, <2>7 DEF NextAddress, b
      <3> QED
        BY <2>5, <2>6, <3>1
    <2>8. CASE tcp.ptr # Addresses
      <3>1. PICK d \in Tried(b) :
              IF d.state = "connected" THEN Succeed([d EXCEPT !.messages = FALSE])
              ELSE IF d.result THEN Fail(ImplClosed([d EXCEPT !.result = FALSE, !.messages = FALSE]))
              ELSE tcp' = d /\ wire' = "progress" /\ UNCHANGED <<call, looping>>
        BY <1>7, <2>8 DEF NextAddress, b
      <3>2. /\ d \in TcpType
            /\ d.state \in {"idle", "connecting", "connected"}
            /\ d.fd => d.ptr <= Addresses
            /\ d.fd \/ d.result
            /\ d.state = "connected" => d.fd
            /\ d.enabled = tcp.enabled /\ ~d.reading /\ ~d.writing
        BY <2>5, TriedFields
      <3>3. CASE d.state = "connected"
        <4> DEFINE c == [d EXCEPT !.messages = FALSE]
        <4>1. /\ call' = "none" /\ looping' = FALSE /\ wire' = "none"
              /\ tcp' = IF call = "connect" THEN Enabled(c) ELSE c
          BY <3>1, <3>3 DEF Succeed
        <4>2. /\ c \in TcpType /\ c.state = "connected" /\ c.fd /\ ~c.reading /\ ~c.writing
          BY <3>2, <3>3 DEF TcpType
        <4> HIDE DEF c
        <4>3. /\ tcp' \in TcpType /\ tcp'.state = "connected" /\ tcp'.fd
              /\ ~tcp'.reading /\ ~tcp'.writing
          BY <4>1, <4>2, EnabledFields
        <4> QED
          BY <2>1, <4>1, <4>3
      <3>4. CASE d.state # "connected" /\ d.result
        <4> DEFINE o == [d EXCEPT !.result = FALSE, !.messages = FALSE]
                   c == ImplClosed(o)
        <4>1. Fail(c)
          BY <3>1, <3>4
        <4>2. o \in TcpType /\ ~o.reading /\ ~o.writing
          BY <3>2 DEF TcpType
        <4> HIDE DEF o
        <4>3. c \in TcpType /\ ~c.fd /\ c.state = "idle" /\ ~c.reading /\ ~c.writing
          BY <4>2, ClosedFields
        <4> HIDE DEF c
        <4> QED
          BY <2>6, <4>1, <4>3
      <3>5. CASE d.state # "connected" /\ ~d.result
        BY <2>1, <3>1, <3>2, <3>5
      <3> QED
        BY <3>3, <3>4, <3>5
    <2> QED
      BY <2>7, <2>8
  <1>8. ASSUME Answer PROVE SocketInv'
    BY <1>8 DEF Answer
  <1>9. ASSUME BuildPollList PROVE SocketInv'
    <2> DEFINE set == IF ~IsConnected(tcp) THEN {"out"}
                      ELSE (IF tcp.reading THEN {"in"} ELSE {}) \cup (IF tcp.writing THEN {"out"} ELSE {})
    <2>1. /\ call = "none" /\ tcp.enabled
          /\ tcp' = [Polled(tcp) EXCEPT !.dirty = FALSE]
          /\ dropped' = (dropped \/ tcp.state \in Operating \/ ~(tcp.events \subseteq tcp'.events))
          /\ UNCHANGED <<wire, call, looping, asked, pollerr, reset>>
      BY <1>9 DEF BuildPollList
    <2>2. tcp' = [tcp EXCEPT !.polled = TRUE, !.events = set, !.dirty = FALSE]
      BY <1>type, <2>1 DEF Polled, TcpType
    <2>3. set \in SUBSET {"in", "out"}
      OBVIOUS
    <2>4. /\ ~IsConnected(tcp) => "out" \in set
          /\ IsConnected(tcp) /\ tcp.reading => "in" \in set
      OBVIOUS
    <2> HIDE DEF set
    <2>5. /\ tcp' \in TcpType /\ tcp'.state = tcp.state /\ tcp'.fd = tcp.fd /\ tcp'.ssl = tcp.ssl
          /\ tcp'.ptr = tcp.ptr /\ tcp'.result = tcp.result /\ tcp'.messages = tcp.messages
          /\ tcp'.enabled = tcp.enabled /\ tcp'.polled /\ tcp'.events = set
          /\ tcp'.reading = tcp.reading /\ tcp'.writing = tcp.writing /\ tcp'.fault = tcp.fault
      BY <1>type, <2>2, <2>3 DEF TcpType
    <2>6. dropped' \in BOOLEAN /\ (tcp.state \in Operating => dropped')
      BY <2>1
    <2> QED
      BY <2>1, <2>4, <2>5, <2>6, ZenonT(30)
  <1>10. ASSUME PollConnected PROVE SocketInv'
    <2>1. /\ InPoll /\ ~IsConnected(tcp) /\ wire = "ok"
          /\ tcp' = [tcp EXCEPT !.state = "connected", !.messages = FALSE]
          /\ wire' = "none" /\ asked' = "none"
          /\ UNCHANGED <<call, looping, pollerr, reset, dropped>>
      BY <1>10 DEF PollConnected
    <2>2. /\ tcp' \in TcpType /\ tcp'.state = "connected" /\ tcp'.fd = tcp.fd
          /\ tcp'.enabled = tcp.enabled
          /\ tcp'.reading = tcp.reading /\ tcp'.writing = tcp.writing
      BY <1>type, <2>1 DEF TcpType
    <2> QED
      BY <2>1, <2>2 DEF InPoll
  <1>11. ASSUME NEW d \in TcpType, ~d.reading, ~d.writing, d.enabled = tcp.enabled,
                call = "none", tcp.enabled,
                d.state \in {"idle", "connecting", "connected"},
                d.fd => d.ptr <= Addresses, d.fd \/ d.result, d.state = "connected" => d.fd,
                wire' = Attempt(d), asked' \in {"none", "connect", "ssl"}, asked' # "ssl",
                UNCHANGED <<call, looping, pollerr, reset, dropped>>,
                tcp' \in {d, Polled(d)},
                pollerr /\ asked' = "connect" => tcp' = Polled(d) /\ d.fd /\ d.state # "connected"
         PROVE  SocketInv'
    <2>1. wire' \in {"none", "progress"} /\ (wire' # "none" <=> d.fd /\ d.state # "connected")
      BY <1>11 DEF Attempt
    <2> DEFINE set == IF ~IsConnected(d) THEN {"out"}
                      ELSE (IF d.reading THEN {"in"} ELSE {}) \cup (IF d.writing THEN {"out"} ELSE {})
               p == [d EXCEPT !.polled = TRUE, !.events = set]
    <2>2. Polled(d) = p
      BY DEF Polled
    <2>3. set \in SUBSET {"in", "out"} /\ (~IsConnected(d) => "out" \in set)
      OBVIOUS
    <2> HIDE DEF set
    <2>4. /\ p \in TcpType /\ p.state = d.state /\ p.fd = d.fd /\ p.ptr = d.ptr
          /\ p.result = d.result /\ p.enabled = d.enabled /\ p.polled /\ p.events = set
          /\ p.reading = d.reading /\ p.writing = d.writing
      BY <1>11, <2>3 DEF TcpType
    <2> HIDE DEF p
    <2>5. /\ tcp' \in TcpType /\ tcp'.state = d.state /\ tcp'.fd = d.fd /\ tcp'.ptr = d.ptr
          /\ tcp'.result = d.result /\ tcp'.enabled = d.enabled
          /\ ~tcp'.reading /\ ~tcp'.writing
          /\ tcp' = p => tcp'.polled /\ tcp'.events = set
      BY <1>11, <2>2, <2>4
    <2>6. looping' = FALSE
      BY <1>11
    <2> QED
      BY <1>11, <2>1, <2>2, <2>3, <2>5, <2>6
  \* The next address after one that was refused.
  <1>12. ASSUME InPoll, Fresh(tcp), wire = "refused", tcp.ptr # Addresses
         PROVE  \A d \in Tried([ImplClosed(tcp) EXCEPT !.ptr = @ + 1, !.messages = TRUE]) :
                  /\ d \in TcpType /\ ~d.reading /\ ~d.writing /\ d.enabled = tcp.enabled
                  /\ d.state \in {"idle", "connecting", "connected"}
                  /\ d.fd => d.ptr <= Addresses
                  /\ d.fd \/ d.result
                  /\ d.state = "connected" => d.fd
    <2> DEFINE b == ImplClosed(tcp)
               c == [b EXCEPT !.ptr = tcp.ptr + 1, !.messages = TRUE]
    <2>1. /\ b \in TcpType /\ ~b.fd /\ b.state = "idle" /\ b.ptr = tcp.ptr
          /\ b.enabled = tcp.enabled /\ ~b.reading /\ ~b.writing
      BY <1>type, <1>12, ClosedFields
    <2>2. tcp.ptr + 1 \in 1 .. Addresses + 1
      BY <1>type, <1>12, AddressesAssumption DEF TcpType
    <2>3. [ImplClosed(tcp) EXCEPT !.ptr = @ + 1, !.messages = TRUE] = c
      BY <2>1
    <2> HIDE DEF b
    <2>4. /\ c \in TcpType /\ ~c.fd /\ c.state = "idle" /\ c.enabled = tcp.enabled
          /\ ~c.reading /\ ~c.writing
      BY <2>1, <2>2 DEF TcpType
    <2> HIDE DEF c
    <2> QED
      BY <2>3, <2>4, TriedFields, ZenonT(30)
  <1>13. ASSUME PollError PROVE SocketInv'
    <2>1. /\ InPoll /\ ~IsConnected(tcp) /\ wire = "refused" /\ pollerr
          /\ UNCHANGED <<call, looping, pollerr, reset, dropped>>
      BY <1>13 DEF PollError
    <2>2. CASE tcp.ptr = Addresses
      <3>1. tcp' = [tcp EXCEPT !.messages = TRUE] /\ asked' = "none" /\ wire' = "none"
        BY <1>13, <2>2 DEF PollError
      <3>2. /\ tcp' \in TcpType /\ tcp'.state = tcp.state /\ tcp'.fd = tcp.fd /\ tcp'.messages
            /\ tcp'.enabled = tcp.enabled
            /\ tcp'.reading = tcp.reading /\ tcp'.writing = tcp.writing
        BY <1>type, <3>1 DEF TcpType
      <3> QED
        BY <2>1, <3>1, <3>2 DEF InPoll
    <2>3. CASE tcp.ptr # Addresses
      <3>1. PICK d \in Tried([ImplClosed(tcp) EXCEPT !.ptr = @ + 1, !.messages = TRUE]) :
              LET over == d.state = "connected" \/ d.result
              IN /\ wire' = Attempt(d)
                 /\ asked' = IF over THEN "none" ELSE asked
                 /\ tcp' = IF over THEN d ELSE Polled(d)
        BY <1>13, <2>3 DEF PollError
      <3>2. /\ d \in TcpType /\ ~d.reading /\ ~d.writing /\ d.enabled = tcp.enabled
            /\ d.state \in {"idle", "connecting", "connected"}
            /\ d.fd => d.ptr <= Addresses
            /\ d.fd \/ d.result
            /\ d.state = "connected" => d.fd
        BY <1>12, <2>1, <2>3
      <3>3. call = "none" /\ tcp.enabled
        BY <2>1 DEF InPoll
      <3>4. asked # "ssl"
        BY <2>1
      <3> QED
        BY <1>11, <2>1, <3>1, <3>2, <3>3, <3>4
    <2> QED
      BY <2>2, <2>3
  <1>14. ASSUME PollRefused PROVE SocketInv'
    <2>1. /\ InPoll /\ ~IsConnected(tcp) /\ wire = "refused" /\ ~pollerr
          /\ UNCHANGED <<call, looping, pollerr, reset, dropped>>
      BY <1>14 DEF PollRefused
    <2>2. CASE tcp.ptr = Addresses
      <3>1. /\ tcp' = [tcp EXCEPT !.ptr = tcp.ptr + 1, !.result = TRUE, !.messages = FALSE]
            /\ asked' = "none" /\ wire' = "none"
        BY <1>14, <2>2 DEF PollRefused
      <3>2. tcp.ptr + 1 \in 1 .. Addresses + 1
        BY <2>2, AddressesAssumption
      <3>3. /\ tcp' \in TcpType /\ tcp'.state = tcp.state /\ tcp'.fd = tcp.fd /\ tcp'.result
            /\ tcp'.enabled = tcp.enabled
            /\ tcp'.reading = tcp.reading /\ tcp'.writing = tcp.writing
        BY <1>type, <3>1, <3>2 DEF TcpType
      <3> QED
        BY <2>1, <3>1, <3>3 DEF InPoll
    <2>3. CASE tcp.ptr # Addresses
      <3>1. PICK d \in Tried([ImplClosed(tcp) EXCEPT !.ptr = @ + 1, !.messages = TRUE]) :
              /\ tcp' = d /\ wire' = Attempt(d)
              /\ asked' = IF d.state = "connected" THEN "none" ELSE asked
        BY <1>14, <2>3 DEF PollRefused
      <3>2. /\ d \in TcpType /\ ~d.reading /\ ~d.writing /\ d.enabled = tcp.enabled
            /\ d.state \in {"idle", "connecting", "connected"}
            /\ d.fd => d.ptr <= Addresses
            /\ d.fd \/ d.result
            /\ d.state = "connected" => d.fd
        BY <1>12, <2>1, <2>3
      <3>3. call = "none" /\ tcp.enabled
        BY <2>1 DEF InPoll
      <3>4. asked # "ssl"
        BY <2>1
      <3> QED
        BY <1>11, <2>1, <3>1, <3>2, <3>3, <3>4
    <2> QED
      BY <2>2, <2>3
  \* The device is closed and nobody waits for it.
  <1>15. ASSUME tcp' = DeviceClosed(tcp), tcp.enabled, call = "none", wire' = "none",
                asked' = "none", UNCHANGED <<call, looping, pollerr, reset, dropped>>
         PROVE  SocketInv'
    <2>1. /\ tcp' \in TcpType /\ ~tcp'.enabled /\ ~tcp'.fd /\ tcp'.state = "idle"
          /\ ~tcp'.reading /\ ~tcp'.writing
      BY <1>type, <1>15, DeviceClosedFields
    <2> QED
      BY <1>15, <2>1
  <1>16. ASSUME PollLost PROVE SocketInv'
    BY <1>15, <1>16 DEF PollLost, InPoll
  <1>17. ASSUME CloseSocket PROVE SocketInv'
    BY <1>15, <1>17 DEF CloseSocket
  <1>18. ASSUME ReadBegins PROVE SocketInv'
    <2> DEFINE set == IF tcp.polled THEN tcp.events \cup {"in"} ELSE tcp.events
    <2>1. /\ call = "none" /\ tcp.enabled /\ tcp.fd /\ tcp.state \in {"connected", "sslconnected"}
          /\ tcp' = [tcp EXCEPT !.reading = TRUE, !.events = set]
          /\ UNCHANGED <<wire, call, looping, asked, pollerr, reset, dropped>>
      BY <1>18 DEF ReadBegins, Transfers
    <2>2. set \in SUBSET {"in", "out"} /\ (tcp.polled => "in" \in set)
          /\ (tcp.events # {} => set # {})
      BY <1>type DEF TcpType
    <2> HIDE DEF set
    <2>3. /\ tcp' \in TcpType /\ tcp'.state = tcp.state /\ tcp'.fd = tcp.fd /\ tcp'.ssl = tcp.ssl
          /\ tcp'.enabled = tcp.enabled /\ tcp'.dirty = tcp.dirty /\ tcp'.polled = tcp.polled
          /\ tcp'.fault = tcp.fault /\ tcp'.events = set
      BY <1>type, <2>1, <2>2 DEF TcpType
    <2> QED
      BY <2>1, <2>2, <2>3
  <1>19. ASSUME ReadEnds PROVE SocketInv'
    <2> DEFINE d == [tcp EXCEPT !.reading = FALSE, !.events = @ \ {"in"}, !.fault = FALSE]
    <2>1. PICK r \in {"done", "zero", "lost"} :
            /\ tcp' = Checked(d, r)
            /\ r # "done" => tcp.state = "sslconnected" /\ ~tcp.fault
      BY <1>19 DEF ReadEnds
    <2>2. /\ call = "none" /\ tcp.reading
          /\ asked' = (IF tcp.fault THEN "none" ELSE asked)
          /\ dropped' = (dropped \/ tcp.state \in Operating)
          /\ UNCHANGED <<wire, call, looping, pollerr, reset>>
      BY <1>19 DEF ReadEnds
    <2>3. /\ d \in TcpType /\ d.state = tcp.state /\ d.fd = tcp.fd /\ d.ssl = tcp.ssl
          /\ d.enabled = tcp.enabled /\ d.dirty = tcp.dirty /\ d.polled = tcp.polled
          /\ ~d.reading /\ d.writing = tcp.writing
          /\ d.events \in SUBSET {"in", "out"}
      BY <1>type DEF TcpType
    <2> HIDE DEF d
    <2>4. /\ tcp' \in TcpType /\ tcp'.enabled = d.enabled /\ tcp'.dirty = d.dirty
          /\ tcp'.reading = d.reading /\ tcp'.writing = d.writing
          /\ r = "lost" => ~tcp'.fd /\ ~tcp'.ssl /\ tcp'.state = "idle"
          /\ r # "lost" => /\ tcp'.fd = d.fd /\ tcp'.ssl = d.ssl /\ tcp'.polled = d.polled
                           /\ tcp'.state = IF r = "zero" THEN "connected" ELSE d.state
      BY <2>1, <2>3, CheckedFields
    <2>5. dropped' \in BOOLEAN /\ (tcp.state \in Operating => dropped')
      BY <2>2
    <2> QED
      BY <2>1, <2>2, <2>3, <2>4, <2>5
  <1>20. ASSUME WriteBegins PROVE SocketInv'
    <2>1. PICK r \in Results \cup {"out"} :
            /\ tcp.state # "sslconnected" => r \in {"done", "out", "error"}
            /\ tcp.state = "sslconnected" => r # "out"
            /\ tcp' = [(IF r = "out" THEN [tcp EXCEPT !.events = IF tcp.polled THEN @ \cup {"out"} ELSE @]
                        ELSE Kept(tcp, r)) EXCEPT !.writing = TRUE]
            /\ dropped' = (dropped \/ (r = "write" /\ tcp.reading))
      BY <1>20 DEF WriteBegins, Results
    <2>2. /\ call = "none" /\ tcp.enabled /\ tcp.fd /\ tcp.state \in {"connected", "sslconnected"}
          /\ UNCHANGED <<wire, call, looping, asked, pollerr, reset>>
      BY <1>20 DEF WriteBegins, Transfers
    <2> DEFINE b == IF r = "out" THEN [tcp EXCEPT !.events = IF tcp.polled THEN @ \cup {"out"} ELSE @]
                    ELSE Kept(tcp, r)
    <2>3. tcp' = [b EXCEPT !.writing = TRUE]
      BY <2>1
    <2>4. /\ b \in TcpType /\ b.enabled = tcp.enabled /\ b.dirty = tcp.dirty
          /\ b.reading = tcp.reading
          /\ r = "lost" => ~b.fd /\ ~b.ssl /\ b.state = "idle" /\ b.fault
          /\ r # "lost" => /\ b.fd = tcp.fd /\ b.ssl = tcp.ssl /\ b.polled = tcp.polled
                           /\ b.state = IF r = "zero" THEN "connected" ELSE tcp.state
          /\ "in" \in tcp.events /\ r # "write" => "in" \in b.events
          /\ tcp.fault => b.fault
      <3>1. CASE r = "out"
        BY <1>type, <3>1 DEF TcpType
      <3>2. CASE r # "out"
        <4>1. b = Kept(tcp, r)
          BY <3>2
        <4> HIDE DEF b
        <4> QED
          BY <1>type, <3>2, <4>1, KeptFields
      <3> QED
        BY <3>1, <3>2
    <2> HIDE DEF b
    <2>5. /\ tcp' \in TcpType /\ tcp'.enabled = b.enabled /\ tcp'.dirty = b.dirty
          /\ tcp'.reading = b.reading /\ tcp'.writing /\ tcp'.fd = b.fd /\ tcp'.ssl = b.ssl
          /\ tcp'.polled = b.polled /\ tcp'.state = b.state /\ tcp'.events = b.events
          /\ tcp'.fault = b.fault
      BY <2>3, <2>4 DEF TcpType
    <2>6. dropped' \in BOOLEAN /\ (r = "write" /\ tcp.reading => dropped')
      BY <2>1
    <2> QED
      BY <2>1, <2>2, <2>4, <2>5, <2>6
  <1>21. ASSUME WriteEnds PROVE SocketInv'
    <2> DEFINE d == [tcp EXCEPT !.writing = FALSE, !.events = @ \ {"out"}, !.fault = FALSE]
    <2>1. PICK r \in {"done", "zero", "lost"} :
            /\ tcp' = Checked(d, r)
            /\ r # "done" => tcp.state = "sslconnected" /\ ~tcp.fault
      BY <1>21 DEF WriteEnds
    <2>2. /\ call = "none" /\ tcp.writing
          /\ asked' = (IF tcp.fault THEN "none" ELSE asked)
          /\ dropped' = (dropped \/ tcp.state \in Operating)
          /\ UNCHANGED <<wire, call, looping, pollerr, reset>>
      BY <1>21 DEF WriteEnds
    <2>3. /\ d \in TcpType /\ d.state = tcp.state /\ d.fd = tcp.fd /\ d.ssl = tcp.ssl
          /\ d.enabled = tcp.enabled /\ d.dirty = tcp.dirty /\ d.polled = tcp.polled
          /\ ~d.writing /\ d.reading = tcp.reading
          /\ d.events \in SUBSET {"in", "out"}
          /\ "in" \in tcp.events => "in" \in d.events
      BY <1>type DEF TcpType
    <2> HIDE DEF d
    <2>4. /\ tcp' \in TcpType /\ tcp'.enabled = d.enabled /\ tcp'.dirty = d.dirty
          /\ tcp'.reading = d.reading /\ tcp'.writing = d.writing
          /\ r = "lost" => ~tcp'.fd /\ ~tcp'.ssl /\ tcp'.state = "idle"
          /\ r # "lost" => /\ tcp'.fd = d.fd /\ tcp'.ssl = d.ssl /\ tcp'.polled = d.polled
                           /\ tcp'.state = IF r = "zero" THEN "connected" ELSE d.state
          /\ "in" \in d.events => "in" \in tcp'.events
      BY <2>1, <2>3, CheckedFields
    <2>5. dropped' \in BOOLEAN /\ (tcp.state \in Operating => dropped')
      BY <2>2
    <2> QED
      BY <2>1, <2>2, <2>3, <2>4, <2>5
  <1>22. ASSUME NEW h \in Handshakes, BeginSsl(h) PROVE SocketInv'
    <2> DEFINE d == [tcp EXCEPT !.state = h, !.ssl = TRUE]
    <2>1. PICK r \in Results :
            /\ tcp' = IF r = "done" THEN [d EXCEPT !.state = "sslconnected"] ELSE Kept(d, r)
            /\ asked' = IF Over(r) THEN "none" ELSE "ssl"
      BY <1>22 DEF BeginSsl
    <2>2. /\ call = "none" /\ tcp.enabled /\ tcp.fd /\ tcp.state \in {"connected", h}
          /\ ~tcp.reading /\ ~tcp.writing
          /\ UNCHANGED <<wire, call, looping, pollerr, reset, dropped>>
      BY <1>22 DEF BeginSsl
    <2>3. /\ d \in TcpType /\ d.state = h /\ d.ssl /\ d.fd
          /\ d.enabled = tcp.enabled /\ d.dirty = tcp.dirty /\ d.polled = tcp.polled
          /\ ~d.reading /\ ~d.writing
      BY <1>22, <1>type, <2>2 DEF TcpType
    <2> HIDE DEF d
    <2>4. CASE r = "done"
      <3>1. /\ tcp' \in TcpType /\ tcp'.state = "sslconnected" /\ tcp'.fd /\ tcp'.ssl
            /\ tcp'.enabled = tcp.enabled /\ ~tcp'.reading /\ ~tcp'.writing
        BY <2>1, <2>3, <2>4 DEF TcpType
      <3>2. asked' = "none"
        BY <2>1, <2>4 DEF Over
      <3> QED
        BY <2>2, <3>1, <3>2
    <2>5. CASE r = "zero"
      <3>1. tcp' = Kept(d, r) /\ asked' = "none"
        BY <2>1, <2>5 DEF Over
      <3>2. /\ tcp' \in TcpType /\ tcp'.enabled = d.enabled /\ tcp'.reading = d.reading
            /\ tcp'.writing = d.writing
        BY <2>3, <3>1, KeptFields
      <3>3. tcp'.fd = d.fd /\ tcp'.state = "connected"
        BY <2>3, <2>5, <3>1, KeptZero
      <3> QED
        BY <2>2, <2>3, <3>1, <3>2, <3>3
    <2>6. CASE r \notin {"done", "zero"}
      <3>1. /\ tcp' \in TcpType /\ tcp'.enabled = d.enabled /\ tcp'.dirty = d.dirty
            /\ tcp'.reading = d.reading /\ tcp'.writing = d.writing
            /\ r \in {"lost", "error"} => tcp'.fault
            /\ r = "lost" => ~tcp'.fd /\ ~tcp'.ssl /\ tcp'.state = "idle"
            /\ r # "lost" => /\ tcp'.fd = d.fd /\ tcp'.ssl = d.ssl /\ tcp'.polled = d.polled
                             /\ tcp'.state = d.state
            /\ r \in {"read", "write"} /\ d.polled => tcp'.events # {}
        <4>1. tcp' = Kept(d, r) /\ r # "zero"
          BY <2>1, <2>6
        <4>2. /\ tcp' \in TcpType /\ tcp'.enabled = d.enabled /\ tcp'.dirty = d.dirty
              /\ tcp'.reading = d.reading /\ tcp'.writing = d.writing
          BY <2>3, <4>1, KeptFields
        <4>3. r \in {"lost", "error"} => tcp'.fault
          BY <2>3, <4>1, KeptFields
        <4>4. r = "lost" => ~tcp'.fd /\ ~tcp'.ssl /\ tcp'.state = "idle"
          BY <2>3, <4>1, KeptFields
        <4>5. r # "lost" => /\ tcp'.fd = d.fd /\ tcp'.ssl = d.ssl /\ tcp'.polled = d.polled
                          /\ tcp'.state = d.state
          BY <2>3, <4>1, KeptState
        <4>6. r \in {"read", "write"} /\ d.polled => tcp'.events # {}
          BY <2>3, <4>1, KeptPolled
        <4> QED
          BY <4>2, <4>3, <4>4, <4>5, <4>6
      <3>2. r \in {"read", "write", "lost", "error"}
        BY <2>6 DEF Results
      <3>3. asked' = "ssl"
        BY <2>1, <2>6 DEF Over
      <3> QED
        BY <2>2, <2>3, <2>6, <3>1, <3>2, <3>3
    <2> QED
      BY <2>4, <2>5, <2>6
  <1>23. ASSUME NEW h \in Handshakes, EndSsl(h) PROVE SocketInv'
    <2> DEFINE d == [tcp EXCEPT !.events = IF tcp.writing THEN @ ELSE @ \ {"out"}]
    <2>1. /\ call = "none" /\ tcp.enabled
          /\ tcp.state \in {h, "sslconnected"} \/ (tcp.state = "idle" /\ ~tcp.fd)
          /\ asked' = "none"
          /\ UNCHANGED <<wire, call, looping, pollerr, reset, dropped>>
      BY <1>23 DEF EndSsl
    <2>2. \/ tcp' = [d EXCEPT !.fault = FALSE]
          \/ tcp' = d
          \/ tcp.state # "idle" /\ \E to \in {"sslconnected", "connected"} :
                                     tcp' = [d EXCEPT !.state = to]
          \/ tcp.state = h /\ \E r \in {"lost", "error"} : tcp' = Checked(d, r)
      BY <1>23 DEF EndSsl
    <2>3. /\ d \in TcpType /\ d.state = tcp.state /\ d.fd = tcp.fd /\ d.ssl = tcp.ssl
          /\ d.enabled = tcp.enabled /\ d.dirty = tcp.dirty /\ d.polled = tcp.polled
          /\ d.reading = tcp.reading /\ d.writing = tcp.writing
          /\ d.messages = tcp.messages /\ d.result = tcp.result /\ d.ptr = tcp.ptr
          /\ "in" \in tcp.events => "in" \in d.events
      BY <1>type DEF TcpType
    <2> HIDE DEF d
    <2>4. CASE tcp' = [d EXCEPT !.fault = FALSE]
      <3>1. /\ tcp' \in TcpType /\ tcp'.state = d.state /\ tcp'.fd = d.fd /\ tcp'.ssl = d.ssl
            /\ tcp'.enabled = d.enabled /\ tcp'.dirty = d.dirty /\ tcp'.polled = d.polled
            /\ tcp'.reading = d.reading /\ tcp'.writing = d.writing /\ tcp'.events = d.events
            /\ tcp'.messages = d.messages /\ tcp'.result = d.result /\ tcp'.ptr = d.ptr
        BY <2>3, <2>4 DEF TcpType
      <3> QED
        BY <2>1, <2>3, <3>1
    <2>5. CASE tcp' = d
      BY <2>1, <2>3, <2>5
    <2>6. ASSUME NEW to \in {"sslconnected", "connected"}, tcp.state # "idle",
                 tcp' = [d EXCEPT !.state = to]
          PROVE  SocketInv'
      <3>1. /\ tcp' \in TcpType /\ tcp'.state = to /\ tcp'.fd = d.fd /\ tcp'.ssl = d.ssl
            /\ tcp'.enabled = d.enabled /\ tcp'.dirty = d.dirty /\ tcp'.polled = d.polled
            /\ tcp'.reading = d.reading /\ tcp'.writing = d.writing /\ tcp'.events = d.events
        BY <2>3, <2>6 DEF TcpType
      <3> QED
        BY <2>1, <2>3, <2>6, <3>1
    <2>7. ASSUME NEW r \in {"lost", "error"}, tcp.state = h, tcp' = Checked(d, r)
          PROVE  SocketInv'
      <3>1. /\ tcp' \in TcpType /\ tcp'.enabled = d.enabled /\ tcp'.dirty = d.dirty
            /\ tcp'.reading = d.reading /\ tcp'.writing = d.writing
            /\ r = "lost" => ~tcp'.fd /\ ~tcp'.ssl /\ tcp'.state = "idle"
            /\ r # "lost" => /\ tcp'.fd = d.fd /\ tcp'.ssl = d.ssl /\ tcp'.polled = d.polled
                             /\ tcp'.state = d.state
        BY <2>3, <2>7, CheckedFields
      <3> QED
        BY <2>1, <2>3, <2>7, <3>1
    <2> QED
      BY <2>2, <2>4, <2>5, <2>6, <2>7
  <1>24. ASSUME PollHandshake PROVE SocketInv'
    <2>1. PICK r \in Results, closes \in BOOLEAN :
            LET fails == r \in {"lost", "error"}
                d == Checked(tcp, r)
            IN /\ closes => fails
               /\ tcp' = IF r = "done" THEN [d EXCEPT !.state = "sslconnected"]
                         ELSE IF fails THEN [(IF closes THEN DeviceClosed(d) ELSE d) EXCEPT !.state = "connected"]
                         ELSE d
               /\ asked' = IF fails \/ Over(r) THEN "none" ELSE asked
      BY <1>24 DEF PollHandshake
    <2>2. /\ InPoll /\ tcp.state \in Handshakes
          /\ reset' = (reset \/ (tcp'.state = "connected" /\ ~tcp'.fd))
          /\ UNCHANGED <<wire, call, looping, pollerr, dropped>>
      BY <1>24 DEF PollHandshake
    <2> DEFINE d == Checked(tcp, r)
               b == IF closes THEN DeviceClosed(d) ELSE d
    <2>3. /\ d \in TcpType /\ d.enabled = tcp.enabled /\ d.dirty = tcp.dirty
          /\ d.reading = tcp.reading /\ d.writing = tcp.writing
          /\ r # "lost" => /\ d.fd = tcp.fd /\ d.ssl = tcp.ssl /\ d.polled = tcp.polled
                           /\ d.state = IF r = "zero" THEN "connected" ELSE tcp.state
      BY <1>type, CheckedFields
    <2>4. r \in {"read", "write"} /\ tcp.polled => d.events # {}
      BY <1>type, CheckedFields
    <2>5. /\ r = "done" => tcp' = [d EXCEPT !.state = "sslconnected"]
          /\ r \in {"lost", "error"} => tcp' = [b EXCEPT !.state = "connected"]
          /\ r \in {"read", "write", "zero"} => tcp' = d
          /\ asked' = IF r \in {"lost", "error", "done", "zero"} THEN "none" ELSE asked
      BY <2>1 DEF Over
    <2>6. r \in {"done", "read", "write", "zero", "lost", "error"}
      BY DEF Results
    <2> HIDE DEF d
    <2>7. call = "none" /\ call' = "none" /\ looping' = FALSE /\ wire' = "none"
          /\ reset' \in BOOLEAN /\ (tcp'.state = "connected" /\ ~tcp'.fd => reset')
          /\ (reset => reset') /\ tcp.enabled
      BY <2>2 DEF InPoll
    <2>8. CASE r = "done"
      <3>1. /\ tcp' \in TcpType /\ tcp'.state = "sslconnected" /\ tcp'.fd = d.fd /\ tcp'.ssl = d.ssl
            /\ tcp'.enabled = d.enabled /\ tcp'.reading = d.reading /\ tcp'.writing = d.writing
        BY <2>3, <2>5, <2>8 DEF TcpType
      <3> QED
        BY <2>2, <2>3, <2>5, <2>7, <2>8, <3>1
    <2>9. CASE r \in {"lost", "error"}
      <3>1. b \in TcpType /\ ~b.reading /\ ~b.writing
        BY <2>2, <2>3, DeviceClosedFields
      <3> HIDE DEF b
      <3>2. tcp' \in TcpType /\ tcp'.state = "connected" /\ ~tcp'.reading /\ ~tcp'.writing
        BY <2>5, <2>9, <3>1 DEF TcpType
      <3> QED
        BY <2>2, <2>5, <2>7, <2>9, <3>2
    <2>10. CASE r \in {"read", "write"}
      BY <2>2, <2>3, <2>4, <2>5, <2>7, <2>10
    <2>11. CASE r = "zero"
      <3>1. /\ tcp' \in TcpType /\ tcp'.state = "connected" /\ tcp'.fd = tcp.fd /\ asked' = "none"
            /\ tcp'.enabled = tcp.enabled /\ tcp'.reading = tcp.reading /\ tcp'.writing = tcp.writing
        BY <2>3, <2>5, <2>11
      <3> QED
        BY <2>2, <2>7, <3>1
    <2> QED
      BY <2>6, <2>8, <2>9, <2>10, <2>11
  \* beginSslShutdown() and its continuation.
  <1>25. ASSUME NEW r \in Results, tcp.state \in {"sslconnected", "sslshuttingdown"},
                call = "none", tcp.enabled, tcp' = Shutdown(tcp, r),
                asked' \in {"none", "ssl", asked}, Over(r) => asked' = "none",
                dropped' = (dropped \/ (r = "write" /\ tcp.reading)),
                UNCHANGED <<wire, call, looping, pollerr, reset>>
         PROVE  SocketInv'
    <2> DEFINE d == [tcp EXCEPT !.state = "sslshuttingdown"]
    <2>1. dropped' \in BOOLEAN /\ (dropped => dropped') /\ (r = "write" /\ tcp.reading => dropped')
      BY <1>25
    <2>2. looping' = FALSE /\ wire' = "none" /\ tcp.fd /\ tcp.ssl
      BY <1>25
    <2>3. asked # "connect" \/ ~pollerr
      BY <2>2, <1>25
    <2>4. CASE r = "done"
      <3>1. tcp' = [tcp EXCEPT !.state = "connected"]
        BY <1>25, <2>4 DEF Shutdown
      <3>2. /\ tcp' \in TcpType /\ tcp'.state = "connected" /\ tcp'.fd = tcp.fd
            /\ tcp'.enabled = tcp.enabled /\ tcp'.dirty = tcp.dirty /\ tcp'.polled = tcp.polled
            /\ tcp'.reading = tcp.reading /\ tcp'.writing = tcp.writing
            /\ tcp'.events = tcp.events
        BY <1>type, <3>1 DEF TcpType
      <3>3. asked' = "none"
        BY <1>25, <2>4 DEF Over
      <3> QED
        BY <1>25, <2>1, <2>2, <3>2, <3>3
    <2>5. CASE r # "done"
      <3>1. tcp' = Kept(d, r)
        BY <1>25, <2>5 DEF Shutdown
      <3>2. /\ d \in TcpType /\ d.state = "sslshuttingdown" /\ d.fd = tcp.fd /\ d.ssl = tcp.ssl
            /\ d.enabled = tcp.enabled /\ d.dirty = tcp.dirty /\ d.polled = tcp.polled
            /\ d.reading = tcp.reading /\ d.writing = tcp.writing /\ d.events = tcp.events
        BY <1>type DEF TcpType
      <3>3. /\ r \in {"read", "write", "zero", "lost", "error"}
            /\ r = "zero" => asked' = "none"
        BY <1>25, <2>5 DEF Results, Over
      <3> HIDE DEF d
      <3>4. /\ tcp' \in TcpType /\ tcp'.enabled = d.enabled /\ tcp'.dirty = d.dirty
            /\ tcp'.reading = d.reading /\ tcp'.writing = d.writing
        BY <3>1, <3>2, KeptFields
      <3>5. r \in {"lost", "error"} => tcp'.fault
        BY <3>1, <3>2, KeptFields
      <3>6. r = "lost" => ~tcp'.fd /\ ~tcp'.ssl /\ tcp'.state = "idle"
        BY <3>1, <3>2, KeptFields
      <3>7. r # "lost" => /\ tcp'.fd = d.fd /\ tcp'.ssl = d.ssl /\ tcp'.polled = d.polled
                          /\ tcp'.state = IF r = "zero" THEN "connected" ELSE d.state
        BY <3>1, <3>2, KeptFields
      <3>8. r \in {"read", "write"} /\ d.polled => tcp'.events # {}
        BY <3>1, <3>2, KeptPolled
      <3>9. "in" \in d.events /\ r # "write" => "in" \in tcp'.events
        BY <3>1, <3>2, KeptFields
      <3> QED
        BY <1>25, <2>1, <2>2, <2>3, <3>2, <3>3, <3>4, <3>5, <3>6, <3>7, <3>8, <3>9, ZenonT(30)
    <2> QED
      BY <2>4, <2>5
  <1>26. ASSUME BeginSslShutdown PROVE SocketInv'
    <2>1. PICK r \in Results :
            /\ tcp' = Shutdown(tcp, r)
            /\ asked' = IF Over(r) THEN "none" ELSE "ssl"
            /\ dropped' = (dropped \/ (r = "write" /\ tcp.reading))
      BY <1>26 DEF BeginSslShutdown
    <2> QED
      BY <1>25, <1>26, <2>1 DEF BeginSslShutdown
  <1>27. ASSUME PollShutdown PROVE SocketInv'
    <2>1. PICK r \in Results :
            /\ tcp' = Shutdown(tcp, r)
            /\ asked' = IF Over(r) THEN "none" ELSE asked
            /\ dropped' = (dropped \/ (r = "write" /\ tcp.reading))
      BY <1>27 DEF PollShutdown
    <2> QED
      BY <1>25, <1>27, <2>1 DEF PollShutdown, InPoll
  <1>28. ASSUME EndSslShutdown PROVE SocketInv'
    <2> DEFINE d == [tcp EXCEPT !.events = IF tcp.writing THEN @ ELSE @ \ {"out"}]
    <2>1. /\ call = "none" /\ tcp.enabled /\ tcp.state \in {"sslshuttingdown", "connected"}
          /\ asked' = "none"
          /\ UNCHANGED <<wire, call, looping, pollerr, reset, dropped>>
      BY <1>28 DEF EndSslShutdown
    <2>2. \/ tcp' = d
          \/ tcp' = [d EXCEPT !.fault = FALSE]
          \/ tcp.state # "connected" /\ tcp' = [d EXCEPT !.state = "connected", !.ssl = FALSE]
          \/ tcp.state # "connected" /\ \E r \in {"lost", "error"} : tcp' = Checked(d, r)
      BY <1>28 DEF EndSslShutdown
    <2>3. /\ d \in TcpType /\ d.state = tcp.state /\ d.fd = tcp.fd /\ d.ssl = tcp.ssl
          /\ d.enabled = tcp.enabled /\ d.dirty = tcp.dirty /\ d.polled = tcp.polled
          /\ d.reading = tcp.reading /\ d.writing = tcp.writing
          /\ d.messages = tcp.messages /\ d.result = tcp.result /\ d.ptr = tcp.ptr
          /\ "in" \in tcp.events => "in" \in d.events
      BY <1>type DEF TcpType
    <2> HIDE DEF d
    <2>4. CASE tcp' = [d EXCEPT !.fault = FALSE]
      <3>1. /\ tcp' \in TcpType /\ tcp'.state = d.state /\ tcp'.fd = d.fd /\ tcp'.ssl = d.ssl
            /\ tcp'.enabled = d.enabled /\ tcp'.dirty = d.dirty /\ tcp'.polled = d.polled
            /\ tcp'.reading = d.reading /\ tcp'.writing = d.writing /\ tcp'.events = d.events
            /\ tcp'.messages = d.messages /\ tcp'.result = d.result /\ tcp'.ptr = d.ptr
        BY <2>3, <2>4 DEF TcpType
      <3> QED
        BY <2>1, <2>3, <3>1
    <2>5. CASE tcp' = d
      BY <2>1, <2>3, <2>5
    <2>6. CASE tcp.state # "connected" /\ tcp' = [d EXCEPT !.state = "connected", !.ssl = FALSE]
      <3>1. /\ tcp' \in TcpType /\ tcp'.state = "connected" /\ tcp'.fd = d.fd
            /\ tcp'.enabled = d.enabled /\ tcp'.dirty = d.dirty /\ tcp'.polled = d.polled
            /\ tcp'.reading = d.reading /\ tcp'.writing = d.writing /\ tcp'.events = d.events
        BY <2>3, <2>6 DEF TcpType
      <3> QED
        BY <2>1, <2>3, <2>6, <3>1
    <2>7. ASSUME NEW r \in {"lost", "error"}, tcp.state # "connected", tcp' = Checked(d, r)
          PROVE  SocketInv'
      <3>1. /\ tcp' \in TcpType /\ tcp'.enabled = d.enabled /\ tcp'.dirty = d.dirty
            /\ tcp'.reading = d.reading /\ tcp'.writing = d.writing
            /\ r = "lost" => ~tcp'.fd /\ ~tcp'.ssl /\ tcp'.state = "idle"
            /\ r # "lost" => /\ tcp'.fd = d.fd /\ tcp'.ssl = d.ssl /\ tcp'.polled = d.polled
                             /\ tcp'.state = d.state
            /\ "in" \in d.events => "in" \in tcp'.events
        BY <2>3, <2>7, CheckedFields
      <3> QED
        BY <2>1, <2>3, <2>7, <3>1
    <2> QED
      BY <2>2, <2>4, <2>5, <2>6, <2>7
  <1>29. CASE UNCHANGED tcpVars
    BY <1>29 DEF tcpVars
  <1> QED
    BY <1>1, <1>2, <1>3, <1>4, <1>5, <1>6, <1>7, <1>8, <1>9, <1>10, <1>13, <1>14, <1>16, <1>17,
       <1>18, <1>19, <1>20, <1>21, <1>22, <1>23, <1>24, <1>26, <1>27, <1>28, <1>29 DEF TcpNext

-----------------------------------------------------------------------------

\* The invariant of a socket, whatever program, kernel, peer and selector do.
THEOREM SocketInvariant == TcpSpec => []SocketInv
  <1>1. TcpInit => SocketInv
    <2> SUFFICES ASSUME TcpInit PROVE SocketInv
      OBVIOUS
    <2>1. /\ wire = "none" /\ call = "none" /\ looping = FALSE /\ asked = "none"
          /\ pollerr \in BOOLEAN /\ reset = FALSE /\ dropped = FALSE
          /\ tcp.state = "idle" /\ ~tcp.fd /\ ~tcp.reading /\ ~tcp.writing
      BY DEF TcpInit
    <2>2. tcp \in TcpType
      BY AddressesAssumption DEF TcpInit, TcpType
    <2> QED
      BY <2>1, <2>2
      DEF SocketInv, TypeRight, TcpTypeOK, SslHasSession, ConnectedHasDescriptor, ReadIsPolled,
          WireRight, AttemptRight, CallRight, LoopRight, Quiet, ConnectAwaited, SslAwaited,
          Fresh, IsConnected, SslStates, Operating, Handshakes
  <1> QED
    BY <1>1, NextSocket, PTL DEF TcpSpec

\* State, descriptor, TLS session and polled events agree: who uses _ssl finds
\* it, a pending read is polled for, and who waits to be told of a connection
\* or of the end of a handshake waits for something that goes on.
THEOREM SocketIsSound == TcpSpec => []SocketSound
  <1>1. SocketInv => SocketSound
    BY DEF SocketInv, TypeRight, WireRight, ConnectAwaited, SslAwaited, SocketSound,
           AskedIsUnderWay, Fresh
  <1> QED
    BY <1>1, SocketInvariant, PTL

(***************************************************************************)
(* RpcClient                                                               *)
(***************************************************************************)

-----------------------------------------------------------------------------
(* The inductive invariant.                                                *)

FrameType == [from : {"event", "begin", "connect"}, id : CallIds]

RcRight ==
  /\ RcTypeOK
  /\ frames \in Seq(FrameType) /\ begun \in 0 .. MaxRpc /\ rc.proc <= begun
  /\ told \in [CallIds -> Nat] /\ served \in [CallIds -> Nat] /\ got \in [CallIds -> 0 .. MaxRpc]

\* Nothing is known of a call that has not begun.
NothingAhead == \A c \in CallIds : c > begun => told[c] = 0 /\ served[c] = 0

Rising(s) == \A i, j \in 1 .. Len(s) : i < j => s[i] < s[j]
Before(s, t) == \A i \in 1 .. Len(s), j \in 1 .. Len(t) : s[i] < t[j]
Unserved(s, n, f) == \A i \in 1 .. Len(s) : s[i] <= n /\ f[s[i]] = 0

\* Requests q that are not sent and r that are not executed are in the order of
\* their calls, each once; n calls have begun, f of them were executed.
Ordered(q, r, n, f) ==
  Rising(q) /\ Rising(r) /\ Before(r, q) /\ Unserved(q, n, f) /\ Unserved(r, n, f)

RequestsInOrder == Ordered(rc.obuf, server.reqs, begun, served)

\* The request of the call under way, or its reply, is in one place only.
ToBeSent(d, s) ==
  /\ d.obuf = <<d.proc>> /\ d.half = 0 /\ ~d.reading /\ (d.writing <=> d.conn = "open")
  /\ s.reqs = <<>> /\ s.wire = <<>>

AtTheServer(d, s) ==
  /\ d.conn = "open" /\ d.obuf = <<>> /\ d.reading /\ ~d.writing
  /\ \/ s.reqs = <<>> /\ s.wire = <<>> /\ d.half = 0
     \/ s.reqs = <<d.proc>> /\ s.wire = <<>> /\ d.half = 0
     \/ s.reqs = <<>> /\ s.wire = <<<<d.proc, 1>>, <<d.proc, 2>>>> /\ d.half = 0
     \/ s.reqs = <<>> /\ s.wire = <<<<d.proc, 2>>>> /\ d.half = d.proc

UnderWay(d, s) ==
  /\ d.conn # "closed" /\ d.scan = d.proc
  /\ ToBeSent(d, s) \/ AtTheServer(d, s)

\* Without a call nothing is on its way.
AtRest(d, s) ==
  /\ d.obuf = <<>> /\ d.half = 0 /\ ~d.reading /\ ~d.writing /\ d.conn \in {"closed", "open"}
  /\ d.conn = "open" => s.reqs = <<>> /\ s.wire = <<>>

OneAtATime ==
  misuse = {} => IF rc.proc = 0 THEN AtRest(rc, server) ELSE UnderWay(rc, server)

RcInv ==
  /\ RcRight /\ NothingAhead /\ RequestsInOrder /\ OneAtATime
  /\ ReplyMatches /\ ToldOnce /\ ServedOnce

-----------------------------------------------------------------------------
(* Requests on their way.                                                  *)

LEMMA CallIsNumber == ASSUME NEW s \in Seq(CallIds), NEW i \in 1 .. Len(s)
                     PROVE  s[i] \in CallIds /\ s[i] \in Int
  <1>1. s[i] \in CallIds
    OBVIOUS
  <1> QED
    BY <1>1, RpcAssumption DEF CallIds

LEMMA OneOnly ==
  ASSUME NEW k
  PROVE  SubSeq(<<k>>, 2, 1) = <<>> /\ SubSeq(<<k>>, 1, 1) = <<k>> /\ Tail(<<k>>) = <<>>
  <1>1. \A s \in Seq({k}) : Len(s) = 0 => s = <<>>
    OBVIOUS
  <1>2. <<k>> \in Seq({k}) /\ Len(<<k>>) = 1 /\ <<k>> # <<>>
    OBVIOUS
  <1>3. SubSeq(<<k>>, 2, 1) \in Seq({k}) /\ Len(SubSeq(<<k>>, 2, 1)) = 0
    BY <1>2
  <1>4. Tail(<<k>>) \in Seq({k}) /\ Len(Tail(<<k>>)) = 0
    BY <1>2
  <1>5. SubSeq(<<k>>, 1, 1) = <<k>>
    <2>1. \A s, t \in Seq({k}) : Len(s) = Len(t) /\ (\A i \in 1 .. Len(s) : s[i] = t[i]) => s = t
      OBVIOUS
    <2> DEFINE s == SubSeq(<<k>>, 1, 1)
               t == <<k>>
    <2>2. s \in Seq({k}) /\ Len(s) = 1 /\ s[1] = k
      BY <1>2
    <2>3. t \in Seq({k}) /\ Len(t) = 1 /\ t[1] = k
      BY <1>2
    <2> HIDE DEF s, t
    <2>4. \A i \in 1 .. Len(s) : s[i] = t[i]
      BY <2>2, <2>3
    <2>5. s = t
      BY <2>1, <2>2, <2>3, <2>4
    <2> QED
      BY <2>5 DEF s, t
  <1> QED
    BY <1>1, <1>3, <1>4, <1>5

LEMMA OrderedNone ==
  ASSUME NEW q, NEW r, NEW n, NEW f, Ordered(q, r, n, f)
  PROVE  Ordered(<<>>, r, n, f) /\ Ordered(q, <<>>, n, f)
  BY DEF Ordered, Rising, Before, Unserved

LEMMA OrderedLater ==
  ASSUME NEW q \in Seq(CallIds), NEW r \in Seq(CallIds), NEW n \in Nat, NEW m \in Nat, n <= m,
         NEW f, Ordered(q, r, n, f)
  PROVE  Ordered(q, r, m, f)
  <1>1. \A i \in 1 .. Len(q) : q[i] \in Int
    BY CallIsNumber
  <1>2. \A i \in 1 .. Len(r) : r[i] \in Int
    BY CallIsNumber
  <1>3. Unserved(q, m, f) /\ Unserved(r, m, f)
    BY <1>1, <1>2 DEF Ordered, Unserved
  <1> QED
    BY <1>3 DEF Ordered

LEMMA OrderedAppend ==
  ASSUME NEW q \in Seq(CallIds), NEW r \in Seq(CallIds), NEW n \in Nat, n + 1 \in CallIds,
         NEW f, f[n + 1] = 0, Ordered(q, r, n, f)
  PROVE  Ordered(Append(q, n + 1), r, n + 1, f)
  <1> DEFINE s == Append(q, n + 1)
  <1>1. \A i \in 1 .. Len(q) : q[i] \in Int /\ q[i] <= n /\ f[q[i]] = 0
    BY CallIsNumber DEF Ordered, Unserved
  <1>2. \A i \in 1 .. Len(r) : r[i] \in Int /\ r[i] <= n /\ f[r[i]] = 0
    BY CallIsNumber DEF Ordered, Unserved
  <1>3. Len(s) = Len(q) + 1 /\ Len(q) \in Nat
    OBVIOUS
  <1>4. \A i \in 1 .. Len(s) : s[i] = IF i = Len(q) + 1 THEN n + 1 ELSE q[i]
    OBVIOUS
  <1> HIDE DEF s
  <1>5. Rising(s)
    BY <1>1, <1>3, <1>4 DEF Ordered, Rising
  <1>6. Before(r, s)
    BY <1>2, <1>3, <1>4 DEF Ordered, Before
  <1>7. Unserved(s, n + 1, f)
    BY <1>1, <1>3, <1>4 DEF Unserved
  <1>8. Unserved(r, n + 1, f)
    BY <1>2 DEF Unserved
  <1> QED
    BY <1>5, <1>6, <1>7, <1>8 DEF Ordered, s

\* The first k requests are sent.
LEMMA OrderedSend ==
  ASSUME NEW q \in Seq(CallIds), NEW r \in Seq(CallIds), NEW n, NEW f, NEW k \in 1 .. Len(q),
         Ordered(q, r, n, f)
  PROVE  /\ Ordered(SubSeq(q, k + 1, Len(q)), r \o SubSeq(q, 1, k), n, f)
         /\ Ordered(SubSeq(q, k + 1, Len(q)), r, n, f)
  <1> DEFINE p == SubSeq(q, k + 1, Len(q))
             t == SubSeq(q, 1, k)
             u == r \o t
  <1>0. Len(q) \in Nat /\ Len(r) \in Nat
    OBVIOUS
  <1>1. /\ p \in Seq(CallIds) /\ Len(p) = Len(q) - k
        /\ \A i \in 1 .. Len(p) : p[i] = q[i + k] /\ i + k \in 1 .. Len(q)
    BY <1>0
  <1>2. /\ t \in Seq(CallIds) /\ Len(t) = k /\ \A i \in 1 .. Len(t) : t[i] = q[i]
    BY <1>0
  <1> HIDE DEF p, t
  <1>3. /\ Len(u) = Len(r) + k
        /\ \A i \in 1 .. Len(u) : \/ i \in 1 .. Len(r) /\ u[i] = r[i]
                                  \/ i > Len(r) /\ i - Len(r) \in 1 .. k /\ u[i] = q[i - Len(r)]
    BY <1>0, <1>2
  <1> HIDE DEF u
  <1>4. Rising(p) /\ Before(r, p) /\ Unserved(p, n, f)
    <2>1. Rising(p)
      <3> SUFFICES ASSUME NEW i \in 1 .. Len(p), NEW j \in 1 .. Len(p), i < j PROVE p[i] < p[j]
        BY DEF Rising
      <3>1. i + k < j + k /\ i + k \in 1 .. Len(q) /\ j + k \in 1 .. Len(q)
        BY <1>0, <1>1
      <3> QED
        BY <1>1, <3>1 DEF Ordered, Rising
    <2>2. Before(r, p) /\ Unserved(p, n, f)
      BY <1>1 DEF Ordered, Before, Unserved
    <2> QED
      BY <2>1, <2>2
  <1>5. Rising(u)
    <2> SUFFICES ASSUME NEW i \in 1 .. Len(u), NEW j \in 1 .. Len(u), i < j PROVE u[i] < u[j]
      BY DEF Rising
    <2>1. CASE j \in 1 .. Len(r) /\ u[j] = r[j]
      <3>1. i \in 1 .. Len(r) /\ u[i] = r[i]
        BY <1>0, <1>3, <2>1
      <3> QED
        BY <2>1, <3>1 DEF Ordered, Rising
    <2>2. CASE j > Len(r) /\ j - Len(r) \in 1 .. k /\ u[j] = q[j - Len(r)]
      <3>1. j - Len(r) \in 1 .. Len(q)
        BY <1>0, <2>2
      <3>2. CASE i \in 1 .. Len(r) /\ u[i] = r[i]
        BY <2>2, <3>1, <3>2 DEF Ordered, Before
      <3>3. CASE i > Len(r) /\ i - Len(r) \in 1 .. k /\ u[i] = q[i - Len(r)]
        <4>1. i - Len(r) \in 1 .. Len(q) /\ i - Len(r) < j - Len(r)
          BY <1>0, <1>3, <3>3
        <4> QED
          BY <2>2, <3>1, <3>3, <4>1 DEF Ordered, Rising
      <3> QED
        BY <1>3, <3>2, <3>3
    <2> QED
      BY <1>3, <2>1, <2>2
  <1>6. Before(u, p)
    <2> SUFFICES ASSUME NEW i \in 1 .. Len(u), NEW j \in 1 .. Len(p) PROVE u[i] < p[j]
      BY DEF Before
    <2>1. CASE i \in 1 .. Len(r) /\ u[i] = r[i]
      BY <1>1, <2>1 DEF Ordered, Before
    <2>2. CASE i > Len(r) /\ i - Len(r) \in 1 .. k /\ u[i] = q[i - Len(r)]
      <3>1. i - Len(r) < j + k /\ i - Len(r) \in 1 .. Len(q) /\ j + k \in 1 .. Len(q)
        BY <1>0, <1>1, <1>3, <2>2
      <3> QED
        BY <1>1, <2>2, <3>1 DEF Ordered, Rising
    <2> QED
      BY <1>3, <2>1, <2>2
  <1>7. Unserved(u, n, f)
    BY <1>0, <1>3, SMTT(30) DEF Ordered, Unserved
  <1> QED
    BY <1>4, <1>5, <1>6, <1>7 DEF Ordered, p, t, u

\* The first request is executed.
LEMMA OrderedServe ==
  ASSUME NEW q \in Seq(CallIds), NEW r \in Seq(CallIds), NEW n, NEW f \in [CallIds -> Nat],
         r # <<>>, Ordered(q, r, n, f)
  PROVE  Ordered(q, Tail(r), n, [f EXCEPT ![Head(r)] = @ + 1])
  <1> DEFINE t == Tail(r)
             g == [f EXCEPT ![Head(r)] = @ + 1]
  <1>0. Len(q) \in Nat /\ Len(r) \in Nat /\ Len(r) > 0 /\ Head(r) = r[1]
    OBVIOUS
  <1>1. \A i \in 1 .. Len(q) : q[i] \in CallIds /\ q[i] # r[1]
    <2> SUFFICES ASSUME NEW i \in 1 .. Len(q) PROVE q[i] \in CallIds /\ q[i] # r[1]
      OBVIOUS
    <2>1. 1 \in 1 .. Len(r) /\ r[1] < q[i]
      BY <1>0 DEF Ordered, Before
    <2> QED
      BY <2>1, CallIsNumber
  <1>2. \A i \in 1 .. Len(r) : r[i] \in CallIds /\ (i > 1 => r[i] # r[1])
    <2> SUFFICES ASSUME NEW i \in 1 .. Len(r) PROVE r[i] \in CallIds /\ (i > 1 => r[i] # r[1])
      OBVIOUS
    <2>1. 1 \in 1 .. Len(r) /\ (1 < i => r[1] < r[i])
      BY <1>0 DEF Ordered, Rising
    <2> QED
      BY <2>1, CallIsNumber
  <1>3. /\ Len(t) = Len(r) - 1
        /\ \A i \in 1 .. Len(t) : t[i] = r[i + 1] /\ i + 1 \in 1 .. Len(r) /\ i + 1 > 1
    BY <1>0
  <1>4. \A c \in CallIds : c # r[1] => g[c] = f[c]
    BY <1>0
  <1> HIDE DEF t, g
  <1>5. Rising(t) /\ Before(t, q)
    <2>1. Rising(t)
      <3> SUFFICES ASSUME NEW i \in 1 .. Len(t), NEW j \in 1 .. Len(t), i < j PROVE t[i] < t[j]
        BY DEF Rising
      <3>1. i + 1 < j + 1 /\ i + 1 \in 1 .. Len(r) /\ j + 1 \in 1 .. Len(r)
        BY <1>0, <1>3
      <3> QED
        BY <1>3, <3>1 DEF Ordered, Rising
    <2> QED
      BY <1>3, <2>1 DEF Ordered, Before
  <1>6. Unserved(t, n, g)
    <2> SUFFICES ASSUME NEW i \in 1 .. Len(t) PROVE t[i] <= n /\ g[t[i]] = 0
      BY DEF Unserved
    <2>1. /\ i + 1 \in 1 .. Len(r) /\ t[i] = r[i + 1]
          /\ r[i + 1] \in CallIds /\ r[i + 1] # r[1] /\ r[i + 1] <= n /\ f[r[i + 1]] = 0
      BY <1>2, <1>3 DEF Ordered, Unserved
    <2> QED
      BY <1>4, <2>1
  <1>7. Unserved(q, n, g)
    BY <1>0, <1>1, <1>4 DEF Ordered, Unserved
  <1> QED
    BY <1>5, <1>6, <1>7 DEF Ordered, t, g

-----------------------------------------------------------------------------
(* What the operations on the client do.                                   *)

LEMMA SocketClosedFields ==
  ASSUME NEW d \in RcType
  PROVE  LET e == SocketClosed(d) IN
         /\ e \in RcType /\ e.conn = "closed" /\ ~e.reading /\ ~e.writing
         /\ e.proc = d.proc /\ e.scan = d.scan /\ e.half = d.half /\ e.obuf = d.obuf
         /\ e.exc = d.exc /\ e.ssl = d.ssl
  BY DEF RcType, SocketClosed

LEMMA RcCancelledFields ==
  ASSUME NEW d \in RcType
  PROVE  LET e == RcCancelled(d) IN
         /\ e \in RcType /\ e.conn = "closed" /\ ~e.reading /\ ~e.writing
         /\ e.proc = 0 /\ e.half = 0 /\ e.obuf = <<>> /\ e.scan = d.scan /\ ~e.exc
  <1>1. MaxRpc \in Nat /\ 0 \in 0 .. MaxRpc /\ <<>> \in Seq(CallIds)
    BY RpcAssumption
  <1> DEFINE e == SocketClosed(d)
  <1>2. /\ e \in RcType /\ e.conn = "closed" /\ ~e.reading /\ ~e.writing /\ e.scan = d.scan
    BY SocketClosedFields
  <1>3. RcCancelled(d) = [e EXCEPT !.obuf = <<>>, !.half = 0, !.proc = 0, !.exc = FALSE]
    BY DEF RcCancelled
  <1> HIDE DEF e
  <1> QED
    BY <1>1, <1>2, <1>3, ZenonT(30) DEF RcType

LEMMA FailedFields ==
  ASSUME NEW d \in RcType, NEW from \in {"event", "begin", "connect"}, Failed(d, from),
         frames \in Seq(FrameType), told \in [CallIds -> Nat], d.proc # 0 => told[d.proc] = 0
  PROVE  /\ rc' \in RcType /\ rc'.conn = "closed" /\ ~rc'.reading /\ ~rc'.writing
         /\ rc'.proc = 0 /\ rc'.half = 0 /\ rc'.obuf = <<>>
         /\ frames' \in Seq(FrameType) /\ told' \in [CallIds -> Nat]
         /\ \A c \in CallIds : told'[c] = IF c = d.proc THEN 1 ELSE told[c]
  <1>0. MaxRpc \in Nat
    BY RpcAssumption
  <1> DEFINE e == RcCancelled(d)
  <1>1. /\ e \in RcType /\ e.conn = "closed" /\ ~e.reading /\ ~e.writing
        /\ e.proc = 0 /\ e.half = 0 /\ e.obuf = <<>>
    BY RcCancelledFields
  <1>2. rc' = [e EXCEPT !.exc = (d.proc # 0)]
    BY DEF Failed
  <1> HIDE DEF e
  <1>3. /\ rc' \in RcType /\ rc'.conn = "closed" /\ ~rc'.reading /\ ~rc'.writing
        /\ rc'.proc = 0 /\ rc'.half = 0 /\ rc'.obuf = <<>>
    BY <1>1, <1>2 DEF RcType
  <1>4. d.proc \in 0 .. MaxRpc
    BY DEF RcType
  <1>5. CASE d.proc = 0
    BY <1>0, <1>3, <1>5 DEF Failed, CallIds
  <1>6. CASE d.proc # 0
    <2>1. [from |-> from, id |-> d.proc] \in FrameType
      BY <1>0, <1>4, <1>6 DEF FrameType, CallIds
    <2>2. frames' = Append(frames, [from |-> from, id |-> d.proc])
      BY <1>6 DEF Failed
    <2>3. frames' \in Seq(FrameType)
      BY <2>1, <2>2
    <2>4. told' = [told EXCEPT ![d.proc] = @ + 1]
      BY <1>6 DEF Failed
    <2>5. told' \in [CallIds -> Nat] /\ \A c \in CallIds : told'[c] = IF c = d.proc THEN 1 ELSE told[c]
      BY <1>0, <1>4, <1>6, <2>4 DEF CallIds
    <2> QED
      BY <1>3, <2>3, <2>5
  <1> QED
    BY <1>5, <1>6

\* After a failure nothing of the call is left, and it has been told.
LEMMA AfterFailure ==
  ASSUME RcInv, NEW d \in RcType, NEW from \in {"event", "begin", "connect"}, Failed(d, from),
         begun' \in {begun, begun + 1}, begun' <= MaxRpc, d.proc <= begun',
         d.proc # 0 => told[d.proc] = 0 /\ served[d.proc] <= 1,
         server' \in {server, NewServer}, UNCHANGED <<got, served, misuse>>
  PROVE  RcInv'
  <1>0. MaxRpc \in Nat /\ begun \in Nat /\ begun' \in Nat /\ begun' >= begun
    BY RpcAssumption DEF RcInv, RcRight
  <1>1. frames \in Seq(FrameType) /\ told \in [CallIds -> Nat]
    BY DEF RcInv, RcRight
  <1>2. /\ rc' \in RcType /\ rc'.conn = "closed" /\ ~rc'.reading /\ ~rc'.writing
        /\ rc'.proc = 0 /\ rc'.half = 0 /\ rc'.obuf = <<>>
        /\ frames' \in Seq(FrameType) /\ told' \in [CallIds -> Nat]
        /\ \A c \in CallIds : told'[c] = IF c = d.proc THEN 1 ELSE told[c]
    BY <1>1, FailedFields
  <1>3. NewServer \in ServerType /\ NewServer.reqs = <<>>
    BY DEF ServerType, NewServer
  <1>4. server' \in ServerType
    BY <1>3 DEF RcInv, RcRight, RcTypeOK
  <1>5. RcRight'
    BY <1>0, <1>2, <1>4 DEF RcInv, RcRight, RcTypeOK
  <1>6. NothingAhead'
    BY <1>0, <1>2 DEF RcInv, NothingAhead, CallIds
  <1>7. RequestsInOrder'
    <2>1. rc.obuf \in Seq(CallIds) /\ server.reqs \in Seq(CallIds)
      BY DEF RcInv, RcRight, RcTypeOK, RcType, ServerType
    <2>2. Ordered(rc.obuf, server.reqs, begun', served)
      BY <1>0, <2>1, OrderedLater DEF RcInv, RequestsInOrder
    <2>3. Ordered(<<>>, server'.reqs, begun', served)
      BY <1>3, <2>2, OrderedNone
    <2> QED
      BY <1>2, <2>3 DEF RequestsInOrder
  <1>8. OneAtATime'
    BY <1>2 DEF OneAtATime, AtRest
  <1>9. ReplyMatches' /\ ToldOnce' /\ ServedOnce'
    <2>1. ReplyMatches'
      BY DEF RcInv, ReplyMatches
    <2>2. ToldOnce'
      BY <1>2 DEF RcInv, ToldOnce
    <2>3. \A c \in CallIds : served[c] \in Nat /\ told[c] \in Nat
      BY DEF RcInv, RcRight
    <2>4. ServedOnce'
      <3> SUFFICES ASSUME NEW c \in CallIds
                   PROVE  served[c] <= IF told'[c] > 0 \/ rc'.proc = c THEN 1 ELSE 2
        BY DEF ServedOnce
      <3>1. served[c] <= IF told[c] > 0 \/ rc.proc = c THEN 1 ELSE 2
        BY DEF RcInv, ServedOnce
      <3> QED
        BY <1>0, <1>2, <2>3, <3>1, SMTT(30) DEF CallIds
    <2> QED
      BY <2>1, <2>2, <2>4
  <1> QED
    BY <1>5, <1>6, <1>7, <1>8, <1>9 DEF RcInv

\* A step that keeps the calls and the requests, or drops those not sent.
LEMMA QuietStep ==
  ASSUME RcInv, UNCHANGED <<begun, told, got, served>>,
         rc' \in RcType, rc'.reading \/ rc'.writing => rc'.conn \in {"tls", "open"},
         rc'.proc \in {0, rc.proc}, rc'.obuf \in {rc.obuf, <<>>},
         server' \in ServerType, server'.reqs = server.reqs, frames' \in Seq(FrameType),
         misuse \subseteq misuse', misuse' \subseteq {"late", "cut", "crossed", "crash"}, OneAtATime'
  PROVE  RcInv'
  <1>0. MaxRpc \in Nat
    BY RpcAssumption
  <1>1. RcRight'
    BY <1>0 DEF RcInv, RcRight, RcTypeOK
  <1>2. NothingAhead'
    BY DEF RcInv, NothingAhead
  <1>3. RequestsInOrder'
    <2>1. Ordered(rc'.obuf, server.reqs, begun, served)
      BY OrderedNone DEF RcInv, RequestsInOrder
    <2> QED
      BY <2>1 DEF RequestsInOrder
  <1>4. ReplyMatches' /\ ToldOnce' /\ ServedOnce'
    <2>1. rc'.proc # 0 => rc'.proc = rc.proc
      OBVIOUS
    <2>2. ReplyMatches'
      BY DEF RcInv, ReplyMatches
    <2>3. ToldOnce'
      BY <2>1 DEF RcInv, ToldOnce
    <2>4. \A c \in CallIds : served[c] \in Nat
      BY DEF RcInv, RcRight
    <2>5. ServedOnce'
      <3> SUFFICES ASSUME NEW c \in CallIds
                   PROVE  served[c] <= IF told[c] > 0 \/ rc'.proc = c THEN 1 ELSE 2
        BY DEF ServedOnce
      <3>1. served[c] <= IF told[c] > 0 \/ rc.proc = c THEN 1 ELSE 2
        BY DEF RcInv, ServedOnce
      <3>2. c # 0
        BY <1>0 DEF CallIds
      <3> QED
        BY <2>1, <2>4, <3>1, <3>2
    <2> QED
      BY <2>2, <2>3, <2>5
  <1> QED
    BY <1>1, <1>2, <1>3, <1>4 DEF RcInv

\* A call begins: its request is the last one in the put area.
LEMMA CallBegins ==
  ASSUME RcInv, begun < MaxRpc, rc.proc = 0, begun' = begun + 1,
         UNCHANGED <<frames, told, got, served, misuse>>,
         rc' \in RcType, rc'.reading \/ rc'.writing => rc'.conn \in {"tls", "open"},
         rc'.proc = begun + 1, rc'.obuf = Append(rc.obuf, begun + 1), server' \in {server, NewServer},
         misuse = {} => /\ rc'.conn # "closed" /\ rc'.scan = begun + 1 /\ rc'.half = 0
                        /\ ~rc'.reading /\ (rc'.writing <=> rc'.conn = "open")
                        /\ server'.reqs = <<>> /\ server'.wire = <<>>
  PROVE  RcInv'
  <1>0. /\ MaxRpc \in Nat /\ begun \in Nat /\ begun + 1 \in CallIds
        /\ told \in [CallIds -> Nat] /\ served \in [CallIds -> Nat]
    BY RpcAssumption, SMTT(30) DEF RcInv, RcRight, CallIds
  <1>1. NewServer \in ServerType /\ NewServer.reqs = <<>>
    BY DEF ServerType, NewServer
  <1>2. RcRight'
    BY <1>0, <1>1 DEF RcInv, RcRight, RcTypeOK
  <1>3. told[begun + 1] = 0 /\ served[begun + 1] = 0
    BY <1>0 DEF RcInv, NothingAhead
  <1>4. NothingAhead'
    BY <1>0 DEF RcInv, NothingAhead, CallIds
  <1>5. RequestsInOrder'
    <2>1. rc.obuf \in Seq(CallIds) /\ server.reqs \in Seq(CallIds)
      BY DEF RcInv, RcRight, RcTypeOK, RcType, ServerType
    <2>2. Ordered(Append(rc.obuf, begun + 1), server.reqs, begun + 1, served)
      BY <1>0, <1>3, <2>1, OrderedAppend DEF RcInv, RequestsInOrder
    <2>3. Ordered(Append(rc.obuf, begun + 1), server'.reqs, begun + 1, served)
      BY <1>1, <2>2, OrderedNone
    <2> QED
      BY <2>3 DEF RequestsInOrder
  <1>6. OneAtATime'
    <2> SUFFICES ASSUME misuse = {} PROVE UnderWay(rc', server')
      BY <1>0 DEF OneAtATime
    <2>1. rc.obuf = <<>>
      BY DEF RcInv, OneAtATime, AtRest
    <2> QED
      BY <2>1 DEF UnderWay, ToBeSent
  <1>7. ReplyMatches' /\ ToldOnce'
    BY <1>3 DEF RcInv, ReplyMatches, ToldOnce
  <1>8. ServedOnce'
    <2> SUFFICES ASSUME NEW c \in CallIds
                 PROVE  served[c] <= IF told[c] > 0 \/ begun + 1 = c THEN 1 ELSE 2
      BY DEF ServedOnce
    <2>1. served[c] <= IF told[c] > 0 \/ rc.proc = c THEN 1 ELSE 2
      BY DEF RcInv, ServedOnce
    <2>2. served[c] \in Nat /\ told[c] \in Nat
      BY <1>0
    <2> QED
      BY <1>0, <1>3, <2>1, <2>2
  <1> QED
    BY <1>2, <1>4, <1>5, <1>6, <1>7, <1>8 DEF RcInv

-----------------------------------------------------------------------------
(* What the program calls.                                                 *)

LEMMA BeginCallKeeps == ASSUME RcInv, BeginCall PROVE RcInv'
  <1>0. /\ MaxRpc \in Nat /\ begun \in Nat /\ begun < MaxRpc /\ begun + 1 \in CallIds
        /\ begun' = begun + 1 /\ rc.proc = 0
        /\ rc \in RcType /\ UNCHANGED <<got, served, misuse>>
        /\ rc.reading \/ rc.writing => rc.conn \in {"tls", "open"}
    BY RpcAssumption DEF BeginCall, RcInv, RcRight, RcTypeOK, CallIds
  <1> DEFINE c == begun + 1
             d == [rc EXCEPT !.proc = c, !.obuf = Append(@, c)]
             e == [d EXCEPT !.half = 0]
  <1>n. 0 \in 0 .. MaxRpc /\ c \in 0 .. MaxRpc
    BY <1>0
  <1>a. Append(rc.obuf, c) \in Seq(CallIds)
    BY <1>0 DEF RcType
  <1>1. /\ d \in RcType /\ d.proc = c /\ d.obuf = Append(rc.obuf, c) /\ d.conn = rc.conn
        /\ d.reading = rc.reading /\ d.writing = rc.writing
    <2> DEFINE o == Append(rc.obuf, c)
    <2>1. d = [rc EXCEPT !.proc = c, !.obuf = o] /\ o \in Seq(CallIds)
      BY <1>a
    <2> HIDE DEF c, o, d
    <2> QED
      BY <1>0, <1>n, <2>1 DEF RcType, o
  <1>2. /\ e \in RcType /\ e.proc = c /\ e.obuf = Append(rc.obuf, c) /\ e.conn = rc.conn /\ e.half = 0
        /\ e.reading = rc.reading /\ e.writing = rc.writing
    <2>1. e = [d EXCEPT !.half = 0]
      OBVIOUS
    <2> HIDE DEF c, d, e
    <2> QED
      BY <1>1, <1>n, <2>1 DEF RcType
  <1>3. misuse = {} => AtRest(rc, server)
    BY <1>0 DEF RcInv, OneAtATime
  <1>4. NewServer.reqs = <<>> /\ NewServer.wire = <<>>
    BY DEF NewServer
  <1>5. \/ /\ rc.conn = "open"
           /\ rc' = [d EXCEPT !.writing = TRUE, !.scan = c, !.half = 0]
           /\ UNCHANGED <<server, frames, told>>
        \/ Failed(d, "begin") /\ UNCHANGED server
        \/ Connects(e) /\ server' = NewServer
    BY DEF BeginCall
  <1> HIDE DEF d, e
  <1>6. CASE /\ rc.conn = "open"
             /\ rc' = [d EXCEPT !.writing = TRUE, !.scan = c, !.half = 0]
             /\ UNCHANGED <<server, frames, told>>
    <2>1. /\ rc' \in RcType /\ rc'.conn = rc.conn /\ rc'.proc = c /\ rc'.obuf = Append(rc.obuf, c)
          /\ rc'.scan = c /\ rc'.half = 0 /\ rc'.writing /\ rc'.reading = rc.reading
      BY <1>0, <1>1, <1>6 DEF RcType, CallIds
    <2> QED
      BY <1>0, <1>3, <1>6, <2>1, CallBegins DEF AtRest
  <1>7. CASE Connects(e) /\ server' = NewServer
    <2> DEFINE g == SocketClosed(e)
    <2>1. /\ g \in RcType /\ ~g.reading /\ ~g.writing /\ g.proc = c /\ g.half = 0
          /\ g.obuf = Append(rc.obuf, c)
      BY <1>2, SocketClosedFields
    <2> HIDE DEF g
    <2>2. CASE /\ rc' = [g EXCEPT !.conn = "connecting", !.scan = e.proc]
               /\ UNCHANGED <<frames, told>>
      <3>1. /\ rc' \in RcType /\ rc'.conn = "connecting" /\ rc'.proc = c /\ rc'.obuf = Append(rc.obuf, c)
            /\ rc'.scan = c /\ rc'.half = 0 /\ ~rc'.writing /\ ~rc'.reading
        BY <1>0, <1>2, <2>1, <2>2 DEF RcType, CallIds
      <3> QED
        BY <1>0, <1>4, <1>7, <2>2, <3>1, CallBegins
    <2>3. CASE /\ rc' = [g EXCEPT !.conn = IF e.ssl THEN "tls" ELSE "open", !.writing = ~e.ssl,
                                  !.scan = e.proc]
               /\ UNCHANGED <<frames, told>>
      <3>1. e.ssl \in BOOLEAN
        BY <1>2 DEF RcType
      <3>2. /\ rc' \in RcType /\ rc'.conn \in {"tls", "open"} /\ (rc'.writing <=> rc'.conn = "open")
            /\ rc'.proc = c /\ rc'.obuf = Append(rc.obuf, c)
            /\ rc'.scan = c /\ rc'.half = 0 /\ ~rc'.reading
        BY <1>0, <1>2, <2>1, <2>3, <3>1 DEF RcType, CallIds
      <3> QED
        BY <1>0, <1>4, <1>7, <2>3, <3>2, CallBegins
    <2>4. CASE \E from \in {"begin", "connect"} : Failed(e, from)
      <3>1. told[c] = 0 /\ served[c] = 0
        BY <1>0 DEF RcInv, NothingAhead
      <3> QED
        BY <1>0, <1>2, <1>7, <2>4, <3>1, AfterFailure
    <2> QED
      BY <1>7, <2>2, <2>3, <2>4 DEF Connects, g
  <1>8. CASE Failed(d, "begin") /\ UNCHANGED server
    <2>1. told[c] = 0 /\ served[c] = 0
      BY <1>0 DEF RcInv, NothingAhead
    <2> QED
      BY <1>0, <1>1, <1>8, <2>1, AfterFailure
  <1> QED
    BY <1>5, <1>6, <1>7, <1>8

LEMMA EndCallKeeps == ASSUME RcInv, EndCall PROVE RcInv'
  <1>1. /\ MaxRpc \in Nat /\ rc \in RcType /\ server \in ServerType /\ frames \in Seq(FrameType)
        /\ rc.reading \/ rc.writing => rc.conn \in {"tls", "open"}
        /\ misuse \subseteq {"late", "cut", "crossed", "crash"}
    BY RpcAssumption DEF RcInv, RcRight, RcTypeOK
  <1>2. rc' = [rc EXCEPT !.proc = 0, !.exc = FALSE]
    BY DEF EndCall
  <1>3. /\ rc' \in RcType /\ rc'.proc = 0 /\ rc'.obuf = rc.obuf /\ rc'.half = rc.half
        /\ rc'.conn = rc.conn /\ rc'.reading = rc.reading /\ rc'.writing = rc.writing
    <2>1. 0 \in 0 .. MaxRpc
      BY <1>1
    <2> QED
      BY <1>1, <1>2, <2>1 DEF RcType
  <1>4. OneAtATime'
    BY <1>3 DEF EndCall, RcInv, OneAtATime, AtRest
  <1> QED
    BY <1>1, <1>3, <1>4, QuietStep DEF EndCall

LEMMA CancelCallKeeps == ASSUME RcInv, CancelCall PROVE RcInv'
  <1>1. /\ rc \in RcType /\ server \in ServerType /\ frames \in Seq(FrameType)
        /\ misuse \subseteq {"late", "cut", "crossed", "crash"}
    BY DEF RcInv, RcRight, RcTypeOK
  <1>2. /\ rc' \in RcType /\ rc'.conn = "closed" /\ ~rc'.reading /\ ~rc'.writing
        /\ rc'.proc = 0 /\ rc'.half = 0 /\ rc'.obuf = <<>>
    BY <1>1, RcCancelledFields DEF CancelCall
  <1>3. OneAtATime'
    BY <1>2 DEF OneAtATime, AtRest
  <1> QED
    BY <1>1, <1>2, <1>3, QuietStep DEF CancelCall

LEMMA CloseClientKeeps == ASSUME RcInv, CloseClient PROVE RcInv'
  <1>1. /\ rc \in RcType /\ server \in ServerType /\ frames \in Seq(FrameType)
        /\ misuse \subseteq {"late", "cut", "crossed", "crash"}
    BY DEF RcInv, RcRight, RcTypeOK
  <1>2. /\ rc' \in RcType /\ rc'.conn = "closed" /\ ~rc'.reading /\ ~rc'.writing
        /\ rc'.proc = rc.proc /\ rc'.half = rc.half /\ rc'.obuf = rc.obuf
    BY <1>1, SocketClosedFields DEF CloseClient
  <1>3. OneAtATime'
    BY <1>2 DEF CloseClient, RcInv, OneAtATime, AtRest
  <1> QED
    BY <1>1, <1>2, <1>3, QuietStep DEF CloseClient

LEMMA HandlerReturnsKeeps == ASSUME RcInv, HandlerReturns PROVE RcInv'
  <1>1. /\ MaxRpc \in Nat /\ rc \in RcType /\ server \in ServerType /\ frames \in Seq(FrameType)
        /\ rc.reading \/ rc.writing => rc.conn \in {"tls", "open"}
        /\ misuse \subseteq {"late", "cut", "crossed", "crash"} /\ frames # <<>>
    BY RpcAssumption DEF RcInv, RcRight, RcTypeOK, HandlerReturns
  <1> DEFINE f == frames[Len(frames)]
             over == f.from # "event" /\ ~rc.exc
  <1>2. f \in FrameType
    BY <1>1
  <1>3. /\ rc' = [rc EXCEPT !.exc = FALSE, !.scan = IF over THEN f.id ELSE @, !.half = IF over THEN 0 ELSE @]
        /\ misuse' = IF f.from = "connect" /\ rc.exc THEN misuse \cup {"crash"}
                     ELSE IF over /\ rc.proc # 0 THEN misuse \cup {"crossed"} ELSE misuse
        /\ frames' = SubSeq(frames, 1, Len(frames) - 1)
    BY DEF HandlerReturns, Last, Front
  <1>4. f.id \in 0 .. MaxRpc
    BY <1>1, <1>2 DEF FrameType, CallIds
  <1> HIDE DEF f
  <1>5. /\ rc' \in RcType /\ rc'.proc = rc.proc /\ rc'.obuf = rc.obuf
        /\ rc'.conn = rc.conn /\ rc'.reading = rc.reading /\ rc'.writing = rc.writing
        /\ over => rc'.half = 0
        /\ ~over => rc'.half = rc.half /\ rc'.scan = rc.scan
    <2>1. 0 \in 0 .. MaxRpc
      BY <1>1
    <2>2. CASE over
      <3>1. rc' = [rc EXCEPT !.exc = FALSE, !.scan = f.id, !.half = 0]
        BY <1>3, <2>2
      <3> QED
        BY <1>1, <1>4, <2>1, <2>2, <3>1 DEF RcType
    <2>3. CASE ~over
      <3>1. rc' = [rc EXCEPT !.exc = FALSE]
        BY <1>1, <1>3, <2>3 DEF RcType
      <3> QED
        BY <1>1, <2>3, <3>1 DEF RcType
    <2> QED
      BY <2>2, <2>3
  <1>6. OneAtATime'
    <2> SUFFICES ASSUME misuse' = {}
                 PROVE  IF rc'.proc = 0 THEN AtRest(rc', server') ELSE UnderWay(rc', server')
      BY DEF OneAtATime
    <2>1. misuse = {} /\ (over => rc.proc = 0) /\ server' = server
      BY <1>3 DEF HandlerReturns
    <2>2. IF rc.proc = 0 THEN AtRest(rc, server) ELSE UnderWay(rc, server)
      BY <2>1 DEF RcInv, OneAtATime
    <2>3. CASE rc.proc = 0
      BY <1>5, <2>1, <2>2, <2>3 DEF AtRest
    <2>4. CASE rc.proc # 0
      BY <1>5, <2>1, <2>2, <2>4 DEF UnderWay, ToBeSent, AtTheServer
    <2> QED
      BY <2>3, <2>4
  <1>7. frames' \in Seq(FrameType)
    BY <1>1, <1>3
  <1>8. misuse \subseteq misuse' /\ misuse' \subseteq {"late", "cut", "crossed", "crash"}
    BY <1>1, <1>3
  <1> QED
    BY <1>1, <1>5, <1>6, <1>7, <1>8, QuietStep DEF HandlerReturns

LEMMA CallKeeps == ASSUME RcInv, Call PROVE RcInv'
  <1>0. /\ MaxRpc \in Nat /\ begun \in Nat /\ begun < MaxRpc /\ begun + 1 \in CallIds
        /\ begun' = begun + 1 /\ rc.proc = 0 /\ rc.conn \in {"closed", "open"} /\ misuse = {}
        /\ rc \in RcType /\ server \in ServerType /\ UNCHANGED <<frames, told, misuse>>
        /\ served \in [CallIds -> Nat] /\ got \in [CallIds -> 0 .. MaxRpc]
        /\ 0 \in 0 .. MaxRpc /\ begun + 1 \in 0 .. MaxRpc
    BY RpcAssumption DEF Call, RcInv, RcRight, RcTypeOK, CallIds
  <1>1. AtRest(rc, server)
    BY <1>0 DEF RcInv, OneAtATime
  <1> DEFINE c == begun + 1
             open == [rc EXCEPT !.conn = "open", !.half = 0, !.scan = c]
  <1>2. PICK before \in 0 .. 1, after \in 0 .. 1, how \in {"right", "remote", "lost"} :
          /\ before = 1 => rc.conn = "open"
          /\ how # "lost" => before + after > 0
          /\ served' = [served EXCEPT ![c] = before + after]
          /\ got' = [got EXCEPT ![c] = IF how = "right" THEN c ELSE 0]
          /\ rc' = IF how = "lost" THEN RcCancelled(rc) ELSE open
          /\ server' = IF after = 1 THEN NewServer ELSE server
    BY DEF Call
  <1>3. /\ open \in RcType /\ open.conn = "open" /\ open.half = 0 /\ open.proc = 0
        /\ open.obuf = rc.obuf /\ open.reading = rc.reading /\ open.writing = rc.writing
    BY <1>0 DEF RcType
  <1>4. LET e == RcCancelled(rc) IN
        /\ e \in RcType /\ e.conn = "closed" /\ ~e.reading /\ ~e.writing
        /\ e.proc = 0 /\ e.half = 0 /\ e.obuf = <<>>
    BY <1>0, RcCancelledFields
  <1>5. NewServer \in ServerType /\ NewServer.reqs = <<>> /\ NewServer.wire = <<>>
    BY DEF ServerType, NewServer
  <1> HIDE DEF open
  <1>6. AtRest(rc', server')
    <2>1. CASE how = "lost"
      BY <1>2, <1>4, <2>1 DEF AtRest
    <2>2. CASE how # "lost"
      <3>1. rc' = open /\ (after # 1 => rc.conn = "open" /\ server' = server)
        BY <1>2, <2>2
      <3> QED
        BY <1>1, <1>2, <1>3, <1>5, <3>1 DEF AtRest
    <2> QED
      BY <2>1, <2>2
  <1>7. rc' \in RcType /\ rc'.proc = 0 /\ server' \in ServerType
    BY <1>0, <1>2, <1>3, <1>4, <1>5
  <1>8. /\ served' \in [CallIds -> Nat] /\ got' \in [CallIds -> 0 .. MaxRpc]
        /\ \A k \in CallIds : k # c => served'[k] = served[k] /\ got'[k] = got[k]
        /\ served'[c] <= 2 /\ got'[c] \in {0, c}
    BY <1>0, <1>2
  <1>9. RcRight'
    BY <1>0, <1>6, <1>7, <1>8 DEF RcInv, RcRight, RcTypeOK, AtRest
  <1>10. NothingAhead'
    <2> SUFFICES ASSUME NEW k \in CallIds, k > c PROVE told[k] = 0 /\ served'[k] = 0
      BY <1>0 DEF NothingAhead
    <2>1. k > begun /\ k # c
      BY <1>0 DEF CallIds
    <2> QED
      BY <1>8, <2>1 DEF RcInv, NothingAhead
  <1>11. RequestsInOrder'
    <2>1. rc'.obuf = <<>> /\ <<>> \in Seq(CallIds) /\ server.reqs \in Seq(CallIds)
      BY <1>0, <1>6 DEF AtRest, ServerType
    <2>2. CASE server' = NewServer
      BY <1>5, <2>1, <2>2 DEF RequestsInOrder, Ordered, Rising, Before, Unserved
    <2>3. CASE server' = server
      <3>1. rc.obuf = <<>>
        BY <1>1 DEF AtRest
      <3>2. \A i \in 1 .. Len(server.reqs) : /\ server.reqs[i] \in CallIds /\ server.reqs[i] \in Int
                                             /\ server.reqs[i] <= begun /\ served[server.reqs[i]] = 0
        BY <2>1, CallIsNumber DEF RcInv, RequestsInOrder, Ordered, Unserved
      <3>3. \A i \in 1 .. Len(server.reqs) : /\ server.reqs[i] <= begun + 1
                                             /\ served'[server.reqs[i]] = 0
        <4> SUFFICES ASSUME NEW i \in 1 .. Len(server.reqs)
                     PROVE  server.reqs[i] <= begun + 1 /\ served'[server.reqs[i]] = 0
          OBVIOUS
        <4>1. server.reqs[i] \in CallIds /\ server.reqs[i] <= begun /\ server.reqs[i] \in Int
          BY <3>2
        <4>2. begun \in Int /\ server.reqs[i] # c /\ server.reqs[i] <= begun + 1
          BY <1>0, <4>1
        <4> HIDE DEF c
        <4> QED
          BY <1>8, <3>2, <4>1, <4>2
      <3>4. Rising(server.reqs)
        BY DEF RcInv, RequestsInOrder, Ordered
      <3>5. Unserved(server.reqs, begun + 1, served')
        BY <3>3 DEF Unserved
      <3>6. Rising(<<>>) /\ Before(server.reqs, <<>>) /\ Unserved(<<>>, begun + 1, served')
        BY DEF Rising, Before, Unserved
      <3> QED
        BY <1>0, <2>1, <2>3, <3>4, <3>5, <3>6 DEF RequestsInOrder, Ordered
    <2> QED
      BY <1>2, <2>2, <2>3
  <1>12. OneAtATime'
    BY <1>6, <1>7 DEF OneAtATime
  <1>13. ReplyMatches'
    BY <1>8 DEF RcInv, ReplyMatches, Call
  <1>14. ToldOnce'
    BY <1>0, <1>7 DEF RcInv, ToldOnce
  <1>15. ServedOnce'
    <2> SUFFICES ASSUME NEW k \in CallIds
                 PROVE  served'[k] <= IF told[k] > 0 \/ rc'.proc = k THEN 1 ELSE 2
      BY <1>0 DEF ServedOnce
    <2>0. k # 0
      BY <1>0 DEF CallIds
    <2>1. CASE k = c
      <3>1. told[c] = 0
        BY <1>0 DEF RcInv, NothingAhead
      <3> QED
        BY <1>7, <1>8, <2>0, <2>1, <3>1
    <2>2. CASE k # c
      <3>1. served[k] <= IF told[k] > 0 \/ rc.proc = k THEN 1 ELSE 2
        BY DEF RcInv, ServedOnce
      <3> QED
        BY <1>0, <1>7, <1>8, <2>0, <2>2, <3>1
    <2> QED
      BY <2>1, <2>2
  <1> QED
    BY <1>9, <1>10, <1>11, <1>12, <1>13, <1>14, <1>15 DEF RcInv

-----------------------------------------------------------------------------
(* The signals, and the server.                                            *)

\* A failure reported by the event loop.
LEMMA FailureKeeps ==
  ASSUME RcInv, Failed(rc, "event"), UNCHANGED <<server, begun, got, served, misuse>>
  PROVE  RcInv'
  <1>1. /\ MaxRpc \in Nat /\ rc \in RcType /\ begun \in 0 .. MaxRpc /\ rc.proc <= begun
        /\ rc.proc \in 0 .. MaxRpc /\ served \in [CallIds -> Nat]
    BY RpcAssumption DEF RcInv, RcRight, RcTypeOK, RcType
  <1>2. rc.proc # 0 => told[rc.proc] = 0 /\ served[rc.proc] <= 1
    BY <1>1 DEF RcInv, ToldOnce, ServedOnce, CallIds
  <1> QED
    BY <1>1, <1>2, AfterFailure

LEMMA ConnectKeeps == ASSUME RcInv, OnConnect \/ OnSslConnect PROVE RcInv'
  <1>1. /\ rc \in RcType /\ server \in ServerType /\ frames \in Seq(FrameType) /\ rc.ssl \in BOOLEAN
        /\ misuse \subseteq {"late", "cut", "crossed", "crash"}
        /\ rc.conn \in {"connecting", "tls"}
    BY DEF RcInv, RcRight, RcTypeOK, RcType, OnConnect, OnSslConnect
  <1>2. CASE Failed(rc, "event")
    BY <1>2, FailureKeeps DEF OnConnect, OnSslConnect
  <1>3. CASE ~Failed(rc, "event")
    <2>1. /\ UNCHANGED <<frames, told, server, begun, got, served, misuse>>
          /\ \/ rc' = [rc EXCEPT !.conn = IF rc.ssl THEN "tls" ELSE "open", !.writing = ~rc.ssl, !.exc = FALSE]
             \/ rc' = [rc EXCEPT !.conn = "open", !.writing = TRUE, !.exc = FALSE]
      BY <1>3 DEF OnConnect, OnSslConnect
    <2>2. /\ rc' \in RcType /\ rc'.conn \in {"tls", "open"} /\ (rc'.writing <=> rc'.conn = "open")
          /\ rc'.proc = rc.proc /\ rc'.obuf = rc.obuf /\ rc'.half = rc.half
          /\ rc'.scan = rc.scan /\ rc'.reading = rc.reading
      BY <1>1, <2>1 DEF RcType
    <2>3. OneAtATime'
      BY <1>1, <2>1, <2>2 DEF RcInv, OneAtATime, AtRest, UnderWay, ToBeSent, AtTheServer
    <2> QED
      BY <1>1, <2>1, <2>2, <2>3, QuietStep
  <1> QED
    BY <1>2, <1>3

LEMMA OnHalfKeeps == ASSUME RcInv, OnHalf PROVE RcInv'
  <1>1. /\ MaxRpc \in Nat /\ rc \in RcType /\ server \in ServerType /\ frames \in Seq(FrameType)
        /\ misuse \subseteq {"late", "cut", "crossed", "crash"}
        /\ rc.conn = "open" /\ rc.reading /\ server.wire # <<>> /\ Head(server.wire)[2] = 1
    BY RpcAssumption DEF RcInv, RcRight, RcTypeOK, OnHalf
  <1>2. Head(server.wire) \in CallIds \X {1, 2} /\ Tail(server.wire) \in Seq(CallIds \X {1, 2})
    BY <1>1 DEF ServerType
  <1>3. Head(server.wire)[1] \in 0 .. MaxRpc
    BY <1>1, <1>2 DEF CallIds
  <1>4. /\ rc' \in RcType /\ rc'.proc = rc.proc /\ rc'.obuf = rc.obuf /\ rc'.half = Head(server.wire)[1]
        /\ rc'.conn = rc.conn /\ rc'.reading = rc.reading /\ rc'.writing = rc.writing
        /\ rc'.scan = rc.scan
    BY <1>1, <1>3 DEF RcType, OnHalf
  <1>5. server' \in ServerType /\ server'.reqs = server.reqs /\ server'.wire = Tail(server.wire)
    BY <1>1, <1>2 DEF ServerType, OnHalf
  <1>6. OneAtATime'
    <2> SUFFICES ASSUME misuse = {}
                 PROVE  IF rc'.proc = 0 THEN AtRest(rc', server') ELSE UnderWay(rc', server')
      BY DEF OneAtATime, OnHalf
    <2>1. IF rc.proc = 0 THEN AtRest(rc, server) ELSE UnderWay(rc, server)
      BY DEF RcInv, OneAtATime
    <2>2. rc.proc # 0 /\ UnderWay(rc, server)
      BY <1>1, <2>1 DEF AtRest
    <2>3. server.wire = <<<<rc.proc, 1>>, <<rc.proc, 2>>>> /\ server.reqs = <<>>
      <3>1. server.wire # <<<<rc.proc, 2>>>>
        BY <1>1, SMTT(30)
      <3> QED
        BY <1>1, <2>2, <3>1, SMTT(30) DEF UnderWay, ToBeSent, AtTheServer
    <2>4. server'.wire = <<<<rc.proc, 2>>>> /\ rc'.half = rc.proc
      BY <1>4, <1>5, <2>3, SMTT(30)
    <2> QED
      BY <1>1, <1>4, <1>5, <2>2, <2>3, <2>4 DEF UnderWay, ToBeSent, AtTheServer
  <1> QED
    BY <1>1, <1>4, <1>5, <1>6, QuietStep DEF OnHalf

LEMMA RcOnOutputKeeps == ASSUME RcInv, RcOnOutput PROVE RcInv'
  <1>1. /\ MaxRpc \in Nat /\ rc \in RcType /\ server \in ServerType /\ rc.conn = "open" /\ rc.writing
        /\ rc.obuf \in Seq(CallIds) /\ server.reqs \in Seq(CallIds) /\ Len(rc.obuf) \in Nat
        /\ rc.reading \in BOOLEAN
    <2>1. MaxRpc \in Nat /\ rc \in RcType /\ server \in ServerType /\ rc.conn = "open" /\ rc.writing
      BY RpcAssumption DEF RcInv, RcRight, RcTypeOK, RcOnOutput
    <2>2. rc.obuf \in Seq(CallIds) /\ server.reqs \in Seq(CallIds) /\ rc.reading \in BOOLEAN
      BY <2>1 DEF RcType, ServerType
    <2> QED
      BY <2>1, <2>2, SMTT(30)
  <1>2. CASE ~server.alive /\ Failed(rc, "event") /\ UNCHANGED server
    BY <1>2, FailureKeeps DEF RcOnOutput
  <1>3. ASSUME NEW n \in 1 .. Len(rc.obuf),
               rc' = [rc EXCEPT !.obuf = SubSeq(@, n + 1, Len(@)), !.writing = n < Len(rc.obuf), !.exc = FALSE,
                                !.reading = @ \/ n = Len(rc.obuf)],
               server' = [server EXCEPT !.reqs = IF server.alive THEN @ \o SubSeq(rc.obuf, 1, n) ELSE @],
               UNCHANGED <<frames, told>>
        PROVE  RcInv'
    <2>0. UNCHANGED <<begun, got, served, misuse>>
      BY DEF RcOnOutput
    <2> DEFINE rest == SubSeq(rc.obuf, n + 1, Len(rc.obuf))
               all == server.reqs \o SubSeq(rc.obuf, 1, n)
    <2>1. rest \in Seq(CallIds) /\ all \in Seq(CallIds)
      BY <1>1
    <2>2. Ordered(rest, all, begun, served) /\ Ordered(rest, server.reqs, begun, served)
      BY <1>1, OrderedSend DEF RcInv, RequestsInOrder
    <2>3. \A k \in CallIds : rc.obuf = <<k>> => n = 1 /\ rest = <<>> /\ (server.reqs = <<>> => all = <<k>>)
      <3> SUFFICES ASSUME NEW k \in CallIds, rc.obuf = <<k>>
                   PROVE  n = 1 /\ rest = <<>> /\ (server.reqs = <<>> => all = <<k>>)
        OBVIOUS
      <3>1. n = 1 /\ Len(rc.obuf) = 1
        OBVIOUS
      <3>2. rest = <<>> /\ SubSeq(rc.obuf, 1, n) = <<k>>
        BY <3>1, OneOnly
      <3>3. <<>> \o <<k>> = <<k>>
        OBVIOUS
      <3> QED
        BY <3>1, <3>2, <3>3
    <2> HIDE DEF rest, all
    <2>4. /\ rc' \in RcType /\ rc'.proc = rc.proc /\ rc'.obuf = rest /\ rc'.half = rc.half
          /\ rc'.conn = rc.conn /\ (rc'.reading <=> rc.reading \/ n = Len(rc.obuf))
          /\ (rc'.writing <=> n < Len(rc.obuf)) /\ rc'.scan = rc.scan
      <3>1. rc' = [rc EXCEPT !.obuf = rest, !.writing = n < Len(rc.obuf), !.exc = FALSE,
                             !.reading = @ \/ n = Len(rc.obuf)]
        BY <1>3 DEF rest
      <3>2. (n < Len(rc.obuf)) \in BOOLEAN /\ (rc.reading \/ n = Len(rc.obuf)) \in BOOLEAN
        BY <1>1
      <3> QED
        BY <1>1, <2>1, <3>1, <3>2 DEF RcType
    <2>5. /\ server' \in ServerType /\ server'.wire = server.wire
          /\ server'.reqs = IF server.alive THEN all ELSE server.reqs
      <3>1. server' = [server EXCEPT !.reqs = IF server.alive THEN all ELSE server.reqs]
        BY <1>1, <1>3 DEF all, ServerType
      <3> QED
        BY <1>1, <2>1, <3>1 DEF ServerType
    <2>6. RcRight'
      BY <1>1, <1>3, <2>0, <2>4, <2>5 DEF RcInv, RcRight, RcTypeOK
    <2>7. NothingAhead' /\ ReplyMatches' /\ ToldOnce' /\ ServedOnce'
      BY <1>3, <2>0, <2>4 DEF RcInv, NothingAhead, ReplyMatches, ToldOnce, ServedOnce
    <2>8. RequestsInOrder'
      BY <2>0, <2>2, <2>4, <2>5 DEF RequestsInOrder
    <2>9. OneAtATime'
      <3> SUFFICES ASSUME misuse = {}
                   PROVE  IF rc'.proc = 0 THEN AtRest(rc', server') ELSE UnderWay(rc', server')
        BY <2>0 DEF OneAtATime
      <3>1. IF rc.proc = 0 THEN AtRest(rc, server) ELSE UnderWay(rc, server)
        BY DEF RcInv, OneAtATime
      <3>2. rc.proc # 0 /\ UnderWay(rc, server) /\ ToBeSent(rc, server)
        BY <1>1, <3>1 DEF AtRest, UnderWay, AtTheServer
      <3>3. rc.proc \in CallIds /\ rc.obuf = <<rc.proc>>
        BY <1>1, <3>2 DEF ToBeSent, RcType, CallIds
      <3>4. /\ n = 1 /\ Len(rc.obuf) = 1 /\ rest = <<>> /\ server'.wire = <<>>
            /\ server'.reqs = <<rc.proc>> \/ server'.reqs = <<>>
        BY <2>3, <2>5, <3>2, <3>3 DEF ToBeSent
      <3>5. AtTheServer(rc', server')
        BY <1>1, <2>4, <3>2, <3>4 DEF ToBeSent, AtTheServer
      <3> QED
        BY <1>1, <2>4, <3>2, <3>5 DEF UnderWay
    <2> QED
      BY <2>6, <2>7, <2>8, <2>9, SMTT(30) DEF RcInv
  <1> QED
    BY <1>2, <1>3 DEF RcOnOutput

LEMMA OnReplyKeeps == ASSUME RcInv, OnReply PROVE RcInv'
  <1>1. /\ MaxRpc \in Nat /\ rc \in RcType /\ server \in ServerType /\ frames \in Seq(FrameType)
        /\ rc.conn = "open" /\ rc.reading /\ server.wire # <<>> /\ Head(server.wire)[2] = 2
        /\ Head(server.wire)[1] = rc.half /\ misuse \subseteq {"late", "cut", "crossed", "crash"}
        /\ rc.scan \in 0 .. MaxRpc /\ rc.proc \in 0 .. MaxRpc /\ 0 \in 0 .. MaxRpc
        /\ told \in [CallIds -> Nat] /\ got \in [CallIds -> 0 .. MaxRpc] /\ begun \in 0 .. MaxRpc
        /\ served \in [CallIds -> Nat]
    BY RpcAssumption DEF RcInv, RcRight, RcTypeOK, RcType, OnReply
  <1>2. Head(server.wire) \in CallIds \X {1, 2} /\ Tail(server.wire) \in Seq(CallIds \X {1, 2})
    BY <1>1 DEF ServerType
  <1>3. rc.half \in 1 .. MaxRpc
    BY <1>1, <1>2 DEF CallIds
  <1>4. /\ rc' \in RcType /\ rc'.proc = 0 /\ rc'.obuf = rc.obuf /\ rc'.half = 0
        /\ rc'.conn = "open" /\ ~rc'.reading /\ rc'.writing = rc.writing
    BY <1>1 DEF RcType, OnReply
  <1>5. server' \in ServerType /\ server'.reqs = server.reqs /\ server'.wire = Tail(server.wire)
    BY <1>1, <1>2 DEF ServerType, OnReply
  <1>6. UNCHANGED <<begun, served>>
    BY DEF OnReply
  <1>7. CASE rc.proc = 0
    <2>1. misuse' = misuse \cup {"crash"} /\ UNCHANGED <<got, told, frames>>
      BY <1>7 DEF OnReply
    <2>2. OneAtATime'
      BY <2>1 DEF OneAtATime
    <2> QED
      BY <1>1, <1>4, <1>5, <1>6, <1>7, <2>1, <2>2, QuietStep
  <1>8. CASE rc.proc # 0
    <2>1. /\ got' = [got EXCEPT ![rc.scan] = rc.half]
          /\ told' = [told EXCEPT ![rc.proc] = @ + 1]
          /\ frames' = <<[from |-> "event", id |-> rc.proc]>>
          /\ misuse' = misuse
      BY <1>8 DEF OnReply
    <2>2. rc.proc \in CallIds
      BY <1>1, <1>8 DEF CallIds
    <2>3. /\ told' \in [CallIds -> Nat] /\ got' \in [CallIds -> 0 .. MaxRpc]
          /\ told'[rc.proc] = told[rc.proc] + 1
          /\ \A c \in CallIds : c # rc.proc => told'[c] = told[c]
          /\ \A c \in CallIds : got'[c] = IF c = rc.scan THEN rc.half ELSE got[c]
      <3>1. /\ told' \in [CallIds -> Nat] /\ told'[rc.proc] = told[rc.proc] + 1
            /\ \A c \in CallIds : c # rc.proc => told'[c] = told[c]
        BY <1>1, <2>1, <2>2
      <3>2. rc.half \in 0 .. MaxRpc
        BY <1>1, <1>3
      <3>3. /\ got' \in [CallIds -> 0 .. MaxRpc]
            /\ \A c \in CallIds : got'[c] = IF c = rc.scan THEN rc.half ELSE got[c]
        BY <1>1, <2>1, <3>2
      <3> QED
        BY <3>1, <3>3
    <2>4. [from |-> "event", id |-> rc.proc] \in FrameType
      BY <2>2 DEF FrameType
    <2>5. RcRight'
      <3>1. frames' \in Seq(FrameType)
        BY <2>1, <2>4
      <3> QED
        BY <1>1, <1>4, <1>5, <1>6, <2>1, <2>3, <3>1, SMTT(30) DEF RcInv, RcRight, RcTypeOK
    <2>6. NothingAhead'
      <3> SUFFICES ASSUME NEW c \in CallIds, c > begun PROVE told'[c] = 0 /\ served[c] = 0
        BY <1>6 DEF NothingAhead
      <3>1. rc.proc <= begun
        BY DEF RcInv, RcRight
      <3>2. c # rc.proc
        BY <1>1, <3>1 DEF CallIds
      <3> QED
        BY <2>3, <3>2 DEF RcInv, NothingAhead
    <2>7. RequestsInOrder'
      BY <1>4, <1>5, <1>6 DEF RcInv, RequestsInOrder
    <2>8. misuse = {} => /\ UnderWay(rc, server) /\ server.wire = <<<<rc.proc, 2>>>> /\ server.reqs = <<>>
                         /\ rc.half = rc.proc /\ rc.obuf = <<>> /\ ~rc.writing
      <3> SUFFICES ASSUME misuse = {}
                   PROVE  /\ UnderWay(rc, server) /\ server.wire = <<<<rc.proc, 2>>>> /\ server.reqs = <<>>
                          /\ rc.half = rc.proc /\ rc.obuf = <<>> /\ ~rc.writing
        OBVIOUS
      <3>1. UnderWay(rc, server)
        BY <1>8 DEF RcInv, OneAtATime
      <3>2. server.wire # <<<<rc.proc, 1>>, <<rc.proc, 2>>>>
        BY <1>1
      <3> QED
        BY <1>1, <3>1, <3>2 DEF UnderWay, ToBeSent, AtTheServer
    <2>9. OneAtATime'
      <3> SUFFICES ASSUME misuse = {} PROVE AtRest(rc', server')
        BY <1>4, <2>1 DEF OneAtATime
      <3>1. server'.wire = <<>>
        BY <1>5, <2>8, OneOnly
      <3> QED
        BY <1>4, <1>5, <2>8, <3>1 DEF AtRest
    <2>10. ReplyMatches'
      <3> SUFFICES ASSUME misuse = {}, NEW c \in CallIds PROVE got'[c] \in {0, c}
        BY <2>1 DEF ReplyMatches
      <3>1. got[c] \in {0, c}
        BY DEF RcInv, ReplyMatches
      <3> QED
        BY <2>3, <2>8, <3>1 DEF UnderWay
    <2>11. ToldOnce'
      <3>1. told[rc.proc] = 0 /\ \A c \in CallIds : told[c] <= 1
        BY <1>8 DEF RcInv, ToldOnce
      <3>2. \A c \in CallIds : told'[c] <= 1
        BY <2>2, <2>3, <3>1
      <3> QED
        BY <1>4, <3>2 DEF ToldOnce
    <2>12. ServedOnce'
      <3> SUFFICES ASSUME NEW c \in CallIds
                   PROVE  served[c] <= IF told'[c] > 0 \/ rc'.proc = c THEN 1 ELSE 2
        BY <1>6 DEF ServedOnce
      <3>1. served[c] <= IF told[c] > 0 \/ rc.proc = c THEN 1 ELSE 2
        BY DEF RcInv, ServedOnce
      <3>2. served[c] \in Nat /\ told[c] \in Nat /\ c # 0
        BY <1>1 DEF CallIds
      <3> QED
        BY <1>4, <2>3, <3>1, <3>2
    <2> QED
      BY <2>5, <2>6, <2>7, <2>9, <2>10, <2>11, <2>12 DEF RcInv
  <1> QED
    BY <1>7, <1>8

LEMMA ServerCloseKeeps == ASSUME RcInv, ServerCloses PROVE RcInv'
  <1>1. /\ rc \in RcType /\ server \in ServerType /\ frames \in Seq(FrameType)
        /\ rc.reading \/ rc.writing => rc.conn \in {"tls", "open"}
        /\ misuse \subseteq {"late", "cut", "crossed", "crash"}
    BY DEF RcInv, RcRight, RcTypeOK
  <1>2. /\ UNCHANGED <<rc, frames, begun, told, got, served, misuse>>
        /\ server' \in ServerType /\ server'.reqs = server.reqs /\ server'.wire = server.wire
    BY <1>1 DEF ServerCloses, ServerType
  <1>3. OneAtATime'
    BY <1>2 DEF RcInv, OneAtATime, AtRest, UnderWay, ToBeSent, AtTheServer
  <1> QED
    BY <1>1, <1>2, <1>3, QuietStep

LEMMA ServeKeeps == ASSUME RcInv, Serve PROVE RcInv'
  <1>1. /\ MaxRpc \in Nat /\ rc \in RcType /\ server \in ServerType /\ rc.conn = "open"
        /\ server.reqs # <<>> /\ server.reqs \in Seq(CallIds) /\ rc.obuf \in Seq(CallIds)
        /\ server.wire \in Seq(CallIds \X {1, 2})
        /\ served \in [CallIds -> Nat] /\ UNCHANGED <<rc, frames, begun, told, got, misuse>>
    BY RpcAssumption DEF RcInv, RcRight, RcTypeOK, RcType, ServerType, Serve
  <1> DEFINE c == Head(server.reqs)
             reply == <<<<c, 1>>, <<c, 2>>>>
  <1>2. c = server.reqs[1] /\ c \in CallIds /\ Tail(server.reqs) \in Seq(CallIds) /\ 1 \in 1 .. Len(server.reqs)
    BY <1>1
  <1>3. server.wire \o reply \in Seq(CallIds \X {1, 2})
    BY <1>1, <1>2
  <1>4. served' = [served EXCEPT ![c] = @ + 1]
    BY DEF Serve
  <1>5. /\ server' \in ServerType /\ server'.reqs = Tail(server.reqs)
        /\ server'.wire = server.wire \o reply
    <2>1. server' = [server EXCEPT !.reqs = Tail(@), !.wire = @ \o reply]
      BY DEF Serve
    <2> HIDE DEF reply
    <2> QED
      BY <1>1, <1>2, <1>3, <2>1 DEF ServerType
  <1>6. c <= begun /\ served[c] = 0
    BY <1>2 DEF RcInv, RequestsInOrder, Ordered, Unserved
  <1>7. /\ served' \in [CallIds -> Nat] /\ served'[c] = 1
        /\ \A k \in CallIds : k # c => served'[k] = served[k]
    BY <1>1, <1>2, <1>4, <1>6
  <1>8. RcRight'
    BY <1>1, <1>5, <1>7 DEF RcInv, RcRight, RcTypeOK
  <1>9. NothingAhead'
    <2> SUFFICES ASSUME NEW k \in CallIds, k > begun PROVE told[k] = 0 /\ served'[k] = 0
      BY <1>1 DEF NothingAhead
    <2>1. k # c
      BY <1>1, <1>6 DEF CallIds, RcInv, RcRight
    <2> QED
      BY <1>7, <2>1 DEF RcInv, NothingAhead
  <1>10. RequestsInOrder'
    <2>1. Ordered(rc.obuf, Tail(server.reqs), begun, served')
      BY <1>1, <1>4, OrderedServe DEF RcInv, RequestsInOrder
    <2> QED
      BY <1>1, <1>5, <2>1 DEF RequestsInOrder
  <1>11. OneAtATime'
    <2> SUFFICES ASSUME misuse = {}
                 PROVE  IF rc'.proc = 0 THEN AtRest(rc', server') ELSE UnderWay(rc', server')
      BY <1>1 DEF OneAtATime
    <2>1. IF rc.proc = 0 THEN AtRest(rc, server) ELSE UnderWay(rc, server)
      BY DEF RcInv, OneAtATime
    <2>2. rc.proc # 0 /\ UnderWay(rc, server)
      BY <1>1, <2>1 DEF AtRest
    <2>3. AtTheServer(rc, server) /\ server.reqs = <<rc.proc>> /\ server.wire = <<>> /\ rc.half = 0
      BY <1>1, <2>2 DEF UnderWay, ToBeSent, AtTheServer
    <2>4. server'.reqs = <<>> /\ server'.wire = <<<<rc.proc, 1>>, <<rc.proc, 2>>>>
      BY <1>5, <2>3
    <2> QED
      BY <1>1, <2>2, <2>3, <2>4 DEF UnderWay, AtTheServer
  <1>12. ReplyMatches' /\ ToldOnce'
    BY <1>1 DEF RcInv, ReplyMatches, ToldOnce
  <1>13. ServedOnce'
    <2> SUFFICES ASSUME NEW k \in CallIds
                 PROVE  served'[k] <= IF told[k] > 0 \/ rc.proc = k THEN 1 ELSE 2
      BY <1>1 DEF ServedOnce
    <2>1. served[k] <= IF told[k] > 0 \/ rc.proc = k THEN 1 ELSE 2
      BY DEF RcInv, ServedOnce
    <2> QED
      BY <1>7, <2>1
  <1> QED
    BY <1>8, <1>9, <1>10, <1>11, <1>12, <1>13 DEF RcInv

LEMMA NextRc == RcInv /\ [RcNext]_rcVars => RcInv'
  <1> SUFFICES ASSUME RcInv, [RcNext]_rcVars PROVE RcInv'
    OBVIOUS
  <1>1. CASE OnInputFails
    BY <1>1, FailureKeeps DEF OnInputFails
  <1>2. CASE UNCHANGED rcVars
    BY <1>2 DEF rcVars, RcInv, RcRight, RcTypeOK, NothingAhead, RequestsInOrder, OneAtATime,
                ReplyMatches, ToldOnce, ServedOnce
  <1> QED
    BY <1>1, <1>2, BeginCallKeeps, EndCallKeeps, CancelCallKeeps, CloseClientKeeps, CallKeeps,
       HandlerReturnsKeeps, ConnectKeeps, RcOnOutputKeeps, OnHalfKeeps, OnReplyKeeps, ServeKeeps,
       ServerCloseKeeps
    DEF RcNext

-----------------------------------------------------------------------------
(* The theorems.                                                           *)

\* Replies are not mixed up and requests are executed once because at most one
\* call is on its way, in one place, and requests keep the order of the calls.
THEOREM ClientInvariant == RcSpec => []RcInv
  <1>1. RcInit => RcInv
    <2> SUFFICES ASSUME RcInit PROVE RcInv
      OBVIOUS
    <2>1. MaxRpc \in Nat /\ <<>> \in Seq(CallIds) /\ <<>> \in Seq(FrameType)
      BY RpcAssumption
    <2>2. /\ rc \in RcType /\ rc.conn = "closed" /\ ~rc.reading /\ ~rc.writing /\ rc.proc = 0
          /\ rc.half = 0 /\ rc.obuf = <<>>
      <3>1. 0 \in 0 .. MaxRpc
        BY <2>1
      <3> QED
        BY <2>1, <3>1 DEF RcInit, RcType
    <2>3. server \in ServerType /\ server.reqs = <<>>
      BY DEF RcInit, NewServer, ServerType
    <2>4. RcRight
      BY <2>1, <2>2, <2>3 DEF RcInit, RcRight, RcTypeOK
    <2>5. RequestsInOrder
      BY <2>2, <2>3 DEF RequestsInOrder, Ordered, Rising, Before, Unserved
    <2>6. OneAtATime
      BY <2>2 DEF OneAtATime, AtRest
    <2> QED
      BY <2>2, <2>4, <2>5, <2>6
      DEF RcInit, RcInv, NothingAhead, ReplyMatches, ToldOnce, ServedOnce
  <1> QED
    BY <1>1, NextRc, PTL DEF RcSpec

\* For any number of calls: a result is the reply to its own call, a call is told
\* of its end once, has an operation of the socket under way until then, and
\* leaves nothing to the next one.
THEOREM CallsAreSound == RcSpec => []CallsSound
  <1>1. RcInv => CallsSound
    <2> SUFFICES ASSUME RcInv PROVE CallsSound
      OBVIOUS
    <2>1. misuse = {} => IF rc.proc = 0 THEN AtRest(rc, server) ELSE UnderWay(rc, server)
      BY DEF RcInv, OneAtATime
    <2>2. rc.conn \in {"closed", "connecting", "tls", "open"}
      BY DEF RcInv, RcRight, RcTypeOK, RcType
    <2>3. CallHasOperation
      BY <2>1, <2>2 DEF CallHasOperation, UnderWay, ToBeSent, AtTheServer
    <2>4. IdleIsClean
      BY <2>1 DEF IdleIsClean, AtRest
    <2> QED
      BY <2>3, <2>4 DEF RcInv, RcRight, CallsSound
  <1> QED
    BY <1>1, ClientInvariant, PTL

(***************************************************************************)
(* BufferedSocket                                                          *)
(***************************************************************************)

-----------------------------------------------------------------------------
(* The inductive invariant.                                                *)

Chars == 1 .. MaxPut

\* g bytes were put, w of them are at the kernel; of the first buffer o the
\* pending write has written a, and the second buffer x follows: each byte is at its place.
EachInPlace(w, o, a, x, g) ==
  /\ Len(w) + (Len(o) - a) + Len(x) = g
  /\ \A i \in 1 .. Len(w) : w[i] = i
  /\ \A i \in 1 .. Len(o) : i > a => o[i] = Len(w) + i - a
  /\ \A i \in 1 .. Len(x) : x[i] = Len(w) + (Len(o) - a) + i

BufferRight ==
  /\ sock \in SockType /\ window \in 0 .. Window /\ phase \in {"none", "written", "empty"}
  /\ onwire \in Seq(Chars) /\ given \in 0 .. MaxPut
  /\ sock.avail <= sock.len

WriteFits == harm = {} => sock.len <= Len(sock.out)

InPlace == Usable => EachInPlace(onwire, sock.out, sock.avail, sock.next, given)

BuffersInv == BufferRight /\ WriteFits /\ PendingStays /\ InPlace /\ NextHasWriter

-----------------------------------------------------------------------------
(* Bytes that move from one place to the next.                             *)

\* A position behind u places is one of the x places that follow.
LEMMA BehindIsWithin ==
  ASSUME NEW u \in Nat, NEW x \in Nat, NEW i \in 1 .. u + x, i > u
  PROVE  i - u \in 1 .. x /\ ~(i <= u)
  OBVIOUS

LEMMA FirstFacts ==
  ASSUME NEW s \in Seq(Chars), NEW n \in 0 .. Len(s)
  PROVE  /\ FirstOf(s, n) \in Seq(Chars) /\ Len(FirstOf(s, n)) = n
         /\ \A i \in 1 .. n : FirstOf(s, n)[i] = s[i]
  BY DEF FirstOf

LEMMA RestFacts ==
  ASSUME NEW s \in Seq(Chars), NEW n \in 0 .. Len(s)
  PROVE  /\ Rest(s, n) \in Seq(Chars) /\ Len(Rest(s, n)) = Len(s) - n
         /\ \A i \in 1 .. Len(s) - n : Rest(s, n)[i] = s[n + i]
  BY DEF Rest

LEMMA JoinFacts ==
  ASSUME NEW s \in Seq(Chars), NEW t \in Seq(Chars)
  PROVE  /\ s \o t \in Seq(Chars) /\ Len(s \o t) = Len(s) + Len(t)
         /\ \A i \in 1 .. Len(s) : (s \o t)[i] = s[i]
         /\ \A i \in 1 .. Len(t) : (s \o t)[Len(s) + i] = t[i]
         /\ \A i \in 1 .. Len(s) + Len(t) : (s \o t)[i] = IF i <= Len(s) THEN s[i] ELSE t[i - Len(s)]
  OBVIOUS

\* The kernel takes k bytes of the first buffer, which stay until the write ends.
LEMMA KernelTakes ==
  ASSUME NEW w \in Seq(Chars), NEW o \in Seq(Chars), NEW x \in Seq(Chars), NEW g \in Nat,
         EachInPlace(w, o, 0, x, g), NEW k \in 0 .. Len(o)
  PROVE  /\ w \o FirstOf(o, k) \in Seq(Chars)
         /\ EachInPlace(w \o FirstOf(o, k), o, k, x, g)
  <1> DEFINE f == FirstOf(o, k)
  <1>1. f \in Seq(Chars) /\ Len(f) = k /\ \A i \in 1 .. k : f[i] = o[i]
    BY FirstFacts
  <1> HIDE DEF f
  <1>2. /\ w \o f \in Seq(Chars) /\ Len(w \o f) = Len(w) + k
        /\ \A i \in 1 .. Len(w) + k : (w \o f)[i] = IF i <= Len(w) THEN w[i] ELSE f[i - Len(w)]
    BY <1>1, JoinFacts
  <1>0. /\ Len(w) \in Nat /\ Len(o) \in Nat /\ Len(x) \in Nat /\ k \in Nat
        /\ Len(w) + Len(o) + Len(x) = g
    BY DEF EachInPlace
  <1>3. /\ \A i \in 1 .. Len(w) : w[i] = i
        /\ \A i \in 1 .. Len(o) : i > 0 => o[i] = Len(w) + i
        /\ \A i \in 1 .. Len(x) : x[i] = Len(w) + Len(o) + i
    BY <1>0 DEF EachInPlace
  <1>4. ASSUME NEW i \in 1 .. Len(w) + k
        PROVE  (w \o f)[i] = i
    <2>0. i \in Nat /\ i >= 1 /\ i <= Len(w) + k
      BY <1>0
    <2>1. CASE i <= Len(w)
      BY <1>2, <1>3, <2>0, <2>1
    <2>2. CASE i > Len(w)
      <3>1. i - Len(w) \in 1 .. k /\ i - Len(w) \in 1 .. Len(o) /\ i - Len(w) > 0
        BY <1>0, <2>0, <2>2
      <3>2. (w \o f)[i] = o[i - Len(w)]
        BY <1>0, <1>1, <1>2, <2>2, <3>1
      <3>3. o[i - Len(w)] = Len(w) + (i - Len(w))
        BY <1>3, <3>1
      <3>4. Len(w) + (i - Len(w)) = i
        BY <1>0, <2>0
      <3> QED
        BY <3>2, <3>3, <3>4
    <2>3. i <= Len(w) \/ i > Len(w)
      BY <1>0, <2>0
    <2> QED
      BY <2>1, <2>2, <2>3, Zenon
  <1>l. Len(w \o f) = Len(w) + k
    BY <1>2
  <1>5. ASSUME NEW i \in 1 .. Len(o), i > k
        PROVE  o[i] = Len(w \o f) + i - k
    <2>1. o[i] = Len(w) + i
      BY <1>0, <1>3, <1>5
    <2> QED
      BY <1>0, <1>l, <2>1
  <1>6. ASSUME NEW i \in 1 .. Len(x)
        PROVE  x[i] = Len(w \o f) + (Len(o) - k) + i
    <2>1. x[i] = Len(w) + Len(o) + i
      BY <1>3
    <2> QED
      BY <1>0, <1>l, <2>1
  <1>7. Len(w \o f) + (Len(o) - k) + Len(x) = g
    BY <1>0, <1>l
  <1>8. EachInPlace(w \o f, o, k, x, g)
    BY <1>2, <1>4, <1>5, <1>6, <1>7 DEF EachInPlace
  <1> QED
    BY <1>2, <1>8 DEF f

\* What was written is erased from the first buffer.
LEMMA WrittenErased ==
  ASSUME NEW w \in Seq(Chars), NEW o \in Seq(Chars), NEW x \in Seq(Chars), NEW g \in Nat,
         NEW a \in 0 .. Len(o), EachInPlace(w, o, a, x, g)
  PROVE  EachInPlace(w, Rest(o, a), 0, x, g)
  <1> DEFINE r == Rest(o, a)
  <1>1. r \in Seq(Chars) /\ Len(r) = Len(o) - a /\ \A i \in 1 .. Len(o) - a : r[i] = o[a + i]
    BY RestFacts
  <1> HIDE DEF r
  <1>2. EachInPlace(w, r, 0, x, g)
    BY <1>1 DEF EachInPlace
  <1> QED
    BY <1>2 DEF r

\* The second buffer goes behind the first.
LEMMA BuffersJoin ==
  ASSUME NEW w \in Seq(Chars), NEW o \in Seq(Chars), NEW x \in Seq(Chars), NEW g \in Nat,
         EachInPlace(w, o, 0, x, g)
  PROVE  o \o x \in Seq(Chars) /\ EachInPlace(w, o \o x, 0, <<>>, g)
  <1> DEFINE j == o \o x
  <1>1. /\ j \in Seq(Chars) /\ Len(j) = Len(o) + Len(x)
        /\ \A i \in 1 .. Len(o) + Len(x) : j[i] = IF i <= Len(o) THEN o[i] ELSE x[i - Len(o)]
    BY JoinFacts
  <1> HIDE DEF j
  <1>0. /\ Len(w) \in Nat /\ Len(o) \in Nat /\ Len(x) \in Nat
        /\ Len(w) + Len(o) + Len(x) = g
    BY DEF EachInPlace
  <1>2. /\ \A i \in 1 .. Len(w) : w[i] = i
        /\ \A i \in 1 .. Len(o) : i > 0 => o[i] = Len(w) + i
        /\ \A i \in 1 .. Len(x) : x[i] = Len(w) + Len(o) + i
    BY <1>0 DEF EachInPlace
  <1>3. ASSUME NEW i \in 1 .. Len(o) + Len(x)
        PROVE  j[i] = Len(w) + i
    <2>0. i \in Nat /\ i >= 1 /\ i <= Len(o) + Len(x)
      BY <1>0
    <2>1. CASE i <= Len(o)
      <3>1. i \in 1 .. Len(o) /\ i > 0 /\ j[i] = o[i]
        BY <1>0, <1>1, <2>0, <2>1
      <3> QED
        BY <1>2, <3>1
    <2>2. CASE i > Len(o)
      <3>1. i - Len(o) \in 1 .. Len(x) /\ j[i] = x[i - Len(o)]
        BY <1>0, <1>1, <2>0, <2>2
      <3>2. x[i - Len(o)] = Len(w) + Len(o) + (i - Len(o))
        BY <1>2, <3>1
      <3>3. Len(w) + Len(o) + (i - Len(o)) = Len(w) + i
        BY <1>0, <2>0
      <3> QED
        BY <3>1, <3>2, <3>3
    <2> QED
      BY <1>0, <2>0, <2>1, <2>2
  <1>4. Len(<<>>) = 0 /\ 1 .. 0 = {}
    OBVIOUS
  <1>5. EachInPlace(w, j, 0, <<>>, g)
    <2>1. Len(j) = Len(o) + Len(x) /\ Len(w) + (Len(j) - 0) + 0 = g
      BY <1>0, <1>1
    <2>2. \A i \in 1 .. Len(j) : j[i] = Len(w) + i - 0
      BY <1>0, <1>3, <2>1
    <2> QED
      BY <1>0, <1>2, <1>4, <2>1, <2>2 DEF EachInPlace
  <1> QED
    BY <1>1, <1>5 DEF j

\* beginWrite() of buffers that are in place.
LEMMA BeginsFacts ==
  ASSUME BufferRight, NEW d \in SockType, d.avail = 0 \/ d.len > 0, d.avail <= d.len,
         d.len <= Len(d.out), d.broken = sock.broken,
         EachInPlace(onwire, d.out, d.avail, d.next, given), Begins(d)
  PROVE  /\ sock' \in SockType /\ window' \in 0 .. Window /\ onwire' \in Seq(Chars)
         /\ sock'.avail <= sock'.len /\ sock'.len <= Len(sock'.out)
         /\ sock'.out = d.out /\ sock'.next = d.next /\ sock'.deleted = d.deleted /\ sock'.broken = d.broken
         /\ sock'.len = (IF d.len > 0 THEN d.len ELSE Len(d.out))
         /\ EachInPlace(onwire', sock'.out, sock'.avail, sock'.next, given)
  <1>1. CASE d.len > 0 \/ d.out = <<>>
    <2>1. sock' = d /\ UNCHANGED <<window, onwire>>
      BY <1>1 DEF Begins
    <2>2. window \in 0 .. Window /\ onwire \in Seq(Chars)
      BY DEF BufferRight
    <2>3. d.len = (IF d.len > 0 THEN d.len ELSE Len(d.out))
      <3>1. d.out = <<>> => Len(d.out) = 0
        OBVIOUS
      <3> QED
        BY <1>1, <3>1 DEF SockType
    <2> QED
      BY <2>1, <2>2, <2>3
  <1>2. CASE ~(d.len > 0 \/ d.out = <<>>)
    <2>1. PICK k \in Taken(Len(d.out)) :
            /\ sock' = [d EXCEPT !.len = Len(d.out), !.avail = k]
            /\ onwire' = onwire \o FirstOf(d.out, k) /\ window' = window - k
      BY <1>2 DEF Begins
    <2>2. d.out \in Seq(Chars) /\ d.next \in Seq(Chars) /\ Len(d.out) \in Nat /\ window \in Nat /\ Window \in Nat
      BY BufferAssumption DEF SockType, Chars, BufferRight
    <2>3. k \in 0 .. Len(d.out) /\ k <= window
      BY <2>2 DEF Taken, Least
    <2>4. d.avail = 0 /\ d.len = 0
      BY <1>2 DEF SockType
    <2>5. /\ onwire' \in Seq(Chars) /\ EachInPlace(onwire', d.out, k, d.next, given)
      <3>1. EachInPlace(onwire, d.out, 0, d.next, given) /\ onwire \in Seq(Chars) /\ given \in Nat
        BY <2>4 DEF BufferRight
      <3> QED
        BY <2>1, <2>2, <2>3, <3>1, KernelTakes
    <2>6. window' \in 0 .. Window
      BY <2>1, <2>2, <2>3 DEF BufferRight
    <2>7. /\ sock' \in SockType /\ sock'.avail = k /\ sock'.len = Len(d.out) /\ sock'.out = d.out
          /\ sock'.next = d.next /\ sock'.deleted = d.deleted /\ sock'.broken = d.broken
      <3>1. sock' = [d EXCEPT !.len = Len(d.out), !.avail = k] /\ k \in Nat
        BY <2>1, <2>2, <2>3
      <3> QED
        BY <2>2, <3>1 DEF SockType
    <2> QED
      BY <2>2, <2>3, <2>4, <2>5, <2>6, <2>7
  <1> QED
    BY <1>1, <1>2

-----------------------------------------------------------------------------
(* The actions.                                                            *)

LEMMA BufferFacts ==
  ASSUME BuffersInv
  PROVE  /\ sock.out \in Seq(Chars) /\ sock.next \in Seq(Chars) /\ onwire \in Seq(Chars)
         /\ sock.len \in Nat /\ sock.avail \in Nat /\ sock.avail <= sock.len
         /\ given \in Nat /\ MaxPut \in Nat /\ window \in Nat /\ Window \in Nat
         /\ Usable => /\ sock.len <= Len(sock.out) /\ ~sock.deleted /\ harm = {}
                      /\ EachInPlace(onwire, sock.out, sock.avail, sock.next, given)
                      /\ Pending => sock.len = Len(sock.out)
                      /\ ~Pending => sock.avail = 0
  BY BufferAssumption
  DEF BuffersInv, BufferRight, WriteFits, PendingStays, InPlace, SockType, Chars, Usable, Pending

LEMMA PutByteKeeps ==
  ASSUME BuffersInv, PutByte
  PROVE  BuffersInv'
  <1>1. /\ Usable /\ given' = given + 1 /\ given < MaxPut
        /\ sock' = IF Pending THEN [sock EXCEPT !.next = Append(@, given + 1)]
                   ELSE [sock EXCEPT !.out = Append(@, given + 1)]
        /\ harm' = IF ~Pending /\ sock.next # <<>> THEN harm \cup {"swapped"} ELSE harm
        /\ UNCHANGED <<phase, window, onwire>>
    BY DEF PutByte
  <1>2. given + 1 \in Chars /\ given' \in 0 .. MaxPut
    BY <1>1, BufferFacts DEF Chars
  <1>3. CASE Pending
    <2> DEFINE x == Append(sock.next, given + 1)
    <2>1. x \in Seq(Chars) /\ Len(x) = Len(sock.next) + 1 /\ x[Len(sock.next) + 1] = given + 1
          /\ \A i \in 1 .. Len(sock.next) : x[i] = sock.next[i]
      BY <1>2, BufferFacts
    <2> HIDE DEF x
    <2>2. EachInPlace(onwire, sock.out, sock.avail, x, given + 1)
      <3>1. EachInPlace(onwire, sock.out, sock.avail, sock.next, given) /\ sock.avail \in 0 .. Len(sock.out)
        BY <1>1, BufferFacts
      <3>2. Len(onwire) \in Nat /\ Len(sock.out) \in Nat /\ Len(sock.next) \in Nat /\ given \in Nat
        BY BufferFacts
      <3> QED
        <4>1. /\ Len(onwire) + (Len(sock.out) - sock.avail) + Len(sock.next) = given
              /\ \A i \in 1 .. Len(onwire) : onwire[i] = i
              /\ \A i \in 1 .. Len(sock.out) : i > sock.avail => sock.out[i] = Len(onwire) + i - sock.avail
              /\ \A i \in 1 .. Len(sock.next) : sock.next[i] = Len(onwire) + (Len(sock.out) - sock.avail) + i
          BY <3>1 DEF EachInPlace
        <4>a. Len(onwire) + (Len(sock.out) - sock.avail) + (Len(sock.next) + 1) = given + 1
          <5> DEFINE w == Len(onwire)
                     o == Len(sock.out)
                     n == Len(sock.next)
                     a == sock.avail
          <5>1. w \in Nat /\ o \in Nat /\ n \in Nat /\ a \in 0 .. o /\ w + (o - a) + n = given
            BY <3>1, <3>2, <4>1
          <5> HIDE DEF w, o, n, a
          <5>2. w + (o - a) + (n + 1) = given + 1
            BY <5>1
          <5> QED
            BY <5>2 DEF w, o, n, a
        <4>2. ASSUME NEW i \in 1 .. Len(x)
              PROVE  x[i] = Len(onwire) + (Len(sock.out) - sock.avail) + i
          <5>1. CASE i \in 1 .. Len(sock.next)
            BY <2>1, <4>1, <5>1
          <5>2. CASE i = Len(sock.next) + 1
            <6>1. x[i] = given + 1
              BY <2>1, <5>2
            <6>2. Len(onwire) + (Len(sock.out) - sock.avail) + i = given + 1
              <7>1. Len(sock.next) + 1 = i
                BY <5>2
              <7> QED
                BY <4>a, <7>1
            <6> QED
              BY <6>1, <6>2
          <5>3. i \in 1 .. Len(sock.next) \/ i = Len(sock.next) + 1
            BY <2>1, <3>2
          <5> QED
            BY <5>1, <5>2, <5>3, Zenon
        <4>3. Len(onwire) + (Len(sock.out) - sock.avail) + Len(x) = given + 1
          BY <2>1, <4>a
        <4> QED
          BY <4>1, <4>2, <4>3, Zenon DEF EachInPlace
    <2>3. /\ sock' \in SockType /\ sock'.out = sock.out /\ sock'.next = x /\ sock'.len = sock.len
          /\ sock'.avail = sock.avail /\ sock'.deleted = sock.deleted /\ sock'.broken = sock.broken
      BY <1>1, <1>3, <2>1 DEF BuffersInv, BufferRight, SockType, Chars, x
    <2> QED
      BY <1>1, <1>2, <1>3, <2>2, <2>3, BufferFacts
      DEF BuffersInv, BufferRight, WriteFits, PendingStays, InPlace, NextHasWriter, Usable, Pending
  <1>4. CASE ~Pending
    <2> DEFINE o == Append(sock.out, given + 1)
    <2>1. o \in Seq(Chars) /\ Len(o) = Len(sock.out) + 1 /\ o[Len(sock.out) + 1] = given + 1
          /\ \A i \in 1 .. Len(sock.out) : o[i] = sock.out[i]
      BY <1>2, BufferFacts
    <2> HIDE DEF o
    <2>2. sock.next = <<>> => EachInPlace(onwire, o, sock.avail, sock.next, given + 1)
      <3>1. EachInPlace(onwire, sock.out, 0, sock.next, given) /\ sock.avail = 0
        BY <1>1, <1>4, BufferFacts
      <3>2. Len(onwire) \in Nat /\ Len(sock.out) \in Nat /\ Len(sock.next) \in Nat /\ given \in Nat
        BY BufferFacts
      <3>3. sock.next = <<>> => Len(sock.next) = 0
        OBVIOUS
      <3> QED
        <4> SUFFICES ASSUME sock.next = <<>>
                     PROVE  EachInPlace(onwire, o, 0, sock.next, given + 1)
          BY <3>1
        <4>1. /\ Len(onwire) + Len(sock.out) = given /\ Len(sock.next) = 0
              /\ \A i \in 1 .. Len(onwire) : onwire[i] = i
              /\ \A i \in 1 .. Len(sock.out) : sock.out[i] = Len(onwire) + i
          BY <3>1, <3>2, <3>3 DEF EachInPlace
        <4>2. ASSUME NEW i \in 1 .. Len(o)
              PROVE  o[i] = Len(onwire) + i
          <5>1. CASE i \in 1 .. Len(sock.out)
            BY <2>1, <4>1, <5>1
          <5>2. CASE i = Len(sock.out) + 1
            <6>1. o[i] = given + 1
              BY <2>1, <5>2
            <6>2. Len(onwire) + (Len(sock.out) + 1) = given + 1
              <7> DEFINE w == Len(onwire)
                         n == Len(sock.out)
              <7>1. w \in Nat /\ n \in Nat /\ w + n = given
                BY <3>2, <4>1
              <7> HIDE DEF w, n
              <7>2. w + (n + 1) = given + 1
                BY <7>1
              <7> QED
                BY <7>2 DEF w, n
            <6> QED
              BY <5>2, <6>1, <6>2
          <5>3. i \in 1 .. Len(sock.out) \/ i = Len(sock.out) + 1
            BY <2>1, <3>2
          <5> QED
            BY <5>1, <5>2, <5>3, Zenon
        <4> QED
          BY <2>1, <3>2, <4>1, <4>2 DEF EachInPlace
    <2>3. /\ sock' \in SockType /\ sock'.out = o /\ sock'.next = sock.next /\ sock'.len = sock.len
          /\ sock'.avail = sock.avail /\ sock'.deleted = sock.deleted /\ sock'.broken = sock.broken
      BY <1>1, <1>4, <2>1 DEF BuffersInv, BufferRight, SockType, Chars, o
    <2>4. Usable' => sock.next = <<>>
      BY <1>1, <1>4 DEF Usable
    <2>5. sock.len = 0 /\ sock'.len = 0 /\ Len(o) \in Nat
      BY <1>4, <2>1, <2>3, BufferFacts DEF Pending
    <2> QED
      <3>1. BufferRight' /\ WriteFits' /\ PendingStays'
        BY <1>1, <1>2, <2>3, <2>5, BufferFacts
        DEF BuffersInv, BufferRight, WriteFits, PendingStays, Pending
      <3>2. InPlace'
        BY <1>1, <2>2, <2>3, <2>4 DEF InPlace
      <3>3. NextHasWriter'
        BY <2>3, <2>4 DEF NextHasWriter
      <3> QED
        BY <3>1, <3>2, <3>3 DEF BuffersInv
  <1> QED
    BY <1>3, <1>4

LEMMA BeginBufferKeeps ==
  ASSUME BuffersInv, BeginBuffer
  PROVE  BuffersInv'
  <1>1. Usable /\ Begins(sock) /\ UNCHANGED <<phase, given, harm>>
    BY DEF BeginBuffer
  <1>2. /\ sock' \in SockType /\ window' \in 0 .. Window /\ onwire' \in Seq(Chars)
        /\ sock'.avail <= sock'.len /\ sock'.len <= Len(sock'.out)
        /\ sock'.out = sock.out /\ sock'.next = sock.next
        /\ sock'.deleted = sock.deleted /\ sock'.broken = sock.broken
        /\ sock'.len = (IF sock.len > 0 THEN sock.len ELSE Len(sock.out))
        /\ EachInPlace(onwire', sock'.out, sock'.avail, sock'.next, given)
    BY <1>1, BufferFacts, BeginsFacts DEF BuffersInv, BufferRight, Pending
  <1> QED
    BY <1>1, <1>2, BufferFacts
    DEF BuffersInv, BufferRight, WriteFits, PendingStays, InPlace, NextHasWriter, Usable, Pending

LEMMA OnOutputKeeps ==
  ASSUME BuffersInv, OnOutput
  PROVE  BuffersInv'
  <1>1. Usable /\ phase = "none" /\ Pending /\ phase' = "written" /\ UNCHANGED <<given, harm>>
    BY DEF OnOutput
  <1>2. PICK k \in IF sock.avail > 0 THEN {0} ELSE Taken(sock.len) :
          /\ sock.avail + k > 0
          /\ onwire' = onwire \o FirstOf(sock.out, k) /\ window' = window - k
          /\ sock' = [sock EXCEPT !.out = Rest(@, sock.avail + k), !.len = 0, !.avail = 0]
    BY DEF OnOutput
  <1>3. /\ k \in 0 .. Len(sock.out) /\ k <= window /\ (sock.avail = 0 \/ k = 0)
        /\ sock.avail + k \in 0 .. Len(sock.out)
    <2>1. /\ sock.len = Len(sock.out) /\ sock.len \in Nat /\ sock.avail \in 0 .. sock.len /\ window \in Nat
      BY <1>1, BufferFacts
    <2>2. CASE sock.avail > 0
      BY <1>2, <2>1, <2>2
    <2>3. CASE sock.avail = 0
      <3>1. k \in Taken(sock.len)
        BY <1>2, <2>3
      <3>2. k \in 0 .. sock.len /\ k <= window
        BY <2>1, <3>1 DEF Taken, Least
      <3> QED
        BY <2>1, <2>3, <3>2
    <2> QED
      BY <2>1, <2>2, <2>3
  <1>4. onwire' \in Seq(Chars) /\ EachInPlace(onwire', sock.out, sock.avail + k, sock.next, given)
    <2>1. CASE sock.avail = 0
      BY <1>1, <1>2, <1>3, <2>1, BufferFacts, KernelTakes
    <2>2. CASE k = 0
      <3>1. FirstOf(sock.out, 0) = <<>>
        BY BufferFacts DEF FirstOf
      <3>2. onwire' = onwire
        BY <1>2, <2>2, <3>1, BufferFacts
      <3> QED
        BY <1>1, <2>2, <3>2, BufferFacts
    <2> QED
      BY <1>3, <2>1, <2>2
  <1>5. Rest(sock.out, sock.avail + k) \in Seq(Chars)
    BY <1>3, BufferFacts, RestFacts
  <1>6. EachInPlace(onwire', Rest(sock.out, sock.avail + k), 0, sock.next, given)
    BY <1>3, <1>4, BufferFacts, WrittenErased
  <1>7. /\ sock' \in SockType /\ sock'.out = Rest(sock.out, sock.avail + k) /\ sock'.next = sock.next
        /\ sock'.len = 0 /\ sock'.avail = 0 /\ sock'.deleted = sock.deleted
    BY <1>2, <1>5 DEF BuffersInv, BufferRight, SockType, Chars
  <1>8. window' \in 0 .. Window
    BY <1>2, <1>3, BufferFacts DEF BuffersInv, BufferRight
  <1> QED
    BY <1>1, <1>4, <1>5, <1>6, <1>7, <1>8, BufferFacts
    DEF BuffersInv, BufferRight, WriteFits, PendingStays, InPlace, NextHasWriter, Usable, Pending

\* What failed is the write, not the buffer: the rest of it is written next time.
LEMMA OnOutputFailedKeeps ==
  ASSUME BuffersInv, OnOutputFailed
  PROVE  BuffersInv'
  <1>1. /\ Usable /\ sock.broken /\ sock.avail = 0
        /\ sock' = [sock EXCEPT !.len = 0, !.avail = 0]
        /\ UNCHANGED <<phase, window, onwire, given, harm>>
    BY DEF OnOutputFailed
  <1>2. /\ sock' \in SockType /\ sock'.out = sock.out /\ sock'.next = sock.next /\ sock'.broken
        /\ sock'.len = 0 /\ sock'.avail = 0 /\ sock'.deleted = sock.deleted
    BY <1>1 DEF BuffersInv, BufferRight, SockType
  <1> QED
    BY <1>1, <1>2, BufferFacts
    DEF BuffersInv, BufferRight, WriteFits, PendingStays, InPlace, NextHasWriter, Usable, Pending

LEMMA AfterWrittenKeeps ==
  ASSUME BuffersInv, AfterWritten
  PROVE  BuffersInv'
  <1> DEFINE d == [sock EXCEPT !.out = @ \o sock.next, !.next = <<>>]
  <1>1. /\ Usable /\ phase = "written" /\ given' = given
        /\ harm' = IF Pending /\ sock.next # <<>> THEN harm \cup {"moved"} ELSE harm
    BY DEF AfterWritten
  <1>2. CASE sock.out = <<>> /\ sock.next = <<>>
    <2>1. phase' = "empty" /\ UNCHANGED <<sock, window, onwire>>
      BY <1>2 DEF AfterWritten
    <2> QED
      BY <1>1, <1>2, <2>1, BufferFacts
      DEF BuffersInv, BufferRight, WriteFits, PendingStays, InPlace, NextHasWriter, Usable, Pending
  <1>3. CASE ~(sock.out = <<>> /\ sock.next = <<>>)
    <2>1. phase' = "none" /\ Begins(d)
      BY <1>3 DEF AfterWritten
    <2>2. /\ sock.out \o sock.next \in Seq(Chars) /\ <<>> \in Seq(Chars)
          /\ Len(sock.out \o sock.next) = Len(sock.out) + Len(sock.next)
      BY BufferFacts, JoinFacts
    <2>3. /\ d \in SockType /\ d.out = sock.out \o sock.next /\ d.next = <<>> /\ d.len = sock.len
          /\ d.avail = sock.avail /\ d.deleted = sock.deleted /\ d.broken = sock.broken
      BY <2>2 DEF BuffersInv, BufferRight, SockType, Chars
    <2> HIDE DEF d
    <2>4. CASE Pending /\ sock.next # <<>>
      \* The memory of a pending write moves: nothing more is said of the buffers.
      <3>1. sock' = d /\ UNCHANGED <<window, onwire>>
        BY <2>1, <2>3, <2>4 DEF Begins, Pending
      <3>2. harm' # {}
        BY <1>1, <2>4
      <3> QED
        BY <1>1, <2>1, <2>3, <3>1, <3>2, BufferFacts
        DEF BuffersInv, BufferRight, WriteFits, PendingStays, InPlace, NextHasWriter, Usable
    <2>5. CASE ~(Pending /\ sock.next # <<>>)
      <3>1. EachInPlace(onwire, d.out, d.avail, d.next, given)
        <4>1. CASE sock.next = <<>>
          <5>1. d.out = sock.out
            BY <2>3, <4>1, BufferFacts
          <5> QED
            BY <1>1, <2>3, <4>1, <5>1, BufferFacts
        <4>2. CASE ~Pending
          BY <1>1, <2>3, <4>2, BufferFacts, BuffersJoin
        <4> QED
          BY <2>5, <4>1, <4>2
      <3>2. d.len <= Len(d.out) /\ (d.avail = 0 \/ d.len > 0) /\ d.avail <= d.len
        <4>1. /\ sock.len <= Len(sock.out) /\ sock.len \in Nat /\ sock.avail \in 0 .. sock.len
              /\ (sock.avail = 0 \/ sock.len > 0)
          BY <1>1, BufferFacts DEF Pending
        <4>2. Len(sock.out) \in Nat /\ Len(sock.next) \in Nat
          BY BufferFacts
        <4>3. /\ Len(d.out) = Len(sock.out) + Len(sock.next)
              /\ d.len = sock.len /\ d.avail = sock.avail
          BY <2>2, <2>3
        <4>4. sock.len <= Len(sock.out) + Len(sock.next) /\ sock.avail <= sock.len
          <5> DEFINE l == sock.len
                     o == Len(sock.out)
                     x == Len(sock.next)
                     a == sock.avail
          <5>1. l \in Nat /\ o \in Nat /\ x \in Nat /\ l <= o /\ a \in 0 .. l
            BY <4>1, <4>2
          <5> HIDE DEF l, o, x, a
          <5>2. l <= o + x /\ a <= l
            BY <5>1
          <5> QED
            BY <5>2 DEF l, o, x, a
        <4> QED
          BY <4>1, <4>3, <4>4, Zenon
      <3>3. /\ sock' \in SockType /\ window' \in 0 .. Window /\ onwire' \in Seq(Chars)
            /\ sock'.avail <= sock'.len /\ sock'.len <= Len(sock'.out)
            /\ sock'.out = d.out /\ sock'.next = d.next
            /\ sock'.deleted = d.deleted /\ sock'.broken = d.broken
            /\ sock'.len = (IF d.len > 0 THEN d.len ELSE Len(d.out))
            /\ EachInPlace(onwire', sock'.out, sock'.avail, sock'.next, given)
        BY <2>1, <2>3, <3>1, <3>2, BeginsFacts DEF BuffersInv
      <3>4. harm' = {} /\ (Pending => Len(d.out) = Len(sock.out))
        <4>1. harm' = {}
          BY <1>1, <2>5, BufferFacts
        <4>2. ASSUME Pending
              PROVE  Len(d.out) = Len(sock.out)
          <5>1. sock.next = <<>>
            BY <2>5, <4>2
          <5>2. sock.out \o <<>> = sock.out
            BY BufferFacts
          <5> QED
            BY <2>3, <5>1, <5>2
        <4> QED
          BY <4>1, <4>2
      <3> QED
        BY <1>1, <2>1, <2>3, <3>3, <3>4, BufferFacts
        DEF BuffersInv, BufferRight, WriteFits, PendingStays, InPlace, NextHasWriter, Usable, Pending
    <2> QED
      BY <2>4, <2>5
  <1> QED
    BY <1>2, <1>3

LEMMA AfterEmptyKeeps ==
  ASSUME BuffersInv, AfterEmpty
  PROVE  BuffersInv'
  <1>1. Usable /\ phase = "empty" /\ phase' = "none" /\ Begins(sock) /\ UNCHANGED <<given, harm>>
    BY DEF AfterEmpty
  <1>2. /\ sock' \in SockType /\ window' \in 0 .. Window /\ onwire' \in Seq(Chars)
        /\ sock'.avail <= sock'.len /\ sock'.len <= Len(sock'.out)
        /\ sock'.out = sock.out /\ sock'.next = sock.next
        /\ sock'.deleted = sock.deleted /\ sock'.broken = sock.broken
        /\ sock'.len = (IF sock.len > 0 THEN sock.len ELSE Len(sock.out))
        /\ EachInPlace(onwire', sock'.out, sock'.avail, sock'.next, given)
    BY <1>1, BufferFacts, BeginsFacts DEF BuffersInv, BufferRight, Pending
  <1> QED
    BY <1>1, <1>2, BufferFacts
    DEF BuffersInv, BufferRight, WriteFits, PendingStays, InPlace, NextHasWriter, Usable, Pending

\* flush() without a pending write takes n bytes off the two buffers; with one it
\* repeats bytes, and nothing more is said of them.
LEMMA FlushKeeps ==
  ASSUME BuffersInv, Flush
  PROVE  BuffersInv'
  <1> DEFINE all == sock.out \o sock.next
  <1>1. Usable /\ UNCHANGED <<phase, given>> /\ window' \in 0 .. Window
    BY DEF Flush
  <1>2. PICK early \in IF Pending /\ sock.avail = 0 THEN 1 .. Least(window, sock.len) ELSE {0},
             n \in 0 .. Len(all) :
          /\ onwire' = onwire \o FirstOf(sock.out, early) \o FirstOf(all, n)
          /\ sock' = [sock EXCEPT !.len = 0, !.avail = 0,
                        !.out = IF n < Len(sock.out) THEN Rest(@, n) ELSE Rest(all, n),
                        !.next = IF n < Len(sock.out) THEN @ ELSE <<>>]
          /\ harm' = IF Pending THEN harm \cup {"repeated"}
                     ELSE IF sock'.next # <<>> THEN harm \cup {"stopped"} ELSE harm
    BY DEF Flush
  <1>3. /\ all \in Seq(Chars) /\ Len(all) = Len(sock.out) + Len(sock.next)
        /\ \A i \in 1 .. Len(sock.out) : all[i] = sock.out[i]
    BY BufferFacts, JoinFacts
  <1>4. early \in 0 .. Len(sock.out)
    BY <1>1, <1>2, BufferFacts DEF Least
  <1>5. FirstOf(sock.out, early) \in Seq(Chars) /\ FirstOf(all, n) \in Seq(Chars)
    BY <1>2, <1>3, <1>4, BufferFacts, FirstFacts
  <1>6. onwire' \in Seq(Chars)
    BY <1>2, <1>5, BufferFacts, JoinFacts
  <1>7. /\ n < Len(sock.out) => Rest(sock.out, n) \in Seq(Chars)
        /\ Rest(all, n) \in Seq(Chars)
    <2>1. n < Len(sock.out) => n \in 0 .. Len(sock.out)
      BY <1>2, <1>3, BufferFacts
    <2> HIDE DEF all
    <2> QED
      BY <1>2, <1>3, <2>1, BufferFacts, RestFacts
  <1>8. /\ sock' \in SockType /\ sock'.len = 0 /\ sock'.avail = 0 /\ sock'.deleted = sock.deleted
        /\ sock'.out = (IF n < Len(sock.out) THEN Rest(sock.out, n) ELSE Rest(all, n))
        /\ sock'.next = (IF n < Len(sock.out) THEN sock.next ELSE <<>>)
    <2>1. sock \in SockType
      BY DEF BuffersInv, BufferRight
    <2> DEFINE o == IF n < Len(sock.out) THEN Rest(sock.out, n) ELSE Rest(all, n)
               x == IF n < Len(sock.out) THEN sock.next ELSE <<>>
    <2>2. o \in Seq(Chars) /\ x \in Seq(Chars)
      BY <1>7, BufferFacts
    <2>3. sock' = [sock EXCEPT !.len = 0, !.avail = 0, !.out = o, !.next = x]
      BY <1>2, <2>1 DEF SockType
    <2> HIDE DEF o, x
    <2>4. sock' \in SockType /\ sock'.len = 0 /\ sock'.avail = 0 /\ sock'.deleted = sock.deleted
          /\ sock'.out = o /\ sock'.next = x
      BY <2>1, <2>2, <2>3 DEF SockType, Chars
    <2> QED
      BY <2>4 DEF o, x
  <1>9. ASSUME ~Pending
        PROVE  EachInPlace(onwire', sock'.out, 0, sock'.next, given)
    <2>1. early = 0 /\ FirstOf(sock.out, 0) = <<>>
      BY <1>2, <1>9, BufferFacts DEF FirstOf
    <2>2. onwire' = onwire \o FirstOf(all, n)
      <3>1. onwire \o <<>> = onwire
        BY BufferFacts
      <3> HIDE DEF all
      <3> QED
        BY <1>2, <2>1, <3>1
    <2>3. EachInPlace(onwire, sock.out, 0, sock.next, given)
      BY <1>1, <1>9, BufferFacts
    <2>4. CASE n < Len(sock.out)
      <3>1. n \in 0 .. Len(sock.out)
        BY <1>2, <1>3, <2>4, BufferFacts
      <3>2. FirstOf(all, n) = FirstOf(sock.out, n)
        <4>1. n \in 0 .. Len(all) /\ Len(FirstOf(sock.out, n)) = n /\ Len(FirstOf(all, n)) = n
              /\ FirstOf(sock.out, n) \in Seq(Chars) /\ FirstOf(all, n) \in Seq(Chars)
              /\ \A i \in 1 .. n : FirstOf(sock.out, n)[i] = sock.out[i] /\ FirstOf(all, n)[i] = all[i]
          <5> HIDE DEF all
          <5> QED
            BY <1>2, <1>3, <3>1, BufferFacts, FirstFacts
        <4> HIDE DEF all
        <4>2. ASSUME NEW i \in 1 .. n
              PROVE  FirstOf(all, n)[i] = FirstOf(sock.out, n)[i]
          <5>1. i \in 1 .. Len(sock.out)
            BY <3>1
          <5> QED
            BY <1>3, <4>1, <5>1
        <4> QED
          BY <4>1, <4>2
      <3>3. /\ onwire' \in Seq(Chars) /\ EachInPlace(onwire', sock.out, n, sock.next, given)
        BY <2>2, <2>3, <3>1, <3>2, BufferFacts, KernelTakes
      <3>4. EachInPlace(onwire', Rest(sock.out, n), 0, sock.next, given)
        BY <3>1, <3>3, BufferFacts, WrittenErased
      <3> QED
        BY <1>8, <2>4, <3>4
    <2>5. CASE ~(n < Len(sock.out))
      <3>1. EachInPlace(onwire, all, 0, <<>>, given)
        BY <2>3, BufferFacts, BuffersJoin
      <3>2. <<>> \in Seq(Chars)
        OBVIOUS
      <3> HIDE DEF all
      <3>3. onwire' \in Seq(Chars) /\ EachInPlace(onwire', all, n, <<>>, given)
        <4>1. n \in 0 .. Len(all) /\ all \in Seq(Chars) /\ <<>> \in Seq(Chars) /\ onwire \in Seq(Chars) /\ given \in Nat
          BY <1>2, <1>3, <3>2, BufferFacts
        <4> QED
          BY <2>2, <3>1, <4>1, KernelTakes
      <3>4. EachInPlace(onwire', Rest(all, n), 0, <<>>, given)
        BY <1>2, <1>3, <3>2, <3>3, BufferFacts, WrittenErased
      <3> QED
        BY <1>8, <2>5, <3>4
    <2> QED
      BY <2>4, <2>5
  <1>10. Usable' => ~Pending /\ sock'.next = <<>>
    BY <1>2 DEF Usable
  <1> HIDE DEF all
  <1> QED
    BY <1>1, <1>6, <1>8, <1>9, <1>10, BufferFacts
    DEF BuffersInv, BufferRight, WriteFits, PendingStays, InPlace, NextHasWriter, Usable, Pending

LEMMA CancelBuffersKeeps ==
  ASSUME BuffersInv, CancelBuffers
  PROVE  BuffersInv'
  <1>1. /\ sock' = [sock EXCEPT !.out = <<>>, !.next = <<>>, !.len = 0, !.avail = 0]
        /\ onwire' = Numbered(1, given)
        /\ UNCHANGED <<phase, window, given, harm>>
    BY DEF CancelBuffers
  <1>2. onwire' \in Seq(Chars) /\ Len(onwire') = given /\ \A i \in 1 .. given : onwire'[i] = i
    <2>1. onwire' = [i \in 1 .. given |-> i]
      BY <1>1, BufferFacts DEF Numbered
    <2>2. given \in 0 .. MaxPut
      BY DEF BuffersInv, BufferRight
    <2>3. \A i \in 1 .. given : i \in Chars
      BY <2>2, BufferFacts DEF Chars
    <2> QED
      BY <2>1, <2>2, <2>3, BufferFacts
  <1>3. /\ sock' \in SockType /\ sock'.out = <<>> /\ sock'.next = <<>>
        /\ sock'.len = 0 /\ sock'.avail = 0
    <2>1. sock \in SockType /\ <<>> \in Seq(1 .. MaxPut)
      BY DEF BuffersInv, BufferRight
    <2> QED
      BY <1>1, <2>1 DEF SockType
  <1>4. EachInPlace(onwire', <<>>, 0, <<>>, given)
    BY <1>2, BufferFacts DEF EachInPlace
  <1> QED
    BY <1>1, <1>2, <1>3, <1>4, BufferFacts
    DEF BuffersInv, BufferRight, WriteFits, PendingStays, InPlace, NextHasWriter, Usable, Pending

LEMMA BufferOthersKeep ==
  ASSUME BuffersInv, Destroy \/ PeerTakes \/ PeerGone \/ UNCHANGED bsVars
  PROVE  BuffersInv'
  <1>1. CASE Destroy
    <2>1. sock' = [sock EXCEPT !.deleted = TRUE] /\ UNCHANGED <<phase, window, onwire, given>>
          /\ (harm' = {} => harm = {})
      BY <1>1 DEF Destroy
    <2>2. /\ sock' \in SockType /\ sock'.deleted /\ sock'.out = sock.out /\ sock'.len = sock.len
          /\ sock'.avail = sock.avail
      BY <2>1 DEF BuffersInv, BufferRight, SockType
    <2> QED
      BY <2>1, <2>2 DEF BuffersInv, BufferRight, WriteFits, PendingStays, InPlace, NextHasWriter, Usable
  <1>2. CASE PeerTakes
    <2>1. window' = Window /\ UNCHANGED <<sock, phase, onwire, given, harm>>
      BY <1>2 DEF PeerTakes
    <2> QED
      BY <2>1, BufferFacts
      DEF BuffersInv, BufferRight, WriteFits, PendingStays, InPlace, NextHasWriter, Usable, Pending
  <1>3. CASE PeerGone
    <2>1. sock' = [sock EXCEPT !.broken = TRUE] /\ UNCHANGED <<phase, window, onwire, given, harm>>
      BY <1>3 DEF PeerGone
    <2>2. /\ sock' \in SockType /\ sock'.out = sock.out /\ sock'.next = sock.next /\ sock'.broken
          /\ sock'.len = sock.len /\ sock'.avail = sock.avail /\ sock'.deleted = sock.deleted
      BY <2>1 DEF BuffersInv, BufferRight, SockType
    <2> QED
      BY <2>1, <2>2
      DEF BuffersInv, BufferRight, WriteFits, PendingStays, InPlace, NextHasWriter, Usable, Pending
  <1>4. CASE UNCHANGED bsVars
    BY <1>4
    DEF bsVars, BuffersInv, BufferRight, WriteFits, PendingStays, InPlace, NextHasWriter, Usable, Pending
  <1> QED
    BY <1>1, <1>2, <1>3, <1>4

-----------------------------------------------------------------------------
(* The theorems.                                                           *)

LEMMA BufferBegins == BsInit => BuffersInv
  <1> SUFFICES ASSUME BsInit
               PROVE  BuffersInv
    OBVIOUS
  <1>1. /\ sock = [out |-> <<>>, next |-> <<>>, len |-> 0, avail |-> 0, broken |-> FALSE, deleted |-> FALSE]
        /\ phase = "none" /\ window = Window /\ onwire = <<>> /\ given = 0 /\ harm = {}
    BY DEF BsInit
  <1>2. sock \in SockType /\ onwire \in Seq(Chars)
    BY <1>1 DEF SockType
  <1>3. EachInPlace(<<>>, <<>>, 0, <<>>, 0)
    BY DEF EachInPlace
  <1> QED
    BY <1>1, <1>2, <1>3, BufferAssumption
    DEF BuffersInv, BufferRight, WriteFits, PendingStays, InPlace, NextHasWriter, Usable, Pending

LEMMA BufferStep == BuffersInv /\ [BsNext]_bsVars => BuffersInv'
  <1> SUFFICES ASSUME BuffersInv, [BsNext]_bsVars
               PROVE  BuffersInv'
    OBVIOUS
  <1> QED
    BY PutByteKeeps, BeginBufferKeeps, OnOutputKeeps, OnOutputFailedKeeps, AfterWrittenKeeps,
       AfterEmptyKeeps, FlushKeeps, CancelBuffersKeeps, BufferOthersKeep
    DEF BsNext

\* Bytes that are each in their place are the bytes that were put, in order.
LEMMA InPlaceIsInOrder ==
  ASSUME BuffersInv
  PROVE  BytesInOrder
  <1> SUFFICES ASSUME Usable
               PROVE  onwire \o Rest(sock.out, sock.avail) \o sock.next = Numbered(1, given)
    BY DEF BytesInOrder
  <1> DEFINE r == Rest(sock.out, sock.avail)
             u == onwire \o r
             v == u \o sock.next
  <1>1. sock.avail \in 0 .. Len(sock.out)
    BY BufferFacts
  <1>2. /\ r \in Seq(Chars) /\ Len(r) = Len(sock.out) - sock.avail
        /\ \A i \in 1 .. Len(sock.out) - sock.avail : r[i] = sock.out[sock.avail + i]
    BY <1>1, BufferFacts, RestFacts
  <1> HIDE DEF r
  <1>3. /\ u \in Seq(Chars) /\ Len(u) = Len(onwire) + Len(r)
        /\ \A i \in 1 .. Len(onwire) + Len(r) :
             u[i] = IF i <= Len(onwire) THEN onwire[i] ELSE r[i - Len(onwire)]
    <2>1. onwire \in Seq(Chars) /\ r \in Seq(Chars)
      BY <1>2, BufferFacts
    <2> QED
      BY <2>1, JoinFacts
  <1>4. \A i \in 1 .. Len(u) : u[i] = i
    <2>1. /\ Len(onwire) \in Nat /\ Len(sock.out) \in Nat /\ sock.avail \in Nat
          /\ \A i \in 1 .. Len(onwire) : onwire[i] = i
          /\ \A i \in 1 .. Len(sock.out) : i > sock.avail => sock.out[i] = Len(onwire) + i - sock.avail
      BY BufferFacts DEF EachInPlace
    <2> HIDE DEF u
    <2> TAKE i \in 1 .. Len(u)
    <2>2. CASE i <= Len(onwire)
      <3>1. i \in 1 .. Len(onwire) + Len(r) /\ i \in 1 .. Len(onwire)
        BY <1>1, <1>2, <1>3, <2>1, <2>2
      <3> QED
        BY <1>3, <2>1, <2>2, <3>1
    <2>3. CASE i > Len(onwire)
      <3>1. i - Len(onwire) \in 1 .. Len(sock.out) - sock.avail
        BY <1>1, <1>2, <1>3, <2>1, <2>3
      <3>2. /\ u[i] = sock.out[sock.avail + (i - Len(onwire))]
            /\ sock.avail + (i - Len(onwire)) \in 1 .. Len(sock.out)
            /\ sock.avail + (i - Len(onwire)) > sock.avail
        <4>0. Len(r) \in Nat /\ i \in 1 .. Len(onwire) + Len(r) /\ i \in Nat
          BY <1>1, <1>2, <1>3, <2>1
        <4>1. u[i] = r[i - Len(onwire)]
          BY <1>3, <2>1, <2>3, <4>0
        <4>2. r[i - Len(onwire)] = sock.out[sock.avail + (i - Len(onwire))]
          BY <1>2, <3>1
        <4>3. /\ sock.avail + (i - Len(onwire)) \in 1 .. Len(sock.out)
              /\ sock.avail + (i - Len(onwire)) > sock.avail
          BY <1>1, <2>1, <3>1, <4>0
        <4> QED
          BY <4>1, <4>2, <4>3
      <3>3. sock.out[sock.avail + (i - Len(onwire))] = Len(onwire) + (sock.avail + (i - Len(onwire))) - sock.avail
        BY <2>1, <3>2
      <3> QED
        BY <2>1, <3>1, <3>2, <3>3
    <2> QED
      BY <1>2, <1>3, <2>1, <2>2, <2>3
  <1> HIDE DEF u
  <1>5. /\ v \in Seq(Chars) /\ Len(v) = Len(u) + Len(sock.next)
        /\ \A i \in 1 .. Len(u) + Len(sock.next) : v[i] = IF i <= Len(u) THEN u[i] ELSE sock.next[i - Len(u)]
    <2>1. u \in Seq(Chars) /\ sock.next \in Seq(Chars)
      BY <1>3, BufferFacts
    <2> QED
      BY <2>1, JoinFacts
  <1> HIDE DEF v
  <1>6. Len(v) = given /\ \A i \in 1 .. given : v[i] = i
    <2>1. /\ Len(onwire) \in Nat /\ Len(sock.out) \in Nat /\ sock.avail \in Nat /\ Len(sock.next) \in Nat
          /\ given = Len(onwire) + (Len(sock.out) - sock.avail) + Len(sock.next)
          /\ \A i \in 1 .. Len(sock.next) : sock.next[i] = Len(onwire) + (Len(sock.out) - sock.avail) + i
      BY BufferFacts DEF EachInPlace
    <2>2. Len(u) = Len(onwire) + (Len(sock.out) - sock.avail) /\ Len(u) \in Nat /\ Len(v) = given
      BY <1>1, <1>2, <1>3, <1>5, <2>1
    <2>3. ASSUME NEW i \in 1 .. given
          PROVE  v[i] = i
      <3>1. CASE i <= Len(u)
        BY <1>4, <1>5, <2>1, <2>2, <3>1
      <3>2. CASE i > Len(u)
        <4>0. given = Len(u) + Len(sock.next) /\ i \in Nat
          BY <2>1, <2>2
        <4>1. i - Len(u) \in 1 .. Len(sock.next) /\ v[i] = sock.next[i - Len(u)]
          <5>1. i - Len(u) \in 1 .. Len(sock.next) /\ ~(i <= Len(u)) /\ i \in 1 .. Len(u) + Len(sock.next)
            <6>1. i \in 1 .. Len(u) + Len(sock.next) /\ Len(u) \in Nat /\ Len(sock.next) \in Nat
              BY <2>1, <2>2, <4>0
            <6> QED
              BY <3>2, <6>1, BehindIsWithin
          <5> QED
            BY <1>5, <5>1
        <4>2. sock.next[i - Len(u)] = Len(u) + (i - Len(u))
          BY <2>1, <2>2, <4>1
        <4> QED
          BY <2>1, <2>2, <4>1, <4>2
      <3> QED
        BY <2>2, <3>1, <3>2
    <2> QED
      BY <2>2, <2>3
  <1>7. Numbered(1, given) = [i \in 1 .. given |-> i]
    BY BufferFacts DEF Numbered
  <1>8. v = [i \in 1 .. given |-> i]
    BY <1>5, <1>6, BufferFacts
  <1> QED
    BY <1>7, <1>8 DEF v, u, r

\* For every number of bytes and every size of the kernel's window, each byte is
\* in one place of its own, on the wire or in one of the two buffers.
THEOREM BufferInvariant == BsSpec => []BuffersInv
  <1>1. BsInit => BuffersInv
    BY BufferBegins
  <1>2. BuffersInv /\ [BsNext]_bsVars => BuffersInv'
    BY BufferStep
  <1> QED
    BY <1>1, <1>2, PTL DEF BsSpec

\* BufferedSocket writes what was put in the order in which it was put, each byte once, from
\* memory that stays while a write is pending, and does not leave its second buffer behind.
THEOREM BuffersAreInOrder == BsSpec => []BuffersInOrder
  <1>1. BuffersInv => BuffersInOrder
    BY InPlaceIsInOrder
    DEF BuffersInv, BufferRight, WriteFits, BuffersInOrder, BsTypeOK
  <1> QED
    BY <1>1, BufferInvariant, PTL
=============================================================================
