---------------------------- MODULE ChunkedReader ----------------------------
(***************************************************************************)
(* ChunkedReader (http/chunkedreader.cpp): a stream buffer that takes the  *)
(* chunks of a body out of another one.  The text arrives in pieces of any *)
(* size; the reader asks what is available, or waits for it.               *)
(***************************************************************************)
EXTENDS Parsing
LOCAL INSTANCE SequencesExt

CONSTANTS
  Bodies,       \* the bodies, as sequences of chunks
  Extra,        \* what stands behind the length: extensions or nothing
  Trailers,     \* what stands behind the last chunk
  _bufsize,     \* the size of the buffer
  SizeLimit     \* 2 to the width of _chunkSize

VARIABLES
  cr,        \* state, _chunkSize, and get area of the reader
  text,      \* what the peer sends, and behind it the next reply
  want,      \* the body that text stands for, and its length in text
  pos,       \* how much of text has arrived
  taken,     \* how much of it the reader has consumed
  ended,     \* the peer has closed the connection
  call,      \* the call that runs: none, underflow, showmanyc
  given      \* characters the program has read

chunkVars == <<cr, text, want, pos, taken, ended, call, given>>

\* The text of a body.
Encoded(chunks, x, t) ==
  FlattenSeq([i \in DOMAIN chunks |-> <<48 + Len(chunks[i])>> \o x \o <<CR, LF>> \o chunks[i] \o <<CR, LF>>])
  \o <<48>> \o x \o <<CR, LF>> \o t \o <<CR, LF>>

-----------------------------------------------------------------------------
(* One character in each state.                                            *)

Goes(r, s) == [r EXCEPT !.state = s]
Sized(r, n) == [r EXCEPT !.state = "size", !.size = n % SizeLimit]
IfMore(r, s) == Goes(r, IF r.size > 0 THEN "data" ELSE s)

onBegin(r, c) == IF c \in HexDigits THEN Sized(r, HexValue(c)) ELSE Goes(r, "thrown")

onSize(r, c) ==
  CASE c \in HexDigits -> Sized(r, r.size * 16 + HexValue(c))
    [] c = CR -> Goes(r, "endl")
    [] c = LF -> IfMore(r, "end")
    [] OTHER -> Goes(r, "extension")

onEndl(r, c) == IF c = LF THEN IfMore(r, "trailer") ELSE Goes(r, "thrown")

onExtension(r, c) ==
  CASE c = CR -> Goes(r, "endl") [] c = LF -> IfMore(r, "end") [] OTHER -> r

onDataEnd0(r, c) ==
  CASE c = CR -> Goes(r, "dataend") [] c = LF -> Goes(r, "begin") [] OTHER -> Goes(r, "thrown")

onDataEnd(r, c) == Goes(r, IF c = LF THEN "begin" ELSE "thrown")

onTrailerHasty(r, c) == Goes(r, "end")

onTrailer(r, c) ==
  CASE c = LF -> Goes(r, "end") [] c = CR -> r [] OTHER -> Goes(r, "trailerdata")

onTrailerData(r, c) == IF c = LF THEN Goes(r, "trailer") ELSE r

Character(r, c) ==
  CASE r.state = "begin" -> onBegin(r, c)
    [] r.state = "size" -> onSize(r, c)
    [] r.state = "endl" -> onEndl(r, c)
    [] r.state = "extension" -> onExtension(r, c)
    [] r.state = "dataend0" -> onDataEnd0(r, c)
    [] r.state = "dataend" -> onDataEnd(r, c)
    [] r.state = "trailer" -> onTrailer(r, c)
    [] r.state = "trailerdata" -> onTrailerData(r, c)

Least(S) == CHOOSE n \in S : \A k \in S : n <= k

\* onData(): what is there, as far as it fits and belongs to the chunk.
onData(r) ==
  LET n == Least({pos - taken, _bufsize, r.size})
  IN <<[r EXCEPT !.size = @ - n, !.area = SubSeq(text, taken + 1, taken + n),
                 !.state = IF r.size = n THEN "dataend0" ELSE "data"], n>>

-----------------------------------------------------------------------------
(* Calls.                                                                  *)

Call(c) ==
  /\ call = "none" /\ cr.area = <<>> /\ cr.state # "end"
  /\ call' = c
  /\ UNCHANGED <<cr, text, want, pos, taken, ended, given>>

\* Once round the loop of showmanyc() or of underflow().
Loop ==
  /\ call # "none" /\ cr.state \notin {"end", "thrown"} /\ cr.area = <<>> /\ taken < pos
  /\ LET step == IF cr.state = "data" THEN onData(cr) ELSE <<Character(cr, text[taken + 1]), 1>>
     IN cr' = step[1] /\ taken' = taken + step[2]
  /\ call' = IF cr'.state = "thrown" THEN "failed" ELSE call
  /\ UNCHANGED <<text, want, pos, ended, given>>

ShowmanycReturns ==
  /\ call = "showmanyc" /\ (cr.state = "end" \/ cr.area # <<>> \/ taken = pos)
  /\ call' = "none"
  /\ UNCHANGED <<cr, text, want, pos, taken, ended, given>>

\* underflow() behind its loop.  The last look into the input waits too; at
\* its end there is an end of file whatever was read.
UnderflowReturns ==
  /\ call = "underflow"
  /\ \/ cr.state = "end" /\ UNCHANGED cr /\ call' = "eof"
     \/ cr.state # "end" /\ taken = pos /\ ended /\ cr' = Goes(cr, "end") /\ call' = "eof"
     \/ cr.state # "end" /\ cr.area # <<>> /\ taken < pos /\ UNCHANGED cr /\ call' = "none"
  /\ UNCHANGED <<text, want, pos, taken, ended, given>>

Take ==
  /\ call = "none" /\ cr.area # <<>>
  /\ given' = given \o cr.area
  /\ cr' = [cr EXCEPT !.area = <<>>]
  /\ UNCHANGED <<text, want, pos, taken, ended, call>>

Arrives ==
  /\ ~ended /\ pos < Len(text) /\ \E n \in (pos + 1)..Len(text) : pos' = n
  /\ UNCHANGED <<cr, text, want, taken, ended, call, given>>

Ends ==
  /\ ~ended /\ ended' = TRUE
  /\ UNCHANGED <<cr, text, want, pos, taken, call, given>>

ChunkBegins(b, x, t) ==
  /\ cr = [state |-> "begin", size |-> 0, area |-> <<>>]
  /\ LET e == Encoded(b, x, t)
     IN text = Append(e, 72) /\ want = [body |-> FlattenSeq(b), length |-> Len(e)]
  /\ pos = 0 /\ taken = 0 /\ ended = FALSE /\ call = "none" /\ given = <<>>

ChunkInit == \E b \in Bodies, x \in Extra, t \in Trailers : ChunkBegins(b, x, t)

ChunkNext ==
  \/ \E c \in {"underflow", "showmanyc"} : Call(c)
  \/ Loop \/ ShowmanycReturns \/ UnderflowReturns \/ Take \/ Arrives \/ Ends

ChunkFairness == WF_chunkVars(Loop \/ ShowmanycReturns \/ UnderflowReturns)

-----------------------------------------------------------------------------
(* Properties.                                                             *)

ChunkTypeOK ==
  /\ cr.size \in 0..(SizeLimit - 1) /\ Len(cr.area) <= _bufsize
  /\ call \in {"none", "underflow", "showmanyc", "eof"} /\ taken <= pos

\* However the text arrives and whoever asks, what is given is the beginning
\* of the body, and it is the characters of its chunks and no others.
GivenIsBody == IsPrefix(given \o cr.area, want.body)

\* The reader ends when the body was given, behind its last character: the
\* next reply on the connection is not touched.
StopsBehindBody == cr.state = "end" /\ ~ended => given = want.body /\ taken = want.length

\* A call comes back when all has arrived.
ChunkCallReturns == (call # "none" /\ pos = Len(text)) ~> (call \in {"none", "eof"})

\* A reader that is at the end of the data has given all of them.
\* The code does not keep it: README, section 6.
EndOfDataIsWhole == cr.state = "end" => given \o cr.area = want.body

\* A chunked body is given as it is, up to its end and not beyond, and a call
\* that can be answered is.
ChunksSound == [](ChunkTypeOK /\ GivenIsBody /\ StopsBehindBody) /\ ChunkCallReturns
=============================================================================
