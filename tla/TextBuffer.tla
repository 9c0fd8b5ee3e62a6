------------------------------ MODULE TextBuffer ------------------------------
(***************************************************************************)
(* BasicTextBuffer, a stream buffer of characters on top of a stream of    *)
(* bytes, with the codec in between.  Its one buffer of characters is the  *)
(* put area or the get area, its buffer of bytes is filled by the other    *)
(* side.  The target is a stream that gives back what was written to it.   *)
(***************************************************************************)
EXTENDS Codecs

CONSTANTS
  EBufMax,    \* _ebufmax
  IBufMax,    \* _ibufmax
  TbPbMax,    \* _pbmax
  Texts,      \* for each codec the texts that are put
  Bytes       \* and what the target may hold instead, to be read

VARIABLES
  codec,
  tb,      \* the text buffer
  target,  \* the bytes of the target, and how many of them have been read
  history  \* the characters put and taken, and what cannot be undone

textVars == <<codec, tb, target, history>>

TextBegins(k, text, bytes) ==
  /\ codec = k
  /\ tb = [mode |-> "none", buf |-> <<>>, gptr |-> 0, ebuf |-> <<>>, st |-> MBState, thrown |-> FALSE, hangs |-> FALSE]
  /\ target = [bytes |-> bytes, read |-> 0]
  /\ history = [todo |-> text, put |-> <<>>, given |-> <<>>, eof |-> "no", beyond |-> FALSE]

TextInit ==
  \E k \in DOMAIN Texts :
    (\E text \in Texts[k] : TextBegins(k, text, <<>>)) \/ (\E bytes \in Bytes[k] : TextBegins(k, <<>>, bytes))

Works == ~tb.thrown /\ ~tb.hangs

-----------------------------------------------------------------------------
(* Writing.                                                                *)

\* One round of overflow(): what the codec made of the put area is given to
\* the target.  b is the buffer with wire, the bytes for the target.
Emit(b, c) ==
  [b EXCEPT !.st = c.st, !.buf = c.from, !.thrown = c.res = "error",
            !.wire = @ \o (IF c.res = "error" THEN <<>> ELSE c.to),
            !.stuck = c.res = "partial" /\ c.to = <<>>]

Converted(b) == Emit(b, Out(codec, Converts(b.st, b.buf, EBufMax)))

RECURSIVE Overflow(_)
Overflow(b) ==
  IF b.buf = <<>> \/ b.thrown \/ b.stuck THEN b ELSE Overflow(Converted(b))

\* sync() repeats overflow() and throws if it has moved nothing.
RECURSIVE Sync(_)
Sync(b) ==
  LET moved(o) == [o EXCEPT !.thrown = @ \/ Len(o.buf) = Len(b.buf)]
  IN IF b.buf = <<>> \/ b.thrown THEN b ELSE Sync(moved(Overflow([b EXCEPT !.stuck = FALSE])))

Emitting(b) == [field \in DOMAIN b \cup {"wire", "stuck"} |->
                  IF field = "wire" THEN <<>> ELSE IF field = "stuck" THEN FALSE ELSE b[field]]
Emitted(b) == [field \in DOMAIN tb |-> b[field]]

Empty(b) == [b EXCEPT !.mode = "none", !.buf = <<>>, !.gptr = 0, !.ebuf = <<>>, !.st = MBState]

\* terminate() asks the codec for the rest until it has all of it; a codec
\* that makes nothing of it is asked for ever.
RECURSIVE Unshifted(_)
Unshifted(b) ==
  LET more(c) == CASE c.res = "partial" /\ c.to = <<>> -> [b EXCEPT !.hangs = TRUE]
                   [] c.res = "partial" /\ c.to # <<>> -> Unshifted([b EXCEPT !.st = c.st, !.wire = @ \o c.to])
                   [] c.res = "ok" -> Empty([b EXCEPT !.wire = @ \o c.to])
                   [] OTHER -> Empty(b)
  IN more(Unshift(codec, Converts(b.st, <<>>, EBufMax)))

\* The bytes that were cut off are forgotten.
TerminatedSilently(b) ==
  LET synced(s) == IF s.thrown THEN s ELSE Empty(s)
  IN IF b.mode # "put" THEN Empty(b) ELSE synced(Sync(b))

Terminated(b) ==
  LET synced(s) == IF s.thrown THEN s ELSE Unshifted(s)
  IN IF b.mode # "put" THEN Empty(b) ELSE synced(Sync(b))

\* The buffer is now b, without its wire, which the target has.
Becomes(b) == tb' = Emitted(b) /\ target' = [target EXCEPT !.bytes = @ \o b.wire]

PutBehind(b, ch) ==
  /\ Becomes(IF b.thrown THEN b ELSE [b EXCEPT !.buf = Append(@, ch)])
  /\ history' = IF b.thrown THEN history
                ELSE [history EXCEPT !.put = Append(@, ch), !.todo = Tail(@), !.beyond = @ \/ Len(b.buf) = IBufMax]

\* sputc(): overflow() makes room if there is none, and puts the character
\* behind what is left, which may still be all of it.
PutChar ==
  /\ Works /\ tb.mode # "get" /\ history.todo # <<>>
  /\ PutBehind(IF tb.mode = "put" /\ Len(tb.buf) < IBufMax THEN Emitting(tb)
               ELSE Overflow(Emitting([tb EXCEPT !.mode = "put"])), Head(history.todo))
  /\ UNCHANGED codec

SyncText == Works /\ tb.mode = "put" /\ Becomes(Sync(Emitting(tb))) /\ UNCHANGED <<codec, history>>

TerminateText == Works /\ tb.mode = "put" /\ Becomes(Terminated(Emitting(tb))) /\ UNCHANGED <<codec, history>>

-----------------------------------------------------------------------------
(* Reading.                                                                *)

\* The last characters of the get area stay, to be put back.
PutbackKept(b) ==
  LET g == IF b.mode = "get" THEN b ELSE [b EXCEPT !.mode = "get"]
  IN IF g.gptr > TbPbMax THEN [g EXCEPT !.buf = SubSeq(@, g.gptr - TbPbMax + 1, Len(@)), !.gptr = TbPbMax] ELSE g

Least(a, b) == IF a < b THEN a ELSE b

\* The codec has made c of the bytes; told is that no character is there to be returned.
Decode(g, c, told, atEof) ==
  /\ tb' = Emitted([g EXCEPT !.ebuf = c.from, !.st = c.st, !.buf = @ \o c.to,
                             !.thrown = c.res = "error" \/ (told /\ c.res = "partial" /\ atEof)])
  /\ history' = [history EXCEPT !.eof = IF ~told THEN "no" ELSE IF atEof THEN "end" ELSE "early"]

Take(g, bytes, n, atEof) ==
  LET decode(c) == Decode(g, c, g.gptr = Len(g.buf) /\ c.to = <<>>, atEof)
  IN /\ decode(In(codec, Converts(g.st, g.ebuf \o SubSeq(bytes, target.read + 1, target.read + n), IBufMax - Len(g.buf))))
     /\ target' = [bytes |-> bytes, read |-> target.read + n]

\* The target has avail bytes at hand, and would wait for others if it had none.
Fill(g, limit, avail, bytes) ==
  LET n == Least(Len(bytes) - target.read, IF avail > 0 THEN Least(avail, limit) ELSE limit)
  IN Take(g, bytes, n, limit > 0 /\ n = 0)

\* do_underflow(size): what was put is terminated first.
FillBehind(b, size, avail) ==
  IF b.thrown \/ b.hangs THEN Becomes(b) /\ UNCHANGED history
  ELSE Fill(PutbackKept(b), Least(size, EBufMax - Len(b.ebuf)), avail, target.bytes \o b.wire)

Underflow(size, avail) ==
  FillBehind(IF tb.mode = "put" THEN Terminated(Emitting(tb)) ELSE Emitting(tb), size, avail)

Avail == 0..(Len(target.bytes) - target.read)

\* sgetc() on an empty area.
GetMore(avail) ==
  /\ Works /\ tb.mode = "get" => tb.gptr = Len(tb.buf)
  /\ Underflow(EBufMax, avail) /\ UNCHANGED codec

\* import() reads what is at hand, also behind what has not been taken yet.
Import(avail) == Works /\ Underflow(avail, avail) /\ UNCHANGED codec

TakeChar ==
  /\ Works /\ tb.mode = "get" /\ tb.gptr < Len(tb.buf)
  /\ tb' = [tb EXCEPT !.gptr = @ + 1]
  /\ history' = [history EXCEPT !.given = Append(@, tb.buf[tb.gptr + 1])]
  /\ UNCHANGED <<codec, target>>

\* sungetc() takes back what was taken last.
UngetChar ==
  /\ Works /\ tb.mode = "get" /\ tb.gptr > 0
  /\ tb' = [tb EXCEPT !.gptr = @ - 1]
  /\ history' = [history EXCEPT !.given = Front(@)]
  /\ UNCHANGED <<codec, target>>

TextNext ==
  \/ PutChar \/ SyncText \/ TerminateText \/ TakeChar \/ UngetChar
  \/ \E avail \in Avail : GetMore(avail) \/ Import(avail)

-----------------------------------------------------------------------------
(* Properties.                                                             *)

TextTypeOK ==
  /\ tb.mode \in {"none", "put", "get"} /\ Len(tb.ebuf) <= EBufMax /\ tb.gptr <= Len(tb.buf)
  /\ ~history.beyond => Len(tb.buf) <= IBufMax
  /\ Len(tb.st.held) <= 5

\* The characters that bytes stand for, up to the first that stand for none.
\* The second byte after ED and F4 is bound from above only, as in the code
\* (README, section 6).
Utf8Text(bytes) ==
  LET size(b) == CASE b < 128 -> 1 [] b \in 194..223 -> 2 [] b \in 224..239 -> 3 [] b \in 240..244 -> 4 [] OTHER -> 5
      point(s) == LET upto[i \in 1..Len(s)] == IF i = 1 THEN s[1] - <<0, 192, 224, 240>>[Len(s)] ELSE 64 * upto[i - 1] + s[i] - 128
                  IN upto[Len(s)]
      lax(s) == s[1] \in {237, 244} /\ s[2] < 128
      legal(s) == /\ \A i \in 2..Len(s) : s[i] \in 128..191 \/ (i = 2 /\ lax(s))
                  /\ point(s) >= <<0, 128, 2048, 65536>>[Len(s)] /\ point(s) \notin 55296..57343 /\ point(s) < 1114112
      at[i \in 1..(Len(bytes) + 1)] ==
        IF i > Len(bytes) \/ i + size(bytes[i]) - 1 > Len(bytes) THEN <<>>
        ELSE LET s == SubSeq(bytes, i, i + size(bytes[i]) - 1)
             IN IF Len(s) < 5 /\ legal(s) THEN <<point(s)>> \o at[i + Len(s)] ELSE <<>>
  IN at[1]

Base64Text(bytes) ==
  LET signs == Signs(bytes)
      digit(i) == IF signs[i] = Equals THEN 0 ELSE fromBase64(signs[i])
      value(i) == 262144 * digit(i) + 4096 * digit(i + 1) + 64 * digit(i + 2) + digit(i + 3)
      size(i) == IF signs[i + 2] = Equals THEN 1 ELSE IF signs[i + 3] = Equals THEN 2 ELSE 3
      at[i \in 1..(Len(signs) + 1)] ==
        IF i + 3 > Len(signs) THEN <<>>
        ELSE SubSeq(<<value(i) \div 65536, (value(i) \div 256) % 256, value(i) % 256>>, 1, size(i)) \o at[i + 4]
  IN at[1]

QpText(bytes) ==
  LET at[i \in 1..(Len(bytes) + 1)] ==
        IF i > Len(bytes) THEN <<>>
        ELSE IF bytes[i] # Equals THEN <<bytes[i]>> \o at[i + 1]
        ELSE IF i < Len(bytes) /\ bytes[i + 1] = LF THEN at[i + 2]
        ELSE IF i + 2 > Len(bytes) THEN <<>>
        ELSE IF <<bytes[i + 1], bytes[i + 2]>> = <<CR, LF>> THEN at[i + 3]
        ELSE IF {bytes[i + 1], bytes[i + 2]} \subseteq UpperHex
          THEN <<16 * HexValue(bytes[i + 1]) + HexValue(bytes[i + 2])>> \o at[i + 3]
        ELSE <<>>
  IN at[1]

TextOf(bytes) == CASE codec = "utf8" -> Utf8Text(bytes) [] codec = "base64" -> Base64Text(bytes) [] OTHER -> QpText(bytes)

\* A byte order mark is skipped where a piece of the input begins with it, and
\* is a character elsewhere.
Unmarked(text) == IF codec = "utf8" THEN SelectSeq(text, LAMBDA ch : ch # 65279) ELSE text

\* What has been put is in the target once terminate() has returned, whatever
\* was flushed in between and however little room the buffers have.
WrittenIsText ==
  Works /\ tb.mode # "put" /\ ~history.beyond /\ history.put # <<>> => TextOf(target.bytes) = history.put

\* What is taken is what the target holds, in whatever pieces it arrives, and
\* all of it when the end of the file is told.
TakenIsText ==
  Works /\ tb.mode = "get" =>
    LET text == Unmarked(TextOf(target.bytes))
        taken == Unmarked(history.given \o SubSeq(tb.buf, tb.gptr + 1, Len(tb.buf)))
    IN IsPrefix(taken, text) /\ (history.eof = "end" => taken = text)

\* In quoted printable no line that was written ends with a blank, though the
\* blank and the line end may be put in two different calls.
NoBlankEndsLine ==
  codec = "qp" /\ history.put # <<>> =>
    \A i \in 2..Len(target.bytes) : target.bytes[i] \in {CR, LF} => target.bytes[i - 1] \notin Blank

\* Texts pass through the buffer and its codec unchanged.
TextsSound == TextTypeOK /\ WrittenIsText /\ TakenIsText /\ NoBlankEndsLine

\* The end of the file is told at the end of the file.
\* The code does not keep it: README, section 6.
EofIsTheEnd == history.eof # "early"
=============================================================================
