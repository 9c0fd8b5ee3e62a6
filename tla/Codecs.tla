-------------------------------- MODULE Codecs --------------------------------
(***************************************************************************)
(* The codecs that keep something between two calls: UTF-8, base64 and     *)
(* quoted printable.  A conversion is a record: from is what is left of    *)
(* the input, to the output made so far, room what may still be added, st  *)
(* the MBState and res the result, which is "go" while the loop runs.      *)
(***************************************************************************)
EXTENDS SequencesExt, Parsing

CONSTANT MaxCol  \* the longest line that base64 and quoted printable write

MBState == [held |-> <<>>, col |-> 0, state |-> "0", char |-> 0]

Converts(st, from, room) == [st |-> st, from |-> from, to |-> <<>>, room |-> room, res |-> "go"]

Into(c, bytes) == [c EXCEPT !.to = @ \o bytes, !.room = @ - Len(bytes)]
Read1(c) == [c EXCEPT !.from = Tail(@)]
Ends(c, res) == [c EXCEPT !.res = res]

-----------------------------------------------------------------------------
(* UTF-8.                                                                  *)

ByteOrderMark == <<239, 187, 191>>

trailingBytes(b) ==
  CASE b < 192 -> 0 [] b \in 192..223 -> 1 [] b \in 224..239 -> 2
    [] b \in 240..247 -> 3 [] b \in 248..251 -> 4 [] OTHER -> 5

isLegalUTF8(s) ==
  /\ Len(s) \in 1..4 /\ s[1] \notin 128..193 /\ s[1] <= 244
  /\ \A i \in 3..Len(s) : s[i] \in 128..191
  /\ Len(s) > 1 => s[2] \in CASE s[1] = 224 -> 160..191 [] s[1] = 237 -> 0..159 [] s[1] = 240 -> 144..191
                              [] s[1] = 244 -> 0..143 [] OTHER -> 128..191

\* The bits of the bytes, without the marks that each of them carries.  No
\* legal sequence gives a surrogate, which the code would replace.
offsetsFromUTF8 == <<0, 12416, 925824, 63447168>>
Shifted(s) ==
  LET upto[i \in 1..Len(s)] == IF i = 1 THEN s[1] ELSE 64 * upto[i - 1] + s[i]
  IN upto[Len(s)] - offsetsFromUTF8[Len(s)]

\* What is in front of the loop: an incomplete byte order mark waits in the
\* state, a complete one is skipped, at the beginning of each call.
Utf8Start(c) ==
  LET bytes == c.st.held \o c.from
      n == Len(c.st.held)
  IN IF c.from = <<>> THEN Ends(c, "ok")
     ELSE IF Len(bytes) < 3 /\ bytes[1] = ByteOrderMark[1]
       THEN Ends([c EXCEPT !.st.held = bytes, !.from = <<>>], "ok")
     ELSE IF Len(bytes) >= 3 /\ SubSeq(bytes, 1, 3) = ByteOrderMark
       THEN [c EXCEPT !.st.held = <<>>, !.from = SubSeq(@, 4 - n, Len(@))]
     ELSE c

RECURSIVE Utf8Loop(_, _)
Utf8Loop(c, retstat) ==
  IF c.res # "go" THEN c
  ELSE IF c.from = <<>> THEN Ends(c, retstat)
  ELSE IF c.room = 0 THEN Ends(c, "partial")
  ELSE LET bytes == Append(c.st.held, Head(c.from))
           read == [Read1(c) EXCEPT !.st.held = bytes]
       IN IF trailingBytes(bytes[1]) >= Len(bytes) THEN Utf8Loop(read, "partial")
          ELSE IF ~isLegalUTF8(bytes) THEN Ends(read, "error")
          ELSE Utf8Loop([Into(read, <<Shifted(bytes)>>) EXCEPT !.st.held = <<>>], "ok")

Utf8In(c) == Utf8Loop(Utf8Start(c), "ok")

MaxLegalUtf32 == 1114111
ReplacementChar == 65533

Utf8Bytes(ch) ==
  LET tail(n) == [i \in 1..n |-> 128 + ((ch \div (64 ^ (n - i))) % 64)]
  IN CASE ch < 128 -> <<ch>>
       [] ch \in 128..2047 -> <<192 + ch \div 64>> \o tail(1)
       [] ch \in 2048..65535 -> <<224 + ch \div 4096>> \o tail(2)
       [] OTHER -> <<240 + ch \div 262144>> \o tail(3)

RECURSIVE Utf8Out(_)
Utf8Out(c) ==
  IF c.from = <<>> THEN Ends(c, "ok")
  ELSE IF Head(c.from) \in 55296..57343 THEN Ends(c, "error")
  ELSE LET bytes == Utf8Bytes(IF Head(c.from) > MaxLegalUtf32 THEN ReplacementChar ELSE Head(c.from))
       IN IF Len(bytes) >= c.room THEN Ends(c, "partial") ELSE Utf8Out(Into(Read1(c), bytes))

-----------------------------------------------------------------------------
(* Base64.                                                                 *)

toBase64(n) ==
  CASE n < 26 -> 65 + n [] n \in 26..51 -> 71 + n [] n \in 52..61 -> n - 4 [] n = 62 -> Plus [] OTHER -> Slash
fromBase64(c) ==
  CASE c \in Upper -> c - 65 [] c \in Lower -> c - 71 [] c \in Digit -> c + 4
    [] c = Plus -> 62 [] c = Slash -> 63 [] c = Equals -> 64

Base64Decoded(f) ==
  LET d == [i \in 1..4 |-> fromBase64(f[i])]
  IN <<(4 * d[1] + d[2] \div 16) % 256>>
     \o (IF d[3] # 64 THEN <<(16 * d[2] + d[3] \div 4) % 256>> ELSE <<>>)
     \o (IF d[4] # 64 THEN <<(64 * d[3] + d[4]) % 256>> ELSE <<>>)

\* White space is passed over wherever it is.  Behind(from, k) is what follows
\* the k-th character that is none.
Signs(from) == SelectSeq(from, LAMBDA b : b \notin Space)
Behind(from, k) ==
  LET i == CHOOSE j \in 0..Len(from) :
             Len(Signs(SubSeq(from, 1, j))) = k /\ (j > 0 => from[j] \notin Space)
  IN IF k = 0 THEN from ELSE SubSeq(from, i + 1, Len(from))

\* The state takes what is left when there are fewer than four characters,
\* or no room for three bytes.
Base64Kept(c) ==
  LET need == 4 - Len(c.st.held)
      found == Signs(c.from)
      kept == IF Len(found) < need THEN [c EXCEPT !.st.held = @ \o found, !.from = <<>>]
              ELSE [c EXCEPT !.st.held = @ \o SubSeq(found, 1, need), !.from = Behind(@, need)]
  IN Ends(kept, IF kept.st.held = <<>> /\ Signs(kept.from) = <<>> THEN "ok" ELSE "partial")

RECURSIVE Base64In(_)
Base64In(c) ==
  LET bytes == c.st.held \o Signs(c.from)
  IN IF Len(bytes) >= 4 /\ c.room >= 3
     THEN Base64In([Into(c, Base64Decoded(SubSeq(bytes, 1, 4))) EXCEPT
                      !.st.held = <<>>, !.from = Behind(@, 4 - Len(c.st.held))])
     ELSE Base64Kept(c)

Base64Encoded(m) ==
  LET b == m \o <<0, 0, 0>>
      d == <<b[1] \div 4, (16 * b[1] + b[2] \div 16) % 64, (4 * b[2] + b[3] \div 64) % 64, b[3] % 64>>
  IN [i \in 1..4 |-> IF i <= Len(m) + 1 THEN toBase64(d[i]) ELSE Equals]

\* Four characters, behind a line end if the line is full.
Base64Line(c, m) ==
  LET full == c.st.col + 4 > MaxCol
      line == (IF full THEN <<CR, LF>> ELSE <<>>) \o Base64Encoded(m)
  IN IF c.room < Len(line) THEN Ends(c, "partial")
     ELSE [Into(c, line) EXCEPT !.st.col = (IF full THEN 0 ELSE @) + 4]

RECURSIVE Base64Out(_)
Base64Out(c) ==
  IF c.from = <<>> THEN Ends(c, "ok")
  ELSE LET made == IF Len(c.st.held) = 3 THEN [Base64Line(c, c.st.held) EXCEPT !.st.held = <<>>] ELSE c
       IN IF made.res # "go" THEN Ends(c, made.res)
          ELSE Base64Out([Read1(made) EXCEPT !.st.held = Append(@, Head(c.from))])

\* The last, incomplete group is padded.
Base64Unshift(c) ==
  IF c.st.held = <<>> THEN Ends(c, "noconv")
  ELSE LET made == Base64Line(c, c.st.held)
       IN IF made.res # "go" THEN made ELSE Ends([made EXCEPT !.st = MBState], "ok")

-----------------------------------------------------------------------------
(* Quoted printable.                                                       *)

HexByte(b) ==
  LET digit(v) == IF v < 10 THEN 48 + v ELSE 55 + v IN <<Equals, digit(b \div 16), digit(b % 16)>>
UpperHex == Digit \cup (65..70)
isqprint(b) == b \in 33..126 \ {Equals}

QpRead(c, b) ==
  LET to(s) == [c EXCEPT !.st.state = s]
  IN CASE c.st.state = "0" -> IF b = Equals THEN to("eq") ELSE Into(c, <<b>>)
       [] c.st.state = "eq" ->
            IF b \in UpperHex THEN [to("b1") EXCEPT !.st.char = 16 * HexValue(b)]
            ELSE IF b = CR THEN to("cr") ELSE IF b = LF THEN to("0") ELSE Ends(c, "error")
       [] c.st.state = "cr" -> IF b \in {LF, Equals} THEN to("0") ELSE Into(to("0"), <<b>>)
       [] OTHER -> IF b \in UpperHex THEN Into(to("0"), <<c.st.char + HexValue(b)>>) ELSE Ends(c, "error")

RECURSIVE QpIn(_)
QpIn(c) ==
  IF c.res # "go" THEN c
  ELSE IF c.from # <<>> /\ c.room > 0 THEN QpIn(QpRead(Read1(c), Head(c.from)))
  ELSE Ends(c, IF c.from = <<>> THEN "ok" ELSE "partial")

SoftBreak(c) == [Into(c, <<Equals, CR, LF>>) EXCEPT !.st.col = 0]
QpHex(c, b) == [Into(c, HexByte(b)) EXCEPT !.st.col = @ + 3]

\* The character goes back and waits for its successor, or for more room.
Hold(c, b) == Ends([c EXCEPT !.st.held = Append(@, b)], "partial")

\* Blanks must not be the last of their line.
QpBlank(c, b) ==
  LET rest == c.st.held \o c.from
  IN IF rest = <<>> THEN Hold(c, b)
     ELSE IF rest[1] \notin {CR, LF} THEN [Into(c, <<b>>) EXCEPT !.st.col = @ + 1]
     ELSE IF c.room >= 3 /\ c.st.col < MaxCol - 3 THEN QpHex(c, b)
     ELSE Hold(c, b)

QpOther(c, b) ==
  IF c.room <= 3 THEN Hold(c, b)
  ELSE IF c.st.col + 3 <= MaxCol THEN QpHex(c, b)
  ELSE IF c.room - 3 < 3 THEN Hold(SoftBreak(c), b)
  ELSE QpHex(SoftBreak(c), b)

QpWrite(c, b) ==
  CASE isqprint(b) -> [Into(c, <<b>>) EXCEPT !.st.col = @ + 1]
    [] b \in {CR, LF} -> [Into(c, <<b>>) EXCEPT !.st.col = 0]
    [] b \in Blank -> QpBlank(c, b)
    [] OTHER -> QpOther(c, b)

RECURSIVE QpOut(_)
QpOut(c) ==
  LET rest == c.st.held \o c.from
      line == IF c.st.col > MaxCol /\ c.room > 3 THEN SoftBreak(c) ELSE c
      read == IF c.st.held # <<>> THEN [line EXCEPT !.st.held = Tail(@)] ELSE Read1(line)
  IN IF c.res # "go" THEN c
     ELSE IF rest # <<>> /\ c.room > 0 THEN QpOut(QpWrite(read, rest[1]))
     ELSE Ends(c, IF rest = <<>> THEN "ok" ELSE "partial")

-----------------------------------------------------------------------------

In(codec, c) == CASE codec = "utf8" -> Utf8In(c) [] codec = "base64" -> Base64In(c) [] OTHER -> QpIn(c)
Out(codec, c) == CASE codec = "utf8" -> Utf8Out(c) [] codec = "base64" -> Base64Out(c) [] OTHER -> QpOut(c)
Unshift(codec, c) ==
  CASE codec = "utf8" -> Ends(c, "noconv") [] codec = "base64" -> Base64Unshift(c) [] OTHER -> QpOut(c)
=============================================================================
