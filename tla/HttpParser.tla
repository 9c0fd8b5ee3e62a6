----------------------------- MODULE HttpParser -----------------------------
(***************************************************************************)
(* HeaderParser (http/parser.cpp), the automaton that reads the header of  *)
(* a request or of a reply, and MessageHeader, which keeps the fields.     *)
(* Characters are their codes.  A state is a sequence of rules; the first  *)
(* one whose characters hold the character read is taken, and without one  *)
(* the header is in error.                                                 *)
(***************************************************************************)
EXTENDS Parsing, TLC

CONSTANTS
  PieceChars,      \* the characters that arrive in each piece of a header
  MaxToken,        \* bounds the characters of one piece
  MAXHEADERSIZE    \* MessageHeader::MAXHEADERSIZE

Separators == {34, 40, 41, 44, Slash, Colon} \cup (59..64) \cup {91, 92, 93, 123, 125}
TokenChar == Alpha \cup Separators
HTTP == <<72, 84, 84, 80>>

VARIABLES
  hp,        \* state, token, value of the parser; client: it reads replies
  out,       \* the events of the last character, and what is behind them
  _key,      \* MessageHeaderEvent::_key
  size,      \* MessageHeader::_endOffset
  raw,       \* history: the characters of the piece being read
  named,     \* history: the field name that was read last
  told       \* history: how many keys and how many values were told

httpVars == <<hp, out, _key, size, raw, named, told>>

-----------------------------------------------------------------------------
(* The rules: characters, what is done, next state.                        *)

\* state_cmd0 to state_url0.
Method ==
  [cmd0 |-> << <<TokenChar, "set", "cmd">>, <<Blank, "keep", "cmd">> >>,
   cmd  |-> << <<TokenChar, "add", "cmd">>, <<{SP}, "method", "url0">> >>,
   url0 |-> << <<Blank, "keep", "url0">>, <<{Slash}, "clear", "url">>, <<{42}, "set", "url">>,
               <<Alpha, "set", "uri_protocol">> >>]

\* state_uri_protocol to state_uri_host; state_uri_protocol_e counts slashes.
Uri ==
  [uri_protocol |-> << <<Alpha, "keep", "uri_protocol">>, <<{Colon}, "clear", "uri_protocol_e">> >>,
   uri_host |-> << <<Alpha \cup Digit \cup {46, Colon, 91, 93}, "keep", "uri_host">>,
                   <<{Slash}, "set", "url">> >>]

\* state_url and state_qparam.
UrlWith(plus) ==
  [url |-> << <<{63}, "url", "qparam">>, <<Blank, "url", "protocol0">>, <<{43}, plus, "url">>,
              <<{Percent}, "add", "urlesc">>, <<(SP + 1)..127, "add", "url">> >>,
   qparam |-> << <<Blank, "query", "protocol0">>, <<Every, "add", "qparam">> >>]

Url == UrlWith("space")

\* state_protocol0 to state_end0; state_protocol asks for HTTP.
Version ==
  [protocol0 |-> << <<Blank, "keep", "protocol0">>, <<Alpha, "set", "protocol">> >>,
   version0 |-> << <<Blank, "keep", "version0">>, <<{Slash}, "keep", "version_major">> >>,
   version_major |-> << <<Blank, "keep", "version_major">>, <<{49}, "keep", "version_major_e">> >>,
   version_major_e |-> << <<Blank, "keep", "version_major_e">>, <<{46}, "keep", "version_minor">> >>,
   version_minor |-> << <<Blank, "keep", "version_minor">>, <<{48, 49}, "version", "end0">> >>,
   end0 |-> << <<{LF}, "keep", "h0">>, <<Blank \cup {CR}, "keep", "end0">> >>]

\* state_h0 to state_hfieldnamespace.
FieldName ==
  [h0 |-> << <<Blank, "keep", "h0">>, <<Visible, "set", "hfieldname">>, <<{CR}, "keep", "hcr">>,
             <<{LF}, "end", "end">> >>,
   hcr |-> << <<{LF}, "end", "end">> >>,
   hfieldname |-> << <<{Colon}, "key", "hfieldbody0">>, <<Blank, "key", "hfieldnamespace">>,
                     <<Visible, "add", "hfieldname">> >>,
   hfieldnamespace |-> << <<{Colon}, "keep", "hfieldbody0">>, <<Blank, "keep", "hfieldnamespace">> >>]

\* state_hfieldbody0 to state_hend_cr.
FieldBodyWith(fold, last) ==
  [hfieldbody0 |-> << <<{CR}, "keep", "hfieldbody_cr">>, <<{LF}, "keep", "hfieldbody_crlf">>,
                      <<Blank \cup {11, 12}, "keep", "hfieldbody0">>, <<Every, "set", "hfieldbody">> >>,
   hfieldbody |-> << <<{CR}, "keep", "hfieldbody_cr">>, <<{LF}, "keep", "hfieldbody_crlf">>,
                     <<Every, "add", "hfieldbody">> >>,
   hfieldbody_cr |-> << <<{LF}, "keep", "hfieldbody_crlf">> >>,
   hfieldbody_crlf |-> << <<{CR}, "value", "hend_cr">>, <<{LF}, last, "end">>,
                          <<Blank, fold, "hfieldbody">>, <<Visible, "valueset", "hfieldname">> >>,
   hend_cr |-> << <<{LF}, "end", "end">> >>]

FieldBodyCut == FieldBodyWith("set", "valueend")

FieldBody == FieldBodyWith("add", "valueend")

\* state_cl_protocol0 to state_cl_version_minor.
ClVersion ==
  [cl_protocol0 |-> << <<Blank, "keep", "cl_protocol0">>, <<Alpha, "set", "cl_protocol">> >>,
   cl_version0 |-> << <<Blank, "keep", "cl_version0">>, <<{Slash}, "keep", "cl_version_major">> >>,
   cl_version_major |-> << <<Blank, "keep", "cl_version_major">>, <<{49}, "keep", "cl_version_major_e">> >>,
   cl_version_major_e |-> << <<Blank, "keep", "cl_version_major_e">>, <<{46}, "keep", "cl_version_minor">> >>,
   cl_version_minor |-> << <<Blank, "keep", "cl_version_minor">>, <<{48, 49}, "version", "cl_httpresult0">> >>]

\* state_cl_httpresult0 to state_cl_httpresult_cr, and the two last states.
Result ==
  [cl_httpresult0 |-> << <<Blank, "keep", "cl_httpresult0">>, <<Digit, "digit0", "cl_httpresult">> >>,
   cl_httpresult |-> << <<Digit, "digit", "cl_httpresult">>, <<Blank, "clear", "cl_httpresulttext">>,
                        <<Every, "keep", "cl_httpresult">> >>,
   cl_httpresulttext |-> << <<{CR}, "return", "cl_httpresult_cr">>, <<{LF}, "return", "h0">>,
                            <<Every, "addtext", "cl_httpresulttext">> >>,
   cl_httpresult_cr |-> << <<{LF}, "keep", "h0">> >>]

Rules == Method @@ Uri @@ Url @@ Version @@ FieldName @@ FieldBody @@ ClVersion @@ Result

-----------------------------------------------------------------------------
(* One character.                                                          *)

Go(p, s) == [p EXCEPT !.state = s]
Taken(p, s, t) == [p EXCEPT !.state = s, !.token = t]

valueOfHexDigit(c) ==
  IF c \in Digit THEN c - 48 ELSE IF c \in 97..122 THEN c - 87
  ELSE IF c \in 65..90 THEN c - 55 ELSE 0

\* The bits of k, which is at most two, joined to those of n.
Or(n, k) == IF k = 0 \/ (n \div k) % 2 = 1 THEN n ELSE n + k

\* (high << 4) | low, where letters behind F are digits too.
Unescaped(high, low) == 16 * Or(high, low \div 16) + (low % 16)

\* state_urlesc.
Escape(p, c) ==
  LET n == Len(p.token)
      v == Unescaped(valueOfHexDigit(p.token[n]), valueOfHexDigit(c))
  IN IF c \notin Alnum THEN Go(p, "error")
     ELSE IF n < 2 \/ p.token[n - 1] # Percent THEN Taken(p, "urlesc", Append(p.token, c))
     ELSE IF v = 0 THEN Go(p, "error")
     ELSE Taken(p, "url", Append(SubSeq(p.token, 1, n - 2), v % 256))

\* state_uri_protocol_e.
TwoSlashes(p, c) ==
  IF Len(p.token) < 2 /\ c = Slash THEN Taken(p, "uri_protocol_e", Append(p.token, c))
  ELSE IF Len(p.token) = 2 /\ c \in Alpha THEN Taken(p, "uri_host", <<c>>)
  ELSE Go(p, "error")

toupper(c) == IF c \in 97..122 THEN c - 32 ELSE c

\* state_protocol and state_cl_protocol.
Protocol(p, c) ==
  LET client == p.state = "cl_protocol"
  IN IF c \in Alpha THEN Taken(p, p.state, Append(p.token, toupper(c)))
     ELSE IF c \notin Blank \cup {Slash} \/ p.token # HTTP THEN Go(p, "error")
     ELSE IF c = Slash THEN Go(p, IF client THEN "cl_version_major" ELSE "version_major")
     ELSE Go(p, IF client THEN "cl_version0" ELSE "version0")

\* The rule that is taken: what is done and the next state.
Rule(p, c) ==
  LET rules == IF p.state \in DOMAIN Rules THEN Rules[p.state] ELSE <<>>
  IN IF Matching(rules, c) = {} THEN <<{}, "keep", "error">> ELSE FirstRule(rules, c)

Done(p, c, do, next) ==
  LET token == CASE do \in {"set", "valueset"} -> <<c>>
                 [] do = "add" -> Append(p.token, c)
                 [] do = "space" -> Append(p.token, SP)
                 [] do = "addtext" -> IF p.token = <<>> /\ c \in Blank THEN <<>> ELSE Append(p.token, c)
                 [] do \in {"clear", "url", "query"} -> <<>>
                 [] OTHER -> p.token
      value == CASE do = "digit0" -> c - 48
                 [] do = "digit" -> p.value * 10 + (c - 48)
                 [] OTHER -> p.value
  IN [p EXCEPT !.state = next, !.token = token, !.value = value]

Parsed(p, c, rule) ==
  CASE p.state = "urlesc" -> Escape(p, c)
    [] p.state = "uri_protocol_e" -> TwoSlashes(p, c)
    [] p.state \in {"protocol", "cl_protocol"} -> Protocol(p, c)
    [] OTHER -> Done(p, c, rule[2], rule[3])

\* The events of what is done.
Events(do) ==
  (IF do \in {"method", "url", "query", "version", "key", "return"} THEN {do} ELSE {})
  \cup (IF do \in {"value", "valueend", "valueset"} THEN {"value"} ELSE {})
  \cup (IF do \in {"end", "valueend"} THEN {"end"} ELSE {})

Piece(s) ==
  CASE s \in {"cmd0", "cmd"} -> "method"
    [] s \in {"url", "urlesc"} -> "url"
    [] s = "qparam" -> "query"
    [] s = "hfieldname" -> "name"
    [] s \in {"hfieldbody0", "hfieldbody", "hfieldbody_cr", "hfieldbody_crlf"} -> "value"
    [] s = "cl_httpresulttext" -> "text"
    [] s = "cl_httpresult" -> "code"
    [] s \in {"protocol", "cl_protocol"} -> "protocol"
    [] OTHER -> "line"

Quiet == [evs |-> {}, got |-> <<>>, raw |-> <<>>, key |-> <<>>, name |-> <<>>]

\* setHeader(): the field and the end marker have to fit.
TooBig(p) == size + Len(_key) + Len(p.token) + 2 > MAXHEADERSIZE

\* MessageHeaderEvent gets the events of a character.  A header that is too
\* big throws, and nobody asks the parser any more.
TellEvents(p, evs) ==
  IF "value" \in evs /\ TooBig(hp)
  THEN hp' = Go(hp, "thrown") /\ out' = Quiet /\ UNCHANGED <<_key, size>>
  ELSE /\ hp' = p
       /\ out' = IF evs = {} THEN Quiet ELSE [evs |-> evs, got |-> hp.token, raw |-> raw, key |-> _key, name |-> named]
       /\ _key' = IF "key" \in evs THEN hp.token ELSE _key
       /\ size' = IF "value" \in evs THEN size + Len(_key) + Len(hp.token) + 2 ELSE size

\* The history of the piece and of the field that are being read.
Note(c, do, evs, piece) ==
  /\ raw' = IF piece = "line" THEN <<>> ELSE IF piece = Piece(hp.state) THEN Append(raw, c)
            ELSE IF do \in {"set", "valueset", "digit0"} THEN <<c>> ELSE <<>>
  /\ named' = IF "key" \in evs THEN raw ELSE IF "end" \in evs THEN <<>> ELSE named
  /\ told' = [keys |-> told.keys + (IF "key" \in evs THEN 1 ELSE 0),
              values |-> told.values + (IF "value" \in evs THEN 1 ELSE 0)]

\* parse()
Reads(c, rule, p) == TellEvents(p, Events(rule[2])) /\ Note(c, rule[2], Events(rule[2]), Piece(p.state))
ParseBy(c, rule) == Reads(c, rule, Parsed(hp, c, rule))
Parse(c) == hp.state \notin {"end", "error", "thrown"} /\ Len(raw) < MaxToken /\ ParseBy(c, Rule(hp, c))

\* reset() and MessageHeader::clear() before the next header: the token stays.
Reset ==
  /\ hp.state = "end"
  /\ hp' = Go(hp, IF hp.client THEN "cl_protocol0" ELSE "cmd0")
  /\ out' = Quiet
  /\ size' = 0 /\ raw' = <<>> /\ named' = <<>> /\ told' = [keys |-> 0, values |-> 0]
  /\ UNCHANGED _key

HttpBegins(client) ==
  /\ hp = [state |-> IF client THEN "cl_protocol0" ELSE "cmd0", token |-> <<>>, value |-> 0, client |-> client]
  /\ out = Quiet
  /\ _key = <<>> /\ size = 0 /\ raw = <<>> /\ named = <<>> /\ told = [keys |-> 0, values |-> 0]

HttpInit == \E client \in BOOLEAN : HttpBegins(client)

HttpNext == (\E c \in PieceChars[Piece(hp.state)] : Parse(c)) \/ Reset

-----------------------------------------------------------------------------
(* Properties.                                                             *)

HttpTypeOK ==
  /\ hp.state \in DOMAIN Rules \cup {"urlesc", "uri_protocol_e", "protocol", "cl_protocol", "end", "error", "thrown"}
  /\ size \in 0..MAXHEADERSIZE /\ Len(hp.token) <= 2 * MaxToken
  /\ told.keys - told.values \in 0..1

\* What an encoded URL stands for, read from its end.
DecodedFrom(text) ==
  LET from[i \in 1..(Len(text) + 1)] ==
        IF i > Len(text) THEN <<>>
        ELSE IF text[i] = 43 THEN <<SP>> \o from[i + 1]
        ELSE IF text[i] = Percent /\ i + 2 <= Len(text)
          THEN <<16 * valueOfHexDigit(text[i + 1]) + valueOfHexDigit(text[i + 2])>> \o from[i + 3]
        ELSE <<text[i]>> \o from[i + 1]
  IN from[1]

\* A percent sign that was itself escaped, in front of an escape.
Doubled(text) == \E i \in 1..(Len(text) - 3) : SubSeq(text, i, i + 3) = <<Percent, 50, 53, Percent>>

\* The URL told is the decoded text between the method and the blank or the
\* question mark, unless an escaped percent sign is in front of an escape.
UrlRead == "url" \in out.evs /\ ~Doubled(out.raw) => out.got = DecodedFrom(out.raw)

\* White space in front of a value does not belong to it, line ends do not
\* either.
Unfolded(text) ==
  LET s == SelectSeq(text, LAMBDA c : c \notin {CR, LF})
      first == CHOOSE i \in 1..(Len(s) + 1) :
                 (\A j \in 1..(i - 1) : s[j] \in Blank) /\ (i <= Len(s) => s[i] \notin Blank)
  IN SubSeq(s, first, Len(s))

\* The value starts on the line of its name.
OnNameLine(text) ==
  \E i \in DOMAIN text : text[i] \notin Blank \cup {CR, LF} /\ \A j \in 1..(i - 1) : text[j] \in Blank

\* A field is told with the name in front of its own colon and with all the
\* lines of its value, if the first of these is not empty.
FieldRead ==
  "value" \in out.evs => out.key = out.name /\ (OnNameLine(out.raw) => out.got = Unfolded(out.raw))

\* The end of a header is told when each of its names has got a value.
EndIsLast == "end" \in out.evs => hp.state = "end" /\ told.keys = told.values

\* Header lines are told as they were written.
HeadersRead == HttpTypeOK /\ UrlRead /\ FieldRead /\ EndIsLast
=============================================================================
