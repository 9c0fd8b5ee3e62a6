-------------------------------- MODULE Json --------------------------------
(***************************************************************************)
(* JsonFormatter (jsonformatter.cpp) writes a tree of values, JsonParser   *)
(* (jsonparser.cpp) reads it character by character and builds a tree in a *)
(* Deserializer.  A parser has a parser for its members, which has one for *)
(* its own: a sequence of levels.  White space and comments may stand      *)
(* between the parts of a text.                                            *)
(***************************************************************************)
EXTENDS Parsing, TLC
LOCAL INSTANCE SequencesExt

CONSTANTS
  Documents,       \* trees that are written
  MaxDepth,        \* bounds the levels of a text
  Noises           \* blanks and comments put between the parts of a text

VARIABLES
  levels,     \* the parsers: JsonParser, its _next, ...
  current,    \* Deserializer::_current, from the root
  source,     \* the tree, the text it was written as and how
  at,         \* how many characters of the text were read
  noise,      \* a comment or blanks that are being read
  reads       \* reading, done, thrown; and what was put in

jsonVars == <<levels, current, source, at, noise, reads>>

-----------------------------------------------------------------------------
(* The formatter: what it writes, level by level.                          *)

Hex4(v) == [i \in 1..4 |-> HexChar((v \div 16^(4 - i)) % 16)]

Short == (8 :> 98) @@ (12 :> 102) @@ (LF :> 110) @@ (CR :> 114) @@ (HT :> 116) @@ (Quote :> Quote) @@ (Backslash :> Backslash)

\* stringOut() for both kinds of strings.
stringOut(str) ==
  FlattenSeq([i \in DOMAIN str |->
    LET c == str[i]
    IN CASE c \in DOMAIN Short -> <<Backslash, Short[c]>>
         [] c >= 65536 -> <<Backslash, 117>> \o Hex4(55296 + ((c - 65536) \div 1024))
                          \o <<Backslash, 117>> \o Hex4(56320 + (c % 1024))
         [] c \in 128..65535 \/ c < 32 -> <<Backslash, 117>> \o Hex4(c)
         [] OTHER -> <<c>>])

isplain(str) ==
  str # <<>> /\ str[1] \in Alpha /\ \A i \in DOMAIN str : str[i] \in Alnum \cup {Underscore}

Nowhere == 1000   \* _lastLevel behind begin()

indent(f) == IF f.beautify THEN [i \in 1..f.level |-> HT] ELSE <<>>
If(b, str) == IF b THEN str ELSE <<>>

NameOut(f, name) ==
  If(name # <<>>,
     (IF f.plainkey /\ isplain(name) THEN name ELSE <<Quote>> \o stringOut(name) \o <<Quote>>)
     \o <<Colon>> \o If(f.beautify, <<SP>>))

\* What is written in front of a value, an array or an object.
Opened(f, name) ==
  [f EXCEPT !.text = @ \o If(f.level = f.lastLevel, <<Comma>> \o If(f.beautify, <<LF>>))
                       \o indent(f) \o NameOut(f, name),
            !.lastLevel = f.level, !.level = @ + 1]

addValue(f, n) ==
  LET o == Opened(f, n.name)
      text == IF n.type = "string" THEN <<Quote>> \o stringOut(n.value) \o <<Quote>> ELSE n.value
  IN [o EXCEPT !.text = @ \o text, !.level = @ - 1]

beginArray(f, name) ==
  LET o == Opened(f, name) IN [o EXCEPT !.text = @ \o <<91>> \o If(f.beautify, <<LF>>)]

beginObject(f, name) ==
  LET o == Opened(f, name) IN [o EXCEPT !.text = @ \o <<123>> \o If(f.beautify, <<LF>>)]

ClosedForgets(f, c) == [f EXCEPT !.level = @ - 1, !.text = @ \o <<c>>]

\* finishArray() and finishObject()
Closed(f, c) ==
  LET g == [f EXCEPT !.level = @ - 1]
  IN [g EXCEPT !.lastLevel = g.level, !.text = @ \o If(f.beautify, <<LF>>) \o indent(g) \o <<c>>]

\* IDecomposer::formatEach()
RECURSIVE formatEach(_, _)
formatEach(f, n) ==
  CASE n.cat = "Value" -> addValue(f, n)
    [] n.cat = "Object" -> Closed(FoldLeft(formatEach, beginObject(f, n.name), n.members), 125)
    [] n.cat = "Array" -> Closed(FoldLeft(formatEach, beginArray(f, n.name), n.members), 93)

\* begin(), format() and finish()
Written(tree, beautify, plainkey) ==
  formatEach([text |-> <<>>, level |-> 0, lastLevel |-> Nowhere, beautify |-> beautify, plainkey |-> plainkey], tree).text
  \o If(beautify, <<LF>>)

-----------------------------------------------------------------------------
(* The parser of strings.                                                  *)

NoString == [state |-> "null", str |-> <<>>, count |-> 0, value |-> 0, surrogate |-> 0, thrown |-> FALSE]
Failed(s) == [s EXCEPT !.thrown = TRUE]
Unescape == [c \in {Quote, Backslash, Slash, 98, 102, 110, 114, 116} |->
             CASE c = 98 -> 8 [] c = 102 -> 12 [] c = 110 -> LF [] c = 114 -> CR [] c = 116 -> HT [] OTHER -> c]

IsHigh(v) == v \div 1024 = 54
IsLow(v) == v \div 1024 = 55
fromUtf16(lo, hi) == (hi % 1024) * 1024 + (lo % 1024) + 65536

\* The fourth digit of an escape.
Escaped(s) ==
  LET add(c) == [s EXCEPT !.state = "null", !.str = Append(@, c)]
  IN CASE s.state = "hex" /\ IsHigh(s.value) -> [s EXCEPT !.state = "highsurrogate0", !.surrogate = s.value]
       [] s.state = "hex" /\ IsLow(s.value) -> [s EXCEPT !.state = "lowsurrogate0", !.surrogate = s.value]
       [] s.state = "hex" -> add(s.value)
       [] s.state = "lowsurrogate_hex" -> IF IsHigh(s.value) THEN add(fromUtf16(s.surrogate, s.value)) ELSE Failed(s)
       [] s.state = "highsurrogate_hex" -> IF IsLow(s.value) THEN add(fromUtf16(s.value, s.surrogate)) ELSE Failed(s)

HexDigitRead(s, c) ==
  LET one == [s EXCEPT !.value = @ * 16 + HexValue(c), !.count = @ - 1]
  IN IF one.count = 0 THEN Escaped(one) ELSE one

\* JsonStringParser::advance(), where the end of the string is state end.
StringAdvance(s, c) ==
  LET digits(state) == [s EXCEPT !.state = state, !.value = 0, !.count = 4]
  IN CASE s.state = "null" -> (CASE c = Backslash -> [s EXCEPT !.state = "esc"]
                                 [] c = Quote -> [s EXCEPT !.state = "end"]
                                 [] OTHER -> [s EXCEPT !.str = Append(@, c)])
       [] s.state = "esc" -> (CASE c \in DOMAIN Unescape -> [s EXCEPT !.state = "null", !.str = Append(@, Unescape[c])]
                                [] c = 117 -> digits("hex")
                                [] OTHER -> Failed([s EXCEPT !.state = "null"]))
       [] s.state \in {"hex", "lowsurrogate_hex", "highsurrogate_hex"} ->
            IF c \in HexDigits THEN HexDigitRead(s, c) ELSE Failed(s)
       [] s.state = "lowsurrogate0" -> IF c = Backslash THEN [s EXCEPT !.state = "lowsurrogate_esc"] ELSE Failed(s)
       [] s.state = "highsurrogate0" -> IF c = Backslash THEN [s EXCEPT !.state = "highsurrogate_esc"] ELSE Failed(s)
       [] s.state = "lowsurrogate_esc" -> IF c = 117 THEN digits("lowsurrogate_hex") ELSE Failed(s)
       [] s.state = "highsurrogate_esc" -> IF c = 117 THEN digits("highsurrogate_hex") ELSE Failed(s)

-----------------------------------------------------------------------------
(* The parser.  A rule: characters, what is done, the next state.          *)

Comment(back) == <<{Slash}, "comment", back>>
Member == << <<{Quote}, "clear", "object_name">>, Comment("object_next_member"), <<Alpha, "set", "object_plainname">>,
             <<Space, "keep", "object_next_member">> >>
Numeric == Digit \cup {Plus, Minus, Dot, 69, 101}

Objects ==
  [object |-> << <<{Quote}, "clear", "object_name">>, <<{125}, "done", "end">>, Comment("object"),
                 <<Alpha, "set", "object_plainname">>, <<Space, "keep", "object">> >>,
   object_plainname |-> << <<Alnum, "add", "object_plainname">>, <<Space, "plain", "object_after_name">>,
                           <<{Colon}, "plainmember", "object_value">> >>,
   object_after_name |-> << <<{Colon}, "member", "object_value">>, Comment("object_after_name"),
                            <<Space, "keep", "object_after_name">> >>,
   object_e |-> << <<{Comma}, "keep", "object_next_member0">>, <<{125}, "done", "end">>, Comment("object_e"),
                   <<Space, "keep", "object_e">> >>,
   object_next_member0 |-> << <<{125}, "done", "end">>, <<Space, "keep", "object_next_member0">> >> \o Member,
   object_next_member |-> Member]

ArraysWith(leave) ==
  [array |-> << <<{93}, "done", "end">>, Comment("array"), <<Space, "keep", "array">>, <<Every, "first", "array_value">> >>,
   array_value0 |-> << <<{93}, "done", "end">>, <<Space, "keep", "array_value0">>, <<Every, "first", "array_value">> >>,
   array_e |-> << <<{93}, "leavedone", "end">>, <<{Comma}, leave, "array_value0">>, Comment("array_e"),
                  <<Space, "keep", "array_e">> >>]

Arrays == ArraysWith("leave")

Scalars ==
  [null |-> << <<{123}, "object", "object">>, <<{91}, "array", "array">>, <<{Quote}, "value", "string">>,
               <<Digit \cup {Plus, Minus}, "number", "number">>, Comment("null"), <<Space, "keep", "null">>,
               <<Every, "set", "token">> >>,
   number |-> << <<Space, "intspace", "number">>, <<{Dot, 69, 101}, "add", "real">>, <<Digit, "add", "number">>,
                 <<Every, "int", "number">> >>,
   real |-> << <<Space, "doublespace", "real">>, <<Numeric, "add", "real">>, <<Every, "double", "real">> >>,
   token |-> << <<Alpha, "add", "token">>, <<Every, "token", "token">> >>]

Comments ==
  [comment0 |-> << <<{Slash}, "keep", "commentline">>, <<{Star}, "keep", "comment">> >>,
   commentline |-> << <<{LF}, "back", "">>, <<Every, "keep", "commentline">> >>,
   comment |-> << <<{Star}, "keep", "comment_e">>, <<Every, "keep", "comment">> >>,
   comment_e |-> << <<{Slash}, "back", "">>, <<{Star}, "keep", "comment_e">>, <<Every, "keep", "comment">> >>,
   end |-> << Comment("end"), <<Space, "keep", "end">> >>]

JsonRules == Objects @@ Arrays @@ Scalars @@ Comments

True == <<116, 114, 117, 101>>
False == <<102, 97, 108, 115, 101>>
Null == <<110, 117, 108, 108>>

NewLevel == [state |-> "beforestart", back |-> "null", token |-> <<>>, string |-> NoString]

\* begin() leaves the parser of strings as it is.
Begun(l) == [l EXCEPT !.state = "beforestart", !.token = <<>>]

\* m: the levels, the deserializer, what advance() returns, thrown or not.
\* Utf8Codec::encode() of a name, for characters up to 0x7ff.
Utf8(str) ==
  FlattenSeq([i \in DOMAIN str |-> IF str[i] < 128 THEN <<str[i]>> ELSE <<192 + (str[i] \div 64), 128 + (str[i] % 64)>>])

\* The end of a token: true, false or null.
TokenEnds(m, token) ==
  CASE token \in {True, False} -> Set(m, "bool", token)
    [] token = Null -> Set(m, "null", token)
    [] OTHER -> m

\* One rule in level d.
JsonDo(m, d, r, c) ==
  LET l == m.lv[d]
      go == [m EXCEPT !.lv[d].state = r[3]]
      token(t) == [go EXCEPT !.lv[d].token = t]
      named(str) == [beginMember([go EXCEPT !.lv[d].string = NoString, !.lv[d].token = <<>>], Utf8(str), "Void")
                     EXCEPT !.lv[d + 1] = Begun(@)]
      number(type, ret) == [Set(token(<<>>), type, l.token) EXCEPT !.ret = ret]
  IN CASE r[2] = "keep" -> go
       [] r[2] = "set" -> token(<<c>>)
       [] r[2] = "add" -> token(Append(l.token, c))
       [] r[2] = "number" -> setCategory(token(<<c>>), "Value")
       [] r[2] = "value" -> setCategory(go, "Value")
       [] r[2] = "object" -> setCategory(go, "Object")
       [] r[2] = "array" -> setCategory(go, "Array")
       [] r[2] = "comment" -> [m EXCEPT !.lv[d].back = r[3], !.lv[d].state = "comment0"]
       [] r[2] = "back" -> [m EXCEPT !.lv[d].state = l.back]
       [] r[2] = "clear" -> [go EXCEPT !.lv[d].string = NoString]
       [] r[2] = "plain" -> [token(<<>>) EXCEPT !.lv[d].string.str = l.token]
       [] r[2] = "plainmember" -> named(l.token)
       [] r[2] = "member" -> named(l.string.str)
       [] r[2] = "done" -> [go EXCEPT !.ret = 1]
       [] r[2] = "leave" -> leaveMember(go)
       [] r[2] = "leavedone" -> [leaveMember(go) EXCEPT !.ret = 1]
       [] r[2] = "intspace" -> number("int", 1)
       [] r[2] = "int" -> number("int", -1)
       [] r[2] = "doublespace" -> number("double", 1)
       [] r[2] = "double" -> number("double", -1)
       [] r[2] = "token" -> IF l.token \in {True, False, Null}
                            THEN [TokenEnds(token(<<>>), l.token) EXCEPT !.ret = -1] ELSE Threw(m)

JsonString(m, d, c) ==
  LET s == StringAdvance(m.lv[d].string, c)
      n == [m EXCEPT !.lv[d].string = s]
      named == m.lv[d].state = "object_name"
  IN IF s.thrown THEN Threw([n EXCEPT !.lv[d].string.thrown = FALSE])
     ELSE IF s.state # "end" THEN n
     ELSE IF named THEN [n EXCEPT !.lv[d].state = "object_after_name", !.lv[d].string.state = "null"]
     ELSE [Set(n, "string", s.str) EXCEPT !.lv[d].string = NoString, !.lv[d].state = "end", !.ret = 1]

\* advance() of level d when no member is being read.
Own(m, d, c) ==
  LET s == IF m.lv[d].state = "beforestart" /\ c \notin Space THEN "null" ELSE m.lv[d].state
  IN CASE s = "beforestart" -> m
       [] s \in {"string", "object_name"} -> JsonString(m, d, c)
       [] s \notin {"beforestart", "string", "object_name"} /\ Matching(JsonRules[s], c) = {} -> Threw(m)
       [] OTHER -> JsonDo([m EXCEPT !.lv[d].state = s], d, FirstRule(JsonRules[s], c), c)

Begins(m, d, c) ==
  m.lv[d].state \in {"array", "array_value0"}
  /\ c \notin Space \cup {93} /\ (m.lv[d].state = "array" => c # Slash)

\* A member of an array begins, and its parser gets the character.
Started(m, d, c) ==
  IF Begins(m, d, c)
  THEN Own([beginMember(m, <<>>, "Void") EXCEPT !.lv[d].state = "array_value", !.lv[d + 1] = Begun(@)], d + 1, c)
  ELSE Own(m, d, c)

\* ... and when the parser of the member has returned.
Returned(m, d, c) ==
  LET object == m.lv[d].state = "object_value"
      up == [m EXCEPT !.ret = 0, !.lv[d].state = IF object THEN "object_e" ELSE "array_e"]
      e == IF object THEN leaveMember(up) ELSE up
  IN IF m.err \/ m.ret = 0 THEN m
     ELSE IF m.ret = -1 /\ ~e.err THEN Own(e, d, c) ELSE e

Inside == {"object_value", "array_value"}

\* The level that reads.
Active(lv) == CHOOSE d \in DOMAIN lv : lv[d].state \notin Inside /\ \A e \in 1..(d - 1) : lv[e].state \in Inside

Advance(c) ==
  LET m == [lv |-> levels, cur |-> current, ret |-> 0, err |-> FALSE]
      deepest == Active(levels)
      from[d \in 1..deepest] == IF d = deepest THEN Started(m, d, c) ELSE Returned(from[d + 1], d, c)
  IN from[1]

\* finish()
Finish(m) ==
  LET l == m.lv[1]
      s == IF l.state = "commentline" THEN l.back ELSE l.state
  IN CASE m.err -> m
       [] ~m.err /\ s = "number" -> Set(m, "int", l.token)
       [] ~m.err /\ s = "real" -> Set(m, "double", l.token)
       [] ~m.err /\ s = "token" -> TokenEnds(m, l.token)
       [] ~m.err /\ s = "end" -> m
       [] OTHER -> Threw(m)

-----------------------------------------------------------------------------
(* Reading a text.                                                         *)

\* JsonDeserializer's loop, for one character.
Feed(c) ==
  LET a == Advance(c)
      m == IF a.ret # 0 \/ a.err THEN Finish(a) ELSE a
  IN /\ levels' = m.lv /\ current' = m.cur
     /\ reads' = [reads EXCEPT !.state = IF m.err THEN "thrown" ELSE IF a.ret # 0 THEN "done" ELSE @]

ReadChar ==
  /\ reads.state = "reading" /\ noise = <<>> /\ at < Len(source.text)
  /\ Feed(source.text[at + 1])
  /\ at' = at + 1
  /\ UNCHANGED <<source, noise>>

\* The text has a blank or a comment here, where a part of it begins.
Between ==
  LET s == levels[Active(levels)].state
  IN \/ s \in {"beforestart", "null", "object", "object_after_name", "object_e", "object_next_member0",
               "object_next_member", "array", "array_value0", "array_e"}
     \/ s \in {"number", "real", "token"} /\ source.text[at + 1] \in {Comma, 93, 125}

Interrupted(n) ==
  /\ reads.state = "reading" /\ noise = <<>> /\ ~reads.noised /\ at < Len(source.text) /\ Between
  /\ noise' = n /\ reads' = [reads EXCEPT !.noised = TRUE]
  /\ UNCHANGED <<levels, current, source, at>>

ReadNoise ==
  /\ reads.state = "reading" /\ noise # <<>>
  /\ Feed(noise[1])
  /\ noise' = Tail(noise)
  /\ UNCHANGED <<source, at>>

ReadEnd ==
  /\ reads.state = "reading" /\ noise = <<>> /\ at = Len(source.text)
  /\ LET m == Finish([lv |-> levels, cur |-> current, ret |-> 0, err |-> FALSE])
     IN current' = m.cur /\ reads' = [reads EXCEPT !.state = IF m.err THEN "thrown" ELSE "done"]
  /\ UNCHANGED <<levels, source, at, noise>>

\* The connection is lost: nobody reads the rest.
ReadAborted ==
  /\ reads.state = "reading" /\ reads.number = 1 /\ ~reads.noised /\ noise = <<>> /\ at > 0
  /\ reads' = [reads EXCEPT !.state = "aborted"]
  /\ UNCHANGED <<levels, current, source, at, noise>>

Sourced(t, b, p) == [tree |-> t, text |-> Written(t, b, p), beautify |-> b, plainkey |-> p]
Again == Node(<<>>, "Array", "", <<>>)
AgainWith(n) == [Again EXCEPT !.members = <<n>>]

\* JsonDeserializer::begin() for the next text, with the same parsers.
BeginAgain ==
  /\ reads.state # "reading" /\ reads.number = 1
  /\ source' = Sourced(AgainWith(Node(<<>>, "Value", "string", <<97>>)), FALSE, FALSE)
  /\ levels' = [levels EXCEPT ![1] = Begun(@)]
  /\ current' = Root
  /\ at' = 0 /\ noise' = <<>>
  /\ reads' = [state |-> "reading", number |-> 2, noised |-> FALSE,
               stale |-> \E d \in DOMAIN levels : levels[d].string # NoString]

JsonBegins(t, b, p) ==
  /\ source = Sourced(t, b, p)
  /\ levels = [d \in 1..MaxDepth |-> NewLevel]
  /\ current = Root
  /\ at = 0 /\ noise = <<>>
  /\ reads = [state |-> "reading", number |-> 1, noised |-> FALSE, stale |-> FALSE]

JsonInit == \E t \in Documents, b \in BOOLEAN, p \in BOOLEAN : JsonBegins(t, b, p)

JsonNext ==
  ReadChar \/ (\E n \in Noises : Interrupted(n)) \/ ReadNoise \/ ReadEnd \/ ReadAborted \/ BeginAgain

-----------------------------------------------------------------------------
(* Properties.                                                             *)

JsonTypeOK ==
  /\ \A d \in DOMAIN levels :
       /\ levels[d].state \in DOMAIN JsonRules \cup Inside \cup {"beforestart", "string", "object_name"}
       /\ levels[d].string.count \in 0..4
  /\ reads.state \in {"reading", "done", "thrown", "aborted"}

\* The deserializer is inside of one member for each level that is inside of
\* one: a value goes to the node of the level that reads it.  An array leaves
\* a member one step later, at the comma or at its end.
MembersMatchLevels ==
  reads.state = "reading" =>
    LET inArray(l) == l.state = "array_e" \/ (l.state \in DOMAIN Comments \ {"end"} /\ l.back = "array_e")
        last == Active(levels)
    IN Len(current) = last + (IF inArray(levels[last]) THEN 1 ELSE 0)

RECURSIVE NamesIn(_)
NamesIn(n) == {n.name} \cup UNION {NamesIn(n.members[i]) : i \in DOMAIN n.members}

\* What the formatter writes and the parser does not read: a number alone
\* with a line end behind it, a plain name with an underscore, a name that
\* is not ASCII.
Unreadable(s) ==
  \/ s.tree.cat = "Value" /\ s.tree.type \in {"int", "double"} /\ s.beautify
  \/ s.plainkey /\ \E str \in NamesIn(s.tree) : isplain(str) /\ \E i \in DOMAIN str : str[i] = Underscore
  \/ \E str \in NamesIn(s.tree) : \E i \in DOMAIN str : str[i] > 127

\* A tree is read as it was written, with comments and white space between
\* its parts, also by parsers that have read another text before, provided
\* that it did not end inside of a string.
ReadsBack ==
  ~Unreadable(source) /\ ~reads.stale =>
    /\ reads.state # "thrown"
    /\ reads.state = "done" => current = <<source.tree>>

\* A name that starts with a letter and has only letters, digits and
\* underscores behind it needs no quotes.
\* The code does not keep it: README, section 6.
PlainNamesRead ==
  reads.number = 1 /\ (\A str \in NamesIn(source.tree) : str = <<>> \/ isplain(str)) => reads.state # "thrown"

\* JSON is read back as it was written, with one member for each level.
JsonRead == JsonTypeOK /\ MembersMatchLevels /\ ReadsBack
=============================================================================
