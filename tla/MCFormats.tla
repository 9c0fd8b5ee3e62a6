------------------------------ MODULE MCFormats ------------------------------
(***************************************************************************)
(* The readers of texts, values, and the configuration of logging.  They   *)
(* share no state; part says which of them a behaviour is about, and the   *)
(* others stay as they are.                                                *)
(***************************************************************************)
EXTENDS HttpParser, Csv, KeyValueFiles, TextBuffer, BinaryRpc, Calendar, ValueTree, LogConfiguration

VARIABLE part

ValueVars == <<nuText, calVars, siVars, conf>>
vars == <<part, httpVars, csvVars, kvVars, textVars, binVars, ValueVars>>

\* HttpParser: what may arrive in each piece of a header.
MCPieceChars ==
  [method |-> {71, SP, Dot}, url |-> {Percent, Plus, 50, 53, SP, Question}, query |-> {Equals, SP},
   name |-> {65, Colon, SP, LF}, value |-> {65, SP, CR, LF}, text |-> {79, CR, LF}, code |-> {50, SP},
   protocol |-> {72, 84, 80, SP, Slash}, line |-> {SP, Slash, 65, 72, 49, Dot, Colon, CR, LF, 50}]

\* Nodes of trees that are written.
Value(name, type, value) == Node(name, "Value", type, value)
Tree(category, members) == [Node(<<>>, category, "", <<>>) EXCEPT !.members = members]
Named(node, name) == [node EXCEPT !.name = name]

\* Csv: values with each sign that needs quotes, titles that need none, and
\* tables with one and two columns.
Cells == {<<>>, <<97>>, <<Quote>>, <<97, Quote>>, <<Comma, LF>>, <<CR>>, <<97, Apostrophe>>, <<Apostrophe>>, <<Semicolon>>}
MCTables ==
  {[titles |-> t, rows |-> r] :
     t \in {<<>>, << <<97, Underscore>>, <<98, SP>> >>, << <<97, Minus>>, <<Quote>> >>},
     r \in {<< <<a, b>> >> : a, b \in Cells} \cup {<< <<a, <<>> >>, << <<>>, a>> >> : a \in Cells}}
  \cup {[titles |-> t, rows |-> << <<a>>, <<b>> >>] : t \in {<<>>, << <<97>> >>}, a, b \in Cells}

\* KeyValueFiles: values of up to two signs, alone and inside of others.
KvSigns == {97, SP, Quote, Backslash, LF, HT, 8, 233, 128512, Equals}
MCPairs ==
  {<< [key |-> <<97>>, value |-> v], [key |-> <<98, Dot, 99>>, value |-> <<49>>] >> :
     v \in {<<>>} \cup {<<a>> : a \in KvSigns} \cup {<<a, b>> : a, b \in KvSigns} \cup {<<120, a, b, 121>> : a, b \in KvSigns}}

\* TextBuffer: texts with marks, escapes and line ends at every place where a
\* buffer may end, and bytes that are cut off or stand for nothing.
MCTexts ==
  [utf8 |-> {<<65, 8364, 233, 65, 65279, 65>>, <<65279, 65, 65279, 128512>>, <<65533, 65533, 65, 8364, 65533>>,
             <<128512, 55296>>},
   base64 |-> {<<0, 255, 65, 128, 7>>, <<255, 255, 255, 255, 255, 255, 255>>},
   qp |-> {<<65, SP, LF, 65, Equals, 200>>, <<SP, 65, 200, 200, SP, 65>>, <<65, 65, SP>>, <<200, 200, 200, CR, LF>>,
           <<Equals, 65, 65, 65, 65, HT, CR>>}]
MCBytes ==
  [utf8 |-> {<<65, 226, 130>>, <<65, 192, 128>>, <<239, 187>>, <<237, 160, 128>>, <<237, 65, 128, 65>>,
            <<65, 244, 65, 128, 128>>, <<65, 239, 187, 191, 65, 239, 187, 65>>},
   base64 |-> {<<81, 85, 74, SP, 68, LF, 82, 65, Equals, SP, Equals, LF>>, <<81, 85, 74>>},
   qp |-> {<<65, Equals, LF, Equals, 52, 49>>, <<65, Equals, 122>>, <<65, Equals, 52, LF>>}]

\* BinaryRpc: integers, floats and texts at each width, names and types that
\* are new or met again, up to more than the dictionary holds, and calls that
\* fail in each way, with a call after them.
MCSpelling ==
  [Foo |-> <<70>>, Bar |-> <<66>>, Qux |-> <<81>>, string |-> <<115>>, double |-> <<100>>, bool |-> <<98>>] @@ ("" :> <<>>)
BinInts ==
  {<<"int", FALSE, [Zero8 EXCEPT ![9 - n] = b]>> : n \in {1, 2, 3, 4, 5, 8}, b \in {0, 1, 127, 128, 255}}
  \cup {<<"int", TRUE, [Ones8 EXCEPT ![9 - n] = b]>> : n \in {1, 2, 3, 4, 5, 8}, b \in {128, 254, 255}}
  \cup {<<"int", TRUE, [Ones8 EXCEPT ![9 - n] = b]>> : n \in {1, 2, 3, 4, 5, 7}, b \in {0, 127}}
BinFloats ==
  {<<"float", neg, exp, m>> : neg \in BOOLEAN, exp \in {-64, -63, 0, 63, 64},
     m \in {Zero8} \cup {[Zero8 EXCEPT ![n] = 1] : n \in {1, 2, 3, 4, 5, 8}}}
  \cup {<<"special", s>> : s \in {"nan", "inf", "neginf", "zero"}}
BinDigits == {<<>>, <<49>>, <<49, 50>>, <<Minus, 49, 53>>, Specials.nan, Specials.inf, Specials.neginf}
BinTexts ==
  {<<kind, text>> : kind \in {"wide", "narrow"}, text \in BinDigits \cup {<<97>>, <<49, 97>>, <<0>>, <<97, 0, 97, 97, 97>>}}
  \cup {<<"narrow", <<200, 97, 255>> >>, <<"wide", <<233, 8364>> >>}
BinLeaves ==
  {Value(n, "", v) : n \in {<<>>, <<97>>},
     v \in BinInts \cup BinFloats \cup {<<"bool", TRUE>>, <<"bool", FALSE>>, <<"char", 255>>, <<"char", 0>>}}
  \cup {Value(n, type, v) : n \in {<<>>, <<97>>}, v \in BinTexts, type \in {"string", "Foo", "bool", ""}}
  \cup {Value(n, "double", <<"narrow", d>>) : n \in {<<>>, <<97>>}, d \in BinDigits}
  \cup {Value(<<97>>, type, <<kind, text>>) :
         type \in {"int", "long"}, kind \in {"wide", "narrow"},
         text \in {<<48>>, <<50, 53, 54>>, <<Minus, 49, 50, 57>>, <<Plus, 49>>, <<Minus, 48>>}}
  \cup {Node(n, cat, "", <<>>) : n \in {<<>>, <<97>>}, cat \in {"Void", "Value"}}
Typ(node, type) == [node EXCEPT !.type = type]
Txt(name, type) == Value(name, type, <<"narrow", <<120>> >>)
BinTrees ==
  {Typ(Named(Tree(cat, <<>>), n), type) : n \in {<<>>, <<97>>}, cat \in {"Object", "Array"}, type \in {"", "Foo", "map", "list"}}
  \cup {Typ(Tree("Array", <<Txt(<<>>, t), Txt(<<>>, u)>>), "list") : t, u \in {"string", "Foo", "Bar"}}
  \cup {Typ(Tree("Object", <<Txt(<<97>>, t), Txt(<<98, 99>>, u)>>), "Foo") : t, u \in {"string", "Foo", "Bar"}}
  \cup {Tree("Object", <<Named(Tree("Array", <<Txt(<<>>, t)>>), <<97>>), Named(Tree("Object", <<Txt(<<97>>, t)>>), <<98>>),
                         Txt(<<98>>, "Qux"), Txt(<<99>>, t)>>) : t \in {"string", "Qux"}}
ManyNames == Tree("Object", [i \in 1..7 |-> Txt(<< <<97, 98, 99, 100, 101, 101, 100>>[i] >>, "string")])
FooTree == Typ(Tree("Object", <<Txt(<<97>>, "Bar"), Txt(<<97>>, "Foo")>>), "Foo")
BinZero == Value(<<>>, "", <<"int", FALSE, Zero8>>)
Call(args, result) ==
  [domain |-> <<>>, method |-> <<77>>, args |-> args, known |-> TRUE, wants |-> Len(args), misfit |-> 0, raises |-> FALSE,
   rc |-> NoCode, result |-> result]
FailingCalls ==
  {[Call(<<a, b>>, BinZero) EXCEPT !.domain = d, !.known = k, !.wants = w, !.misfit = f, !.raises = r, !.rc = <<0, 1, 2, 200>>] :
     a, b \in {Txt(<<>>, "Foo"), FooTree}, d \in {<<>>, <<68>>}, k, r \in BOOLEAN, w \in 0..3, f \in 0..2}
LastCall == Call(<<FooTree, Txt(<<97>>, "string")>>, FooTree)
MCSessions ==
  {<<c, LastCall>> :
     c \in FailingCalls \cup {Call(<<a>>, BinZero) : a \in BinLeaves} \cup {Call(<<a, ManyNames>>, a) : a \in BinTrees}}
  \cup {<<Call(<<>>, a)>> : a \in BinLeaves \cup BinTrees}

\* Numbers: fractions whose digits are cut, rounded up and carried over.
MCDecimals == {[num |-> n, exp |-> e] : n \in {1, 5, 10, 12, 99, 105, 999, 1000, 1004, 1005, 9994, 9996, 99999, 12345}, e \in -5..2}

\* Calendar: days before and behind the ends of months, leap years, centuries
\* and the calendar, spans around a day, a month, a year and 400 years.
Sign1(c) == <<"text", c>>
Full(c) == <<"%", c>>
CalDefault ==
  <<Full("Y"), Sign1(Minus), Full("m"), Sign1(Minus), Full("d"), Sign1(SP), Full("H"), Sign1(Colon), Full("M"), Sign1(Colon), Full("S"), Full("j")>>
MCCalFormats ==
  {<<CalDefault, CalDefault>>,
   << <<Full("Y"), Full("m"), Full("d"), Full("H"), Full("M"), Full("S"), Full("u")>>,
      <<Full("Y"), <<"2", "m">>, <<"2", "d">>, <<"2", "H">>, <<"2", "M">>, <<"2", "S">>, Full("u")>> >>,
   << <<Full("O"), Sign1(SP), <<"1", "d">>, Sign1(Comma), Full("Y"), Sign1(SP), <<"1", "I">>, Sign1(Colon), <<"1", "M">>,
        Sign1(Colon), <<"1", "S">>, Full("J"), Full("p")>>,
      <<Full("O"), Sign1(SP), Full("d"), Sign1(Comma), Full("Y"), Sign1(SP), Full("I"), Sign1(Colon), Full("M"),
        Sign1(Colon), Full("S"), Full("J"), Full("p")>> >>,
   << <<Full("d"), Sign1(Dot), <<"1", "m">>, Sign1(Dot), Full("Y"), Sign1(SP), Full("I"), Full("M"), Full("S"), Full("U"), Full("p")>>,
      <<Full("d"), Sign1(Dot), Full("m"), Sign1(Dot), Full("Y"), Sign1(SP), Full("I"), Full("M"), Full("S"), Full("U"), Full("p")>> >>}
MCCalDates ==
  {<<-4713, 11, 24>>, <<0, 2, 28>>, <<1, 1, 1>>, <<1899, 12, 31>>, <<1900, 2, 28>>, <<2000, 2, 28>>, <<2023, 12, 30>>,
   <<2100, 2, 28>>, <<9999, 12, 1>>, <<2001, 2, 29>>}
MCCalTimes == {0, 1, USecsPerDay \div 2, USecsPerDay - 1}
MCCalSpans ==
  {1, 79, USecsPerDay - 1, USecsPerDay, USecsPerDay * 29 + 7, USecsPerDay * 365, USecsPerDay * 146097 + (USecsPerDay \div 2)}
AnyMoment == [julian |-> 0, usecs |-> 0]

\* ValueTree: values of each kind, lists and structures with members of one
\* name, without a name and with a name that must be quoted.
SiNode(category, name, nodes) == [Fresh0 EXCEPT !.category = category, !.name = name, !.nodes = nodes]
SiText(name, tag, text) == [Construct(Fresh0, tag, text) EXCEPT !.category = "Value", !.name = name, !.type = "string"]
SiPlain(name, tag, value) == [Fresh0 EXCEPT !.category = "Value", !.name = name, !.tag = tag, !.value = <<value>>]
OddName == <<Dot, Quote, Backslash, LBracket>>
SiInner == SiNode("Object", <<97>>, <<SiText(<<97>>, "String", <<49>>), SiText(OddName, "string", <<>>), SiPlain(<<97>>, "int", -3)>>)
MCSiTrees ==
  {Fresh0, SiText(<<97>>, "string", <<50>>), SiPlain(<<97>>, "int", -64), SiInner,
   SiNode("Array", <<>>, <<SiInner, SiPlain(<<>>, "uint", 127)>>),
   SiNode("Object", <<>>, <<Named(SiInner, OddName), SiInner, SiPlain(<<98>>, "bool", 1)>>)}
MCSiPlains == {<<"char", 55>>, <<"int", -64>>, <<"int", 63>>, <<"uint", 64>>}
MCSiTexts == {<<>>, <<49>>}
MCSiNames == {<<>>, <<97>>}

\* LogConfiguration: a category that logs, and the one above it.
MCSettable == {<<"cxxtools">>, <<"cxxtools", "log">>}
MCAsked == {<<"cxxtools", "log">>}

Init ==
  /\ part \in {"header", "csv", "keys", "text", "binary", "number", "calendar", "tree", "configuration"}
  /\ IF part = "header" THEN HttpInit ELSE HttpBegins(FALSE)
  /\ IF part = "csv" THEN CsvInit ELSE CsvBegins(Typed, <<>>, FALSE, Comma, FALSE)
  /\ IF part = "keys" THEN KvInit ELSE KvBegins(<<>>, "ini", FALSE)
  /\ IF part = "text" THEN TextInit ELSE TextBegins("utf8", <<>>, <<>>)
  /\ IF part = "binary" THEN BinInit ELSE BinBegins(<<>>)
  /\ NuInit
  /\ IF part = "calendar" THEN CalInit ELSE CalBegins(AnyMoment, [day |-> 0, usecs |-> 0])
  /\ IF part = "tree" THEN SiInit ELSE SiBegins(Fresh0, Fresh0)
  /\ IF part = "configuration" THEN ConfInit ELSE conf = NewConf

Next ==
  /\ UNCHANGED part
  /\ \/ part = "header" /\ HttpNext /\ UNCHANGED <<csvVars, kvVars, textVars, binVars, ValueVars>>
     \/ part = "csv" /\ CsvNext /\ UNCHANGED <<httpVars, kvVars, textVars, binVars, ValueVars>>
     \/ part = "keys" /\ KvNext /\ UNCHANGED <<httpVars, csvVars, textVars, binVars, ValueVars>>
     \/ part = "text" /\ TextNext /\ UNCHANGED <<httpVars, csvVars, kvVars, binVars, ValueVars>>
     \/ part = "binary" /\ BinNext /\ UNCHANGED <<httpVars, csvVars, kvVars, textVars, ValueVars>>
     \/ part = "number" /\ NuNext /\ UNCHANGED <<httpVars, csvVars, kvVars, textVars, binVars, calVars, siVars, conf>>
     \/ part = "calendar" /\ CalNext /\ UNCHANGED <<httpVars, csvVars, kvVars, textVars, binVars, nuText, siVars, conf>>
     \/ part = "tree" /\ SiNext /\ UNCHANGED <<httpVars, csvVars, kvVars, textVars, binVars, nuText, calVars, conf>>
     \/ part = "configuration" /\ ConfNext /\ UNCHANGED <<httpVars, csvVars, kvVars, textVars, binVars, nuText, calVars, siVars>>

\* Csv, ini and properties files, and configurations of logging, are read as they were written.
FilesRead == /\ (part \in {"csv", "keys"} => CsvRead /\ PairsRead)
             /\ (part = "configuration" => ConfSound)

\* Numbers, dates and times, and trees of values
ValuesSound == part \in {"number", "calendar", "tree"} =>
                 /\ (part = "number" => NumbersSound) /\ (part = "calendar" => CalendarSound) /\ (part = "tree" => ValueTreeSound)

Spec == Init /\ [][Next]_vars
=============================================================================
