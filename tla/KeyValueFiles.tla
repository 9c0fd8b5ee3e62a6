---------------------------- MODULE KeyValueFiles ----------------------------
(***************************************************************************)
(* IniParser and PropertiesParser (iniparser.cpp, propertiesparser.cpp) as *)
(* automata that tell sections, keys and values, and the serializers that  *)
(* write what they read.                                                   *)
(***************************************************************************)
EXTENDS Parsing, TLC
LOCAL INSTANCE SequencesExt

CONSTANTS
  Pairs,          \* lists of keys and values that are written
  KvChars,        \* characters of other texts
  KvMaxText       \* bounds their length

VARIABLES
  kv,        \* the parser and the events it has told
  file       \* what was written, the text, how much of it was read, the end

kvVars == <<kv, file>>

Hash == 35
Escapes == (98 :> 8) @@ (102 :> 12) @@ (110 :> LF) @@ (114 :> CR) @@ (116 :> HT)
PropEscapes == [c \in {110, 114, 116} |-> Escapes[c]]

-----------------------------------------------------------------------------
(* The serializers.                                                        *)

Short1(c) ==
  CASE c \in {Quote, Backslash} -> <<Backslash, c>>
    [] \E e \in DOMAIN Escapes : Escapes[e] = c -> <<Backslash, CHOOSE e \in DOMAIN Escapes : Escapes[e] = c>>
    [] OTHER -> <<c>>

\* isplain() of iniserializer.cpp
IniPlain(v) == v = <<>> \/ (v[1] \notin Space /\ Last(v) \notin Space)

IniLine(p) ==
  p.key \o <<Equals>>
  \o (IF IniPlain(p.value) THEN p.value ELSE <<Quote>> \o FlattenSeq([i \in DOMAIN p.value |-> Short1(p.value[i])]) \o <<Quote>>)
  \o <<LF>>

\* stringOut() of propertiesserializer.cpp
PropOut(v) ==
  FlattenSeq([i \in DOMAIN v |->
    IF v[i] >= 128 \/ (v[i] < 32 /\ v[i] \notin {Escapes[e] : e \in DOMAIN Escapes})
    THEN <<Backslash, 117>> \o [j \in 1..4 |-> HexChar((v[i] \div 16^(4 - j)) % 16)]
    ELSE Short1(v[i])])

PropLine(p) == p.key \o <<SP, Equals, SP>> \o PropOut(p.value) \o <<LF>>

-----------------------------------------------------------------------------
(* The rules of the parsers: characters, what is done, the next state.     *)

SectionRules ==
  [zero |-> << <<{91}, "keep", "section0">>, <<Alnum, "set", "key">>, <<{Hash, Semicolon}, "keep", "comment">>,
               <<Space, "keep", "zero">> >>,
   section0 |-> << <<{93}, "section", "zero">>, <<Space, "keep", "section0">>, <<Every, "set", "section">> >>,
   section |-> << <<{93}, "section", "zero">>, <<Space, "ws", "sectionsp">>, <<Every, "add", "section">> >>,
   sectionsp |-> << <<{93}, "section", "zero">>, <<Space, "wsadd", "sectionsp">>, <<Every, "addws", "section">> >>,
   comment |-> << <<{LF}, "keep", "zero">>, <<Every, "keep", "comment">> >>]

IniKeyRulesWith(sp) ==
  [key |-> << <<{Equals}, "key", "value0">>, <<Space, "key", "key_sp">>, <<Every, "add", "key">> >>,
   key_sp |-> << <<{Equals}, "keep", "value0">>, <<Space, sp, "key_sp">> >>]

IniKeyRules == IniKeyRulesWith("keep")

IniValueRules ==
  [value0 |-> << <<{LF}, "value", "zero">>, <<{Apostrophe}, "keep", "valuesq">>, <<{Quote}, "keep", "valuedq">>,
                 <<{Backslash}, "keep", "valueesc">>, <<Space, "keep", "value0">>, <<Every, "set", "value">> >>,
   value |-> << <<{LF}, "valuetrim", "zero">>, <<{Backslash}, "keep", "valueesc">>, <<Every, "add", "value">> >>,
   valueesc |-> << <<Every, "esc", "value">> >>,
   valuesq |-> << <<{Apostrophe}, "value", "valueqend">>, <<{Backslash}, "keep", "valuesqesc">>, <<Every, "add", "valuesq">> >>,
   valuesqesc |-> << <<Every, "esc", "valuesq">> >>,
   valuedq |-> << <<{Quote}, "value", "valueqend">>, <<{Backslash}, "keep", "valuedqesc">>, <<{LF}, "error", "">>,
                  <<Every, "add", "valuedq">> >>,
   valuedqesc |-> << <<Every, "esc", "valuedq">> >>,
   valueqend |-> << <<{LF}, "keep", "zero">>, <<{Hash, Semicolon}, "keep", "comment">>, <<Space, "keep", "valueqend">> >>]

\* state_0 to state_key_sp of the properties.
PropKeyRules ==
  [zero |-> << <<{Hash, 33}, "keep", "comment">>, <<{SP, HT, CR, LF}, "keep", "zero">>, <<{Backslash}, "newkey", "key_esc">>,
               <<Every, "setkey", "key">> >>,
   key |-> << <<{Dot}, "part", "key">>, <<{CR, LF}, "keyonly", "key">>, <<Space, "keypart", "key_sp">>,
              <<{Equals, Colon}, "keypart", "value0">>, <<{Backslash}, "keep", "key_esc">>, <<Every, "addkey", "key">> >>,
   key_esc |-> << <<{117}, "unicode", "key_unicode">>, <<Every, "esckey", "key">> >>,
   key_sp |-> << <<{Equals, Colon}, "keep", "value0">>, <<{CR, LF}, "novalue", "key">>, <<{Backslash}, "newvalue", "value_esc">>,
                 <<Space, "keep", "key_sp">>, <<Every, "setvalue", "value">> >>,
   comment |-> << <<{LF}, "keep", "zero">>, <<Every, "keep", "comment">> >>]

PropValueRulesWith(space) ==
  [value0 |-> << <<{LF}, "propvalue", "zero">>, <<{Backslash}, "keep", "value_esc">>, <<Space, "keep", "value0">>,
                 <<Every, "setvalue", "value">> >>,
   value |-> << <<{LF}, "propvalue", "zero">>, <<{Backslash}, "keep", "value_esc">>, <<Every, "addvalue", "value">> >>,
   value_esc |-> << <<{117}, "unicode", "unicode">>, <<{CR, LF}, "keep", "value_cont">>, <<Every, "escvalue", "value">> >>,
   value_cont |-> << <<{LF}, "propvalue", "zero">>, <<{Backslash}, "keep", "value_esc">>, <<Space, "keep", "value_cont">>,
                     <<Every, "addvalue", "value">> >>,
   value_space |-> << <<{LF}, "propvalue", "zero">>, <<{Backslash}, space, "value_esc">>, <<Space, "spaceadd", "value_space">>,
                      <<Every, "spacevalue", "value">> >>]

PropValueRules == PropValueRulesWith("space")

KvRules == [ini |-> SectionRules @@ IniKeyRules @@ IniValueRules, properties |-> PropKeyRules @@ PropValueRules]

-----------------------------------------------------------------------------
(* One character.                                                          *)

Tell(k, kind, text) == [k EXCEPT !.told = Append(@, <<kind, text>>)]
KvThrew(k) == [k EXCEPT !.err = TRUE]
Unesc(table, c) == IF c \in DOMAIN table THEN table[c] ELSE c

rtrim(v) ==
  LET ends == {n \in 0..Len(v) : \A i \in (n + 1)..Len(v) : v[i] \in Space}
  IN SubSeq(v, 1, CHOOSE n \in ends : \A e \in ends : n <= e)

IniDo(k, do, c) ==
  LET data(d) == [k EXCEPT !.data = d]
      tells(kind, v) == [Tell(k, kind, v) EXCEPT !.data = <<>>]
  IN CASE do = "set" -> data(<<c>>)
       [] do = "add" -> data(Append(k.data, c))
       [] do = "ws" -> [k EXCEPT !.ws = <<c>>]
       [] do = "wsadd" -> [k EXCEPT !.ws = Append(@, c)]
       [] do = "addws" -> data(k.data \o k.ws \o <<c>>)
       [] do = "esc" -> data(Append(k.data, Unesc(Escapes, c)))
       [] do \in {"section", "key", "value"} -> tells(do, k.data)
       [] do = "valuetrim" -> tells("value", rtrim(k.data))
       [] do = "keep" -> k
       [] do = "error" -> KvThrew(k)

PropDo(k, do, c) ==
  LET key(x) == [k EXCEPT !.data = Append(@, x), !.part = Append(@, x)]
      keyTold == Tell(Tell(k, "part", k.part), "key", k.data)
  IN CASE do = "setkey" -> [k EXCEPT !.data = <<c>>, !.part = <<c>>]
       [] do = "newkey" -> [k EXCEPT !.data = <<>>, !.part = <<>>]
       [] do = "addkey" -> key(c)
       [] do = "esckey" -> key(Unesc(PropEscapes, c))
       [] do = "part" -> [Tell(k, "part", k.part) EXCEPT !.part = <<>>, !.data = Append(@, c)]
       [] do = "keyonly" -> [IF k.data = <<>> THEN k ELSE Tell(keyTold, "value", <<>>) EXCEPT !.data = <<>>, !.part = <<>>]
       [] do = "keypart" -> keyTold
       [] do = "novalue" -> [Tell(k, "value", <<>>) EXCEPT !.data = <<>>, !.part = <<>>]
       [] do = "propvalue" -> [Tell(k, "value", k.value) EXCEPT !.value = <<>>]
       [] do = "newvalue" -> [k EXCEPT !.value = <<>>]
       [] do = "setvalue" -> [k EXCEPT !.value = <<c>>]
       [] do = "addvalue" -> [k EXCEPT !.value = Append(@, c)]
       [] do = "escvalue" -> [k EXCEPT !.value = Append(@, Unesc(PropEscapes, c))]
       [] do = "spaceadd" -> [k EXCEPT !.ws = Append(@, c)]
       [] do = "space" -> [k EXCEPT !.value = @ \o k.ws]
       [] do = "spacevalue" -> [k EXCEPT !.value = @ \o k.ws \o <<c>>]
       [] do = "unicode" -> [k EXCEPT !.uni = 0, !.count = 0]
       [] do = "keep" -> k

KvRule(k, c) ==
  LET rules == KvRules[k.fmt][k.state]
      r == FirstRule(rules, c)
      next == IF k.fmt = "ini" THEN IniDo(k, r[2], c) ELSE PropDo(k, r[2], c)
  IN IF k.trim /\ k.state = "value" /\ c \in Space \ {LF} THEN [k EXCEPT !.ws = <<c>>, !.state = "value_space"]
     ELSE IF Matching(rules, c) = {} THEN KvThrew(k) ELSE [next EXCEPT !.state = r[3]]

\* The end of \u and its digits, at a character that is none ...
UnicodeEnds(k) ==
  IF k.state = "unicode" THEN [k EXCEPT !.state = "value", !.value = Append(@, k.uni)]
  ELSE [k EXCEPT !.state = "key", !.data = Append(@, k.uni), !.part = Append(@, k.uni)]

\* ... and at the eighth digit, where the part of the key is forgotten.
UnicodeFull(k) == [UnicodeEnds(k) EXCEPT !.part = k.part]

Unicode(k, c) ==
  LET one == [k EXCEPT !.uni = @ * 16 + HexValue(c), !.count = @ + 1]
  IN CASE c \in HexDigits -> IF one.count >= 8 THEN UnicodeFull(one) ELSE one
       [] c \notin HexDigits /\ k.count = 0 -> KvThrew(k)
       [] OTHER -> KvRule(UnicodeEnds(k), c)

KvAdvance(k, c) == IF k.state \in {"unicode", "key_unicode"} THEN Unicode(k, c) ELSE KvRule(k, c)

\* end() of both.
IniEnd(k) ==
  CASE k.state \in {"zero", "valueqend", "comment"} -> k
    [] k.state \in {"value0", "value"} -> Tell(k, "value", k.data)
    [] OTHER -> KvThrew(k)

PropEnd(k) ==
  CASE k.state \in {"value0", "value", "value_cont", "value_esc", "key_sp"} -> Tell(k, "value", k.value)
    [] k.state = "value_space" -> Tell(k, "value", k.value \o k.ws)
    [] k.state = "key" -> IF k.data = <<>> THEN k ELSE Tell(Tell(Tell(k, "part", k.part), "key", k.data), "value", <<>>)
    [] k.state = "unicode" -> IF k.count = 0 THEN KvThrew(k) ELSE Tell(k, "value", Append(k.value, k.uni))
    [] k.state \in {"zero", "comment"} -> k
    [] OTHER -> KvThrew(k)

-----------------------------------------------------------------------------
(* Reading.                                                                *)

KvRead(c) ==
  /\ ~kv.err /\ ~file.ended
  /\ kv' = KvAdvance(kv, c) /\ file' = [file EXCEPT !.read = @ + 1]

KvWritten == file.text # <<>> /\ file.read < Len(file.text) /\ KvRead(file.text[file.read + 1])

KvTyped == file.text = <<>> /\ file.read < KvMaxText /\ \E c \in KvChars : KvRead(c)

KvEnd ==
  /\ ~kv.err /\ ~file.ended /\ (file.text # <<>> => file.read = Len(file.text))
  /\ kv' = (IF kv.fmt = "ini" THEN IniEnd(kv) ELSE PropEnd(kv))
  /\ file' = [file EXCEPT !.ended = TRUE]

KvBegins(p, fmt, trim) ==
  /\ kv = [fmt |-> fmt, state |-> "zero", data |-> <<>>, part |-> <<>>, value |-> <<>>, ws |-> <<>>, uni |-> 0,
           count |-> 0, trim |-> trim, err |-> FALSE, told |-> <<>>]
  /\ file = [pairs |-> p, read |-> 0, ended |-> FALSE,
             text |-> FlattenSeq([i \in DOMAIN p |-> IF fmt = "ini" THEN IniLine(p[i]) ELSE PropLine(p[i])])]

KvInit ==
  \E p \in Pairs \cup {<<>>}, fmt \in {"ini", "properties"}, trim \in BOOLEAN :
    (trim => fmt = "properties") /\ KvBegins(p, fmt, trim)

KvNext == KvWritten \/ KvTyped \/ KvEnd

-----------------------------------------------------------------------------
(* Properties.                                                             *)

ToldEvents(kind) == SelectSeq(kv.told, LAMBDA e : e[1] = kind)

KvTypeOK ==
  /\ kv.state \in DOMAIN KvRules[kv.fmt] \cup {"unicode", "key_unicode", ""}
  /\ kv.count \in 0..8 /\ (~kv.trim => kv.state # "value_space")

\* Whatever the text is, a key is followed by one value, before the next key
\* or section is told and before the end.
KeyThenValue ==
  LET pairs == SelectSeq(kv.told, LAMBDA e : e[1] # "part")
  IN /\ \A i \in DOMAIN pairs : pairs[i][1] = "value" <=> i > 1 /\ pairs[i - 1][1] = "key"
     /\ file.ended /\ ~kv.err /\ pairs # <<>> => Last(pairs)[1] # "key"

\* What the parsers read in another way than it was meant.  Ini: a value that
\* is written without quotes and has a backslash or a line end, or starts
\* with a quote.  Properties: a blank in front or at a trimmed end, the
\* escapes b and f, a character behind \uXXXX that is a digit, and more than
\* 16 bits.
Misunderstood(p) ==
  LET v == p.value
      has(S) == \E i \in DOMAIN v : v[i] \in S
  IN IF kv.fmt = "ini"
     THEN IniPlain(v) /\ v # <<>> /\ (has({Backslash, LF}) \/ v[1] \in {Quote, Apostrophe})
     ELSE \/ has({8, 12}) \/ (v # <<>> /\ (v[1] = SP \/ (kv.trim /\ Last(v) = SP)))
          \/ \E i \in DOMAIN v : v[i] > 65535 \/ (PropOut(<<v[i]>>)[1] = Backslash /\ Len(PropOut(<<v[i]>>)) = 6
                                                  /\ i < Len(v) /\ v[i + 1] \in HexDigits)

\* Keys and values are read as they were written.
PairsReadBack ==
  file.ended /\ file.text # <<>> /\ (\A i \in DOMAIN file.pairs : ~Misunderstood(file.pairs[i])) =>
    /\ ~kv.err
    /\ ToldEvents("key") = [i \in DOMAIN file.pairs |-> <<"key", file.pairs[i].key>>]
    /\ ToldEvents("value") = [i \in DOMAIN file.pairs |-> <<"value", file.pairs[i].value>>]

\* Ini and properties files are read back as they were written, key by value.
PairsRead == KvTypeOK /\ KeyThenValue /\ PairsReadBack
=============================================================================
