------------------------------ MODULE Parsing -------------------------------
(***************************************************************************)
(* What the parsers share: characters as their codes, the classes of       *)
(* <cctype>, rules that are chosen by a character, and SerializationInfo   *)
(* as the tree that Deserializer (deserializer.cpp) builds of a text.      *)
(***************************************************************************)
EXTENDS Integers, Sequences

HT == 9
LF == 10
CR == 13
SP == 32
Quote == 34
Percent == 37
Apostrophe == 39
Star == 42
Plus == 43
Comma == 44
Minus == 45
Dot == 46
Slash == 47
Colon == 58
Semicolon == 59
Equals == 61
Question == 63
Backslash == 92
Underscore == 95

Digit == 48..57
Upper == 65..90
Lower == 97..122
Alpha == Upper \cup Lower
Alnum == Alpha \cup Digit
Blank == {SP, HT}
Space == {SP} \cup HT..CR
Visible == 33..126
Every == 0..255

HexDigits == Digit \cup (65..70) \cup (97..102)
HexValue(c) == IF c \in Digit THEN c - 48 ELSE IF c \in Lower THEN c - 87 ELSE c - 55
HexChar(v) == IF v < 10 THEN 48 + v ELSE 87 + v

\* The first of the rules that is for this character.  A rule begins with the
\* set of its characters.
Matching(rules, c) == {i \in DOMAIN rules : c \in rules[i][1]}
FirstRule(rules, c) == LET hits == Matching(rules, c) IN rules[CHOOSE i \in hits : \A j \in hits : i <= j]

-----------------------------------------------------------------------------
(* Deserializer: cur is _current, the nodes from the root to the one that  *)
(* is being read.  A node is put into its parent when it is left.          *)

Node(name, cat, type, value) == [name |-> name, cat |-> cat, type |-> type, value |-> value, members |-> <<>>]

\* begin()
Root == <<Node(<<>>, "Void", "", <<>>)>>

\* m has cur, and err: something was thrown.
Threw(m) == [m EXCEPT !.err = TRUE]

\* setValue() and setTypeName()
Set(m, type, value) ==
  [m EXCEPT !.cur[Len(m.cur)].cat = "Value", !.cur[Len(m.cur)].type = type, !.cur[Len(m.cur)].value = value]

setCategory(m, cat) == [m EXCEPT !.cur[Len(m.cur)].cat = cat]

\* beginMember(), with SerializationInfo::addMember(): the parent becomes an
\* array or an object.
beginMember(m, name, cat) ==
  LET n == Len(m.cur)
      parent == [m.cur[n] EXCEPT !.cat = IF @ \in {"Array", "Object"} THEN @ ELSE IF name = <<>> THEN "Array" ELSE "Object"]
  IN [m EXCEPT !.cur = Append([m.cur EXCEPT ![n] = parent], Node(name, cat, "", <<>>))]

leaveMember(m) ==
  LET n == Len(m.cur)
  IN IF n <= 1 THEN Threw(m)
     ELSE [m EXCEPT !.cur = [SubSeq(m.cur, 1, n - 1) EXCEPT ![n - 1].members = Append(@, m.cur[n])]]
=============================================================================
