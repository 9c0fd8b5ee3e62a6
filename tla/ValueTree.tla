----------------------------- MODULE ValueTree -----------------------------
(***************************************************************************)
(* SerializationInfo (serializationinfo.h, serializationinfo.cpp): a tree  *)
(* of nodes whose value is one of several kinds in a union.  object says   *)
(* what really lives in the union, so that a string that is used, put or   *)
(* dropped at the wrong time shows.  Copies of a tree are values here, and *)
(* an assignment from a node's own members is left out, as are floating    *)
(* point numbers.  The value is a text, or one number.                     *)
(***************************************************************************)
EXTENDS Numbers, FiniteSets

CONSTANTS SiTexts,   \* texts of values
          SiPlains,  \* <<tag, number>>: values that are no text
          SiNames,   \* names of members
          SiTrees,   \* the trees that a behaviour begins with
          MaxSiSteps

ASSUME SiAssumption == MaxSiSteps \in Nat

VARIABLES siA, siB,   \* the two trees of a behaviour
          siWas,      \* the two before the last call
          siCall, siSteps

siVars == <<siA, siB, siWas, siCall, siSteps>>

StringTags == {"String", "string"}
Fresh0 == [category |-> "Void", name |-> <<>>, type |-> "", tag |-> "none", object |-> "none", value |-> <<>>, nodes |-> <<>>]

--------------------------------------------------------------------------
(* The union *)
\* The value is no string any more: a string in the union is destroyed.
releaseValue(n) ==
  [n EXCEPT !.tag = "none", !.value = <<>>,
            !.object = IF (IF n.tag \in StringTags THEN n.tag ELSE "none") = @ THEN "none" ELSE "broken"]
\* A string is made where no object may be.
Construct(n, tag, text) == [n EXCEPT !.tag = tag, !.value = text, !.object = IF @ = "none" THEN tag ELSE "broken"]
\* Something is written over the union.
PutPlain(n, tag, value) == [n EXCEPT !.tag = tag, !.value = value, !.object = IF @ = "none" THEN @ ELSE "broken"]
\* A string of the tree is swapped or assigned, which takes that it lives.
Replace(n, tag, text) == [n EXCEPT !.value = text, !.object = IF @ = tag THEN @ ELSE "broken"]

\* _setString() and _setString8()
setText(n, tag, text) ==
  [(IF n.tag = tag THEN Replace(n, tag, text) ELSE Construct(releaseValue(n), tag, text)) EXCEPT !.category = "Value"]
\* _setChar(), _setBool(), _setInt() and _setUInt()
setPlain(n, tag, value) ==
  [PutPlain(IF n.tag = tag THEN n ELSE releaseValue(n), tag, value) EXCEPT !.category = "Value"]
setNull(n) == [releaseValue(n) EXCEPT !.category = "Value", !.nodes = <<>>]
siClear(n) == [releaseValue(n) EXCEPT !.category = "Void", !.name = <<>>, !.type = "", !.nodes = <<>>]
siSetTypeName(n, type) == [n EXCEPT !.type = type, !.category = IF @ = "Void" THEN "Object" ELSE @]
addMember(n, name) ==
  [n EXCEPT !.nodes = Append(@, [Fresh0 EXCEPT !.name = name]),
            !.category = IF @ \in {"Array", "Object"} THEN @ ELSE IF name = <<>> THEN "Array" ELSE "Object"]

--------------------------------------------------------------------------
(* Assigning and swapping *)
\* assignData(): all but the name.
assignData(n, from) ==
  LET m == [n EXCEPT !.category = from.category, !.type = from.type, !.nodes = from.nodes]
  IN IF from.tag \in StringTags THEN setText(m, from.tag, from.value) ELSE PutPlain(releaseValue(m), from.tag, from.value)

\* The move assignment: what n and the other become.
moveAssign(n, from) ==
  LET m == [n EXCEPT !.category = from.category, !.name = from.name, !.type = from.type, !.nodes = from.nodes]
      ready == IF m.tag = from.tag THEN m ELSE Construct(releaseValue(m), from.tag, <<>>)
      left == [from EXCEPT !.name = <<>>, !.type = "", !.nodes = <<>>]
  IN IF from.tag \in StringTags
     THEN <<Replace(ready, from.tag, from.value), Replace(left, from.tag, ready.value)>>
     ELSE <<PutPlain(releaseValue(m), from.tag, from.value), left>>

\* swap(): what both become.
swap(one, other) ==
  LET a == [one EXCEPT !.category = other.category, !.name = other.name, !.type = other.type]
      b == [other EXCEPT !.category = one.category, !.name = one.name, !.type = one.type]
      values ==
        IF a.tag \in StringTags
        THEN IF b.tag = a.tag THEN <<Replace(a, a.tag, b.value), Replace(b, a.tag, a.value)>>
             ELSE IF b.tag \in StringTags
             THEN <<setText(Replace(a, a.tag, <<>>), b.tag, b.value), Replace(setText(b, a.tag, <<>>), a.tag, a.value)>>
             ELSE <<PutPlain(releaseValue(a), b.tag, b.value), setText(b, a.tag, a.value)>>
        ELSE IF b.tag \in StringTags
        THEN <<setText(a, b.tag, b.value), PutPlain(releaseValue(b), a.tag, a.value)>>
        ELSE <<PutPlain(a, b.tag, b.value), PutPlain(b, a.tag, a.value)>>
  IN <<[values[1] EXCEPT !.nodes = other.nodes], [values[2] EXCEPT !.nodes = one.nodes]>>

--------------------------------------------------------------------------
(* Values as numbers: FALSE says that an exception is thrown.              *)
Wide == "unsigned"
TextNumber(text, r) == <<Accepts(text, r), r.n>>
siNumber(n, type) ==
  CASE n.tag = "none" -> <<TRUE, 0>>
    [] n.tag \in StringTags -> TextNumber(n.value, getInt(n.value, 1, type, 10))
    [] n.tag = "char" -> <<TRUE, n.value[1] - 48>>
    [] n.tag = "bool" -> <<TRUE, n.value[1]>>
    [] n.tag = "int" -> <<type = "signed" \/ n.value[1] >= 0, n.value[1]>>
    [] n.tag = "uint" -> <<type = Wide \/ n.value[1] <= GreatestOf("signed"), n.value[1]>>
LowestOf(type, bits) == IF type = "signed" THEN -(2^(bits - 1)) ELSE 0
HighestOf(type, bits) == IF type = "signed" THEN 2^(bits - 1) - 1 ELSE 2^bits - 1
\* _getInt() and _getUInt(), for a type with so many bits.
InRange(r, type, bits) == <<r[1] /\ r[2] \in LowestOf(type, bits)..HighestOf(type, bits), r[2]>>
siGet(n, type, bits) == InRange(siNumber(n, type), type, bits)

--------------------------------------------------------------------------
(* path(): a node that a text leads to.  The word of a meta token is one   *)
(* sign.  The list that {} makes lives until the next {}, whose parent may *)
(* be gone then; one for a text is what is looked at.                      *)
LBracket == 91
RBracket == 93
LBrace == 123
RBrace == 125
Dollar == 36
Metas == [size |-> 1101, count |-> 1102]
NoNode == [Fresh0 EXCEPT !.category = "Array", !.type = "none"]

NamedSo(n, name) == {i \in DOMAIN n.nodes : n.nodes[i].name = name}
\* The n-th of some places.
Nth(places, k) == CHOOSE i \in places : Cardinality({j \in places : j < i}) = k

Lost(st) == [st EXCEPT !.ok = FALSE]
\* getMember() with a name, with an index, and getNthMember()
ToMember(st, next) ==
  LET hits == NamedSo(st.cur, st.name)
  IN IF hits = {} THEN Lost(st)
     ELSE [st EXCEPT !.parent = st.cur, !.cur = st.cur.nodes[Nth(hits, 0)], !.state = next]
ToIndex(st) ==
  IF st.idx >= Len(st.cur.nodes) THEN Lost(st)
  ELSE [st EXCEPT !.parent = st.cur, !.cur = st.cur.nodes[st.idx + 1], !.state = "0"]
ToNth(st) ==
  LET hits == NamedSo(st.parent, st.name)
  IN IF st.idx >= Cardinality(hits) THEN Lost(st) ELSE [st EXCEPT !.cur = st.parent.nodes[Nth(hits, st.idx)], !.state = "0"]
\* All members of the name; the node that takes them is an array.
ToAll(st) ==
  LET hits == NamedSo(st.parent, st.name)
  IN [st EXCEPT !.cur = [Fresh0 EXCEPT !.category = "Object", !.type = "array",
                                       !.nodes = [k \in 1..Cardinality(hits) |-> st.parent.nodes[Nth(hits, k - 1)]]],
                !.state = "0"]

\* What begins in the states root and 0.
BeginsAt(st, c) ==
  CASE c = LBracket -> [st EXCEPT !.state = "arrayIdx", !.idx = 0]
    [] c = Dot -> [st EXCEPT !.state = "memberName", !.name = <<>>]
    [] c \in {Quote, Apostrophe} -> [st EXCEPT !.state = "memberNameQ", !.quote = c, !.name = <<>>]
    [] c = Colon -> [st EXCEPT !.state = "meta0"]
    [] c = LBrace /\ st.state = "0" -> [st EXCEPT !.state = "nth0"]
    [] c = Dollar /\ st.state = "root" -> [st EXCEPT !.state = "0"]
    [] OTHER -> IF st.state = "0" THEN Lost(st) ELSE [st EXCEPT !.state = "memberName", !.name = <<c>>]
InName(st, c) ==
  CASE c \in {Quote, Apostrophe} -> [st EXCEPT !.quote = c, !.state = "memberNameQ"]
    [] c = LBracket -> [ToMember(st, "arrayIdx") EXCEPT !.idx = 0]
    [] c = Dot -> [ToMember(st, "memberName") EXCEPT !.name = <<>>]
    [] c = Colon -> ToMember(st, "meta0")
    [] c = LBrace -> ToMember(st, "nth0")
    [] OTHER -> [st EXCEPT !.name = Append(@, c)]
InQuotes(st, c) ==
  CASE st.state = "memberNameQesc" -> [st EXCEPT !.name = Append(@, c), !.state = "memberNameQ"]
    [] st.state = "memberNameQ" /\ c = st.quote -> ToMember(st, "0")
    [] st.state = "memberNameQ" /\ c = Backslash -> [st EXCEPT !.state = "memberNameQesc"]
    [] OTHER -> [st EXCEPT !.name = Append(@, c)]
InIndex(st, c) ==
  CASE c \in Digit -> [st EXCEPT !.idx = (IF st.state = "nth0" THEN 0 ELSE @ * 10) + c - 48,
                                 !.state = IF @ = "nth0" THEN "nth" ELSE @]
    [] c = RBracket /\ st.state = "arrayIdx" -> ToIndex(st)
    [] c = RBrace /\ st.state = "nth0" -> ToAll(st)
    [] c = RBrace /\ st.state = "nth" -> ToNth(st)
    [] OTHER -> Lost(st)
InMeta(st, c) ==
  IF st.state = "meta" THEN [st EXCEPT !.meta = c] ELSE IF c = Colon THEN [st EXCEPT !.state = "meta"] ELSE Lost(st)

PathStep(st, c) ==
  CASE ~st.ok -> st
    [] st.ok /\ st.state \in {"root", "0"} -> BeginsAt(st, c)
    [] st.ok /\ st.state = "memberName" -> InName(st, c)
    [] st.ok /\ st.state \in {"memberNameQ", "memberNameQesc"} -> InQuotes(st, c)
    [] st.ok /\ st.state \in {"arrayIdx", "nth0", "nth"} -> InIndex(st, c)
    [] st.ok /\ st.state \in {"meta0", "meta"} -> InMeta(st, c)

Number(n) == [Fresh0 EXCEPT !.category = "Value", !.type = "int", !.tag = "uint", !.value = <<n>>]
\* The end of the text ends a name, and the state tells what is returned.
Closed(st) == IF st.ok /\ st.state = "memberName" THEN ToMember(st, "0") ELSE st
Outcome(st) ==
  CASE st.ok /\ st.state \in {"root", "0"} -> st.cur
    [] st.ok /\ st.meta = Metas.size -> Number(Len(st.cur.nodes))
    [] st.ok /\ st.meta = Metas.count -> Number(Cardinality(NamedSo(st.parent, st.name)))
    [] OTHER -> NoNode
path(root, text) ==
  LET upTo[i \in 0..Len(text)] ==
        IF i = 0 THEN [ok |-> TRUE, state |-> "root", cur |-> root, parent |-> root, name |-> <<>>, quote |-> 0,
                       idx |-> 0, meta |-> 0]
        ELSE PathStep(upTo[i - 1], text[i])
  IN Outcome(Closed(upTo[Len(text)]))

--------------------------------------------------------------------------
(* What texts of paths mean *)
RECURSIVE Within(_), Routes(_), NodeAt(_, _), RoutePaths(_, _)
Within(n) == {n} \cup UNION {Within(n.nodes[i]) : i \in DOMAIN n.nodes}
Routes(n) == {<<>>} \cup UNION {{<<i>> \o r : r \in Routes(n.nodes[i])} : i \in DOMAIN n.nodes}
NodeAt(n, r) == IF r = <<>> THEN n ELSE NodeAt(n.nodes[Head(r)], Tail(r))
PathEscaped(name) ==
  LET upTo[i \in 0..Len(name)] == IF i = 0 THEN <<>>
        ELSE upTo[i - 1] \o (IF name[i] \in {Quote, Backslash} THEN <<Backslash, name[i]>> ELSE <<name[i]>>)
  IN upTo[Len(name)]
SimpleName(name) == name # <<>> /\ \A i \in DOMAIN name : name[i] \in Alnum
\* The ways to name the i-th member of a node.
StepTexts(n, i) ==
  LET name == n.nodes[i].name
      before == Cardinality({j \in NamedSo(n, name) : j < i})
      said == {<<Dot, Quote>> \o PathEscaped(name) \o <<Quote>>}
              \cup (IF SimpleName(name) THEN {<<Dot>> \o name} ELSE {})
  IN {<<LBracket, 47 + i, RBracket>>} \cup {t \o <<LBrace, 48 + before, RBrace>> : t \in said}
     \cup (IF before = 0 THEN said ELSE {})
RoutePaths(n, r) ==
  IF r = <<>> THEN {<<>>} ELSE {t \o rest : t \in StepTexts(n, Head(r)), rest \in RoutePaths(n.nodes[Head(r)], Tail(r))}

--------------------------------------------------------------------------
SiBegins(a, b) == siA = a /\ siB = b /\ siWas = <<a, b>> /\ siCall = "nothing" /\ siSteps = 0
SiInit == \E a, b \in SiTrees : SiBegins(a, b)

SiSet(node) == siA' = node /\ siB' = siB /\ siCall' = "set"
SiBoth(call, pair) == siA' = pair[1] /\ siB' = pair[2] /\ siCall' = call

SiNext ==
  /\ siSteps < MaxSiSteps /\ siSteps' = siSteps + 1 /\ siWas' = <<siA, siB>>
  /\ \/ \E tag \in StringTags, text \in SiTexts : SiSet(setText(siA, tag, text))
     \/ \E p \in SiPlains : SiSet(setPlain(siA, p[1], <<p[2]>>))
     \/ \E name \in SiNames : SiSet(addMember(siA, name))
     \/ SiSet(siSetTypeName(siA, "type")) \/ SiSet(setNull(siA)) \/ SiSet(siClear(siA))
     \/ SiBoth("assign", <<[assignData(siA, siB) EXCEPT !.name = siB.name], siB>>)
     \/ SiBoth("data", <<assignData(siA, siB), siB>>)
     \/ SiBoth("move", moveAssign(siA, siB))
     \/ SiBoth("swap", swap(siA, siB))

--------------------------------------------------------------------------
\* The union holds the string that the tag tells of, and nothing that must be destroyed else.
SiTagMatches == \A n \in Within(siA) \cup Within(siB) : n.object = IF n.tag \in StringTags THEN n.tag ELSE "none"
\* A list or a structure with a text of its own becomes a value when it is assigned or swapped.
OddlyMixed(n) == n.category # "Value" /\ n.tag \in StringTags
TakenOver(n, from) == n = from \/ OddlyMixed(from)
SiCallKept ==
  LET a == siWas[1]  b == siWas[2]
  IN CASE siCall = "assign" -> TakenOver(siA, b) /\ siB = b
       [] siCall = "data" -> TakenOver([siA EXCEPT !.name = b.name], b) /\ siB = b
       [] siCall = "move" -> siA = b
       [] siCall = "swap" -> OddlyMixed(a) \/ OddlyMixed(b) \/ (siA = b /\ siB = a)
       [] OTHER -> siB = b
\* A number that was put in is what is read out with any integer type, or it has no place there.
SiNumbersKept ==
  \A n \in {m \in Within(siA) : m.tag \in {"int", "uint", "bool"}}, type \in Types, bits \in {2, NuBits - 2, NuBits} :
    \A r \in {siGet(n, type, bits), siGet(setText(n, "string", formatInt(n.value[1], 10)), type, bits)} :
      /\ r[1] = (n.value[1] \in LowestOf(type, bits)..HighestOf(type, bits))
      /\ r[1] => r[2] = n.value[1]
\* Each way to write where a node is leads to it.
SiPathFinds ==
  \A r \in Routes(siA) :
    LET n == NodeAt(siA, r)
        texts == RoutePaths(siA, r)
        one == CHOOSE text \in texts : TRUE
    IN /\ \A text \in texts : /\ path(siA, text) = n
                              /\ text # <<>> /\ text[1] = Dot => path(siA, Tail(text)) = n
       /\ path(siA, <<Dollar>> \o one \o <<Colon, Colon, Metas.size>>) = Number(Len(n.nodes))
       /\ \A name \in {x \in {n.nodes[j].name : j \in DOMAIN n.nodes} : SimpleName(x)} :
            LET named == NamedSo(n, name)
                all == path(siA, one \o <<Dot>> \o name \o <<LBrace, RBrace>>).nodes
            IN /\ path(siA, one \o <<Dot>> \o name \o <<Colon, Colon, Metas.count>>) = Number(Cardinality(named))
               /\ Len(all) = Cardinality(named) /\ {all[k] : k \in DOMAIN all} = {n.nodes[j] : j \in named}

\* Trees of values stay whole, keep what they are given and are found by their paths.
ValueTreeSound == SiTagMatches /\ SiCallKept /\ SiNumbersKept /\ SiPathFinds
=============================================================================
