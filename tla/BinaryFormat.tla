----------------------------- MODULE BinaryFormat -----------------------------
(***************************************************************************)
(* The binary format: bin::Formatter writes a tree, bin::Parser reads it   *)
(* back byte by byte.  Both keep a dictionary of the names they have met,  *)
(* and a name that is in it is sent as its index.                          *)
(*                                                                         *)
(* Numbers of 64 bits are sequences of eight bytes.  A value is a tuple    *)
(* that begins with its kind: <<"int", negative, bytes>>, <<"bool", b>>,   *)
(* <<"char", c>>, <<"float", negative, exponent, mantissa>>, <<"special",  *)
(* s>> (nan, inf, -inf and zero), <<"wide", text>> and <<"narrow", text>>  *)
(* (String and std::string), or <<>>, which is none.                       *)
(***************************************************************************)
EXTENDS Codecs

CONSTANTS
  Radix,     \* 256, for the lengths and the indices of names
  Spelling   \* the types that may be sent by name, and their bytes

Zero8 == [i \in 1..8 |-> 0]
Ones8 == [i \in 1..8 |-> 255]
End == 255

\* Serializer::Type.  Codes of values without name are higher by Plain.
TypeCode ==
  [bool |-> 1, char |-> 2, string |-> 3, int |-> 4, double |-> 32, pair |-> 48, array |-> 49, list |-> 51,
   deque |-> 52, set |-> 53, multiset |-> 54, map |-> 55, multimap |-> 56]
Plain == 64
Binary2 == 6
Binary4 == 7
Int8 == 16
UInt8 == 24
ShortFloat == 33
MediumFloat == 34
LongFloat == 35
Bcd == 62
Other == 63
CategoryObject == 160
CategoryArray == 161

bcdDigits == [i \in 0..9 |-> 48 + i] @@ (10 :> Plus) @@ (11 :> Minus) @@ (12 :> Dot) @@ (13 :> Colon) @@ (14 :> SP) @@ (15 :> 0)
bcd(c) == CHOOSE i \in 0..14 : bcdDigits[i] = c
BcdChars == {bcdDigits[i] : i \in 0..14}
Specials == [nan |-> <<110, 97, 110>>, inf |-> <<105, 110, 102>>, neginf |-> <<Minus, 105, 110, 102>>]

InRadix(n, width) == [i \in 1..width |-> (n \div (Radix ^ (width - i))) % Radix]

-----------------------------------------------------------------------------
(* Formatter.  f has out and dict.                                         *)

Put(f, bytes) == [f EXCEPT !.out = @ \o bytes]

IndexOf(dict, s) == {i \in DOMAIN dict : dict[i] = s}

\* The limit of the dictionary is off by one, and its last index wraps around.
outputStringBeyond(f, s) ==
  IF s = <<>> THEN Put(f, <<0>>)
  ELSE IF IndexOf(f.dict, s) # {} THEN Put(f, <<1>> \o InRadix((CHOOSE i \in IndexOf(f.dict, s) : TRUE) - 1, 2))
  ELSE Put([f EXCEPT !.dict = IF Len(@) <= Radix ^ 2 THEN Append(@, s) ELSE @], Append(s, 0))

outputString(f, s) ==
  IF s = <<>> THEN Put(f, <<0>>)
  ELSE IF IndexOf(f.dict, s) # {} THEN Put(f, <<1>> \o InRadix((CHOOSE i \in IndexOf(f.dict, s) : TRUE) - 1, 2))
  ELSE Put([f EXCEPT !.dict = IF Len(@) <= Radix ^ 2 - 1 THEN Append(@, s) ELSE @], Append(s, 0))

\* A type code, and the name if there is one.
Header(f, code, name) ==
  IF name = <<>> THEN Put(f, <<code + Plain>>) ELSE outputString(Put(f, <<code>>), name)

printTypeCode(f, type, plain) ==
  IF type \in DOMAIN TypeCode THEN Put(f, <<TypeCode[type] + (IF plain THEN Plain ELSE 0)>>)
  ELSE outputString(Put(f, <<Other + (IF plain THEN Plain ELSE 0)>>), Spelling[type])

\* Integers in the least of 1, 2, 4 and 8 bytes: fits(w) says whether the bytes
\* in front of the last w can be left out.
Sized(f, code, name, v, fits(_)) ==
  LET k == CHOOSE i \in 0..3 : fits(2 ^ i) /\ \A j \in 0..(i - 1) : ~fits(2 ^ j)
  IN Put(Header(f, code + k, name), SubSeq(v, 9 - 2 ^ k, 8))

printUInt(f, v, name) == Sized(f, UInt8, name, v, LAMBDA w : SubSeq(v, 1, 8 - w) = SubSeq(Zero8, 1, 8 - w))

printInt(f, v, name) ==
  IF v[1] < 128 THEN printUInt(f, v, name)
  ELSE Sized(f, Int8, name, v, LAMBDA w : SubSeq(v, 1, 8 - w) = SubSeq(Ones8, 1, 8 - w) /\ v[9 - w] >= 128)

areLowerBitsSet(m, bits) == SubSeq(m, 9 - bits \div 8, 8) # SubSeq(Zero8, 1, bits \div 8)

printFloat(f, neg, exp, m, name) ==
  LET sign == IF neg THEN 128 ELSE 0
  IN IF areLowerBitsSet(m, 32) \/ exp \notin -63..63
       THEN Put(Header(f, LongFloat, name), <<sign + (exp + 16383) \div 256, (exp + 16383) % 256>> \o m)
     ELSE IF areLowerBitsSet(m, 48) THEN Put(Header(f, MediumFloat, name), <<sign + exp + 63>> \o SubSeq(m, 1, 4))
     ELSE Put(Header(f, ShortFloat, name), <<sign + exp + 63>> \o SubSeq(m, 1, 2))

printSpecial(f, s, name) ==
  Put(Header(f, ShortFloat, name),
      CASE s = "nan" -> <<127, 1, 0>> [] s = "inf" -> <<127, 0, 0>> [] s = "neginf" -> <<255, 0, 0>> [] OTHER -> <<0, 0, 0>>)

\* Two digits in a byte; the last one is marked if it is alone.
BcdBytes(text) ==
  [i \in 1..((Len(text) + 1) \div 2) |->
     16 * bcd(text[2 * i - 1]) + (IF 2 * i > Len(text) THEN 15 ELSE bcd(text[2 * i]))]

printBcd(f, type, name, text) ==
  LET plain == IF name = <<>> THEN Plain ELSE 0
      code == IF type = "double" THEN Put(f, <<TypeCode.double + plain>>)
              ELSE outputString(Put(f, <<Bcd + plain>>), Spelling[type])
      named == IF name = <<>> THEN code ELSE outputString(code, name)
  IN Put(named, (CASE text = Specials.nan -> <<240>> [] text = Specials.inf -> <<241>> [] text = Specials.neginf -> <<242>>
                   [] OTHER -> BcdBytes(text)) \o <<End>>)

printBinary(f, name, bytes) ==
  IF Len(bytes) <= Radix ^ 2 - 1 THEN Put(Header(f, Binary2, name), InRadix(Len(bytes), 2) \o bytes)
  ELSE Put(Header(f, Binary4, name), InRadix(Len(bytes), 4) \o bytes)

Encoded(text) == LET upto[i \in 0..Len(text)] == IF i = 0 THEN <<>> ELSE upto[i - 1] \o Utf8Bytes(text[i]) IN upto[Len(text)]

isTrue(text) == text # <<>> /\ text[1] \in {49, 116, 84, 121, 89}

IsBcd(text) == (\A i \in DOMAIN text : text[i] \in BcdChars) \/ \E s \in DOMAIN Specials : text = Specials[s]

\* Characters that need a length in front of them: \0 in a String, which is
\* sent in UTF-8, and all that are not ASCII in a std::string.
NeedsLength(kind, text) == \E i \in DOMAIN text : IF kind = "wide" THEN text[i] = 0 ELSE text[i] \notin 1..127

\* The number that a text spells, below 2^31.  A text that spells none makes the
\* formatter throw; it is not given one.
InBytes(n) == [i \in 1..8 |-> IF i <= 4 THEN 0 ELSE (n \div 256 ^ (8 - i)) % 256]
Complement(v) == [i \in 1..8 |-> 255 - v[i]]
HasSign(text) == text # <<>> /\ text[1] \in {Plus, Minus}
NumberOf(text) ==
  LET n == FoldLeft(LAMBDA sum, c : 10 * sum + c - 48, 0, IF HasSign(text) THEN Tail(text) ELSE text)
  IN IF text[1] = Minus /\ n > 0 THEN Complement(InBytes(n - 1)) ELSE InBytes(n)

IsNumber(type) == type \in {"int", "long"}

addValueString(f, name, type, kind, text) ==
  LET bytes == IF kind = "wide" THEN Encoded(text) ELSE text
      code == printTypeCode(f, type, name = <<>>)
  IN IF IsNumber(type) THEN IF HasSign(text) THEN printInt(f, NumberOf(text), name) ELSE printUInt(f, NumberOf(text), name)
     ELSE IF IsBcd(text) THEN printBcd(f, type, name, text)
     ELSE IF type = "bool" THEN Put(Header(f, TypeCode.bool, name), <<IF isTrue(text) THEN 1 ELSE 0>>)
     ELSE IF NeedsLength(kind, text) THEN printBinary(f, name, bytes)
     ELSE Put(IF name = <<>> THEN code ELSE outputString(code, name), bytes \o <<0, End>>)

IsNull(node) == node.cat \in {"Void", "Value"} /\ node.value = <<>>

addBinValue(f, name, type, v) ==
  CASE v[1] = "int" /\ v[2] -> printInt(f, v[3], name)
    [] v[1] = "int" /\ ~v[2] -> printUInt(f, v[3], name)
    [] v[1] = "bool" -> Put(Header(f, TypeCode.bool, name), <<IF v[2] THEN 1 ELSE 0>>)
    [] v[1] = "char" -> Put(Header(f, TypeCode.char, name), <<v[2]>>)
    [] v[1] = "float" -> printFloat(f, v[2], v[3], v[4], name)
    [] v[1] = "special" -> printSpecial(f, v[2], name)
    [] OTHER -> addValueString(f, name, type, v[1], v[2])

RECURSIVE Format(_, _)
Format(f, node) ==
  LET isObject == node.cat = "Object"
      begun == printTypeCode(outputString(Put(f, <<IF isObject THEN CategoryObject ELSE CategoryArray>>), node.name),
                             node.type, ~isObject)
      upto[i \in 0..Len(node.members)] == IF i = 0 THEN begun ELSE Format(upto[i - 1], node.members[i])
  IN IF IsNull(node) THEN Put(Header(f, 0, node.name), <<End>>)
     ELSE IF node.cat = "Value" THEN addBinValue(f, node.name, node.type, node.value)
     ELSE Put(upto[Len(node.members)], <<End>>)

FormatterBegun == [out |-> <<>>, dict |-> <<>>]

-----------------------------------------------------------------------------
(* Parser.  m has cur and err (see Parsing), dict, stack, the states  *)
(* of the parsers from the first to the one that reads, skip, which is     *)
(* that nothing is told to the deserializer, signed (see Index) and done.  *)

Level == [state |-> "type", next |-> "type", token |-> <<>>, count |-> 0, int |-> Zero8, exp |-> 0, neg |-> FALSE, idx |-> 0,
          length |-> 0]

ParserBegun(dict) ==
  [cur |-> Root, err |-> FALSE, dict |-> dict, stack |-> <<Level>>, skip |-> FALSE, signed |-> FALSE, done |-> FALSE]
ParserSkips(m) == [m EXCEPT !.stack = <<Level>>, !.skip = TRUE, !.done = FALSE]

Top(m) == m.stack[Len(m.stack)]
Goes(m, level) == [m EXCEPT !.stack[Len(m.stack)] = level]
GoesTo(m, state) == [m EXCEPT !.stack[Len(m.stack)].state = state]
SetField(m, field, v) == IF m.skip THEN m ELSE [m EXCEPT !.cur[Len(m.cur)][field] = v]
BinSetValue(m, v) == SetField(SetField(m, "value", v), "cat", "Value")

\* advance() returns true: the parser around this one goes on.
Completed(m) ==
  LET outer == SubSeq(m.stack, 1, Len(m.stack) - 1)
      left == IF m.skip THEN m ELSE leaveMember(m)
  IN IF outer = <<>> THEN [m EXCEPT !.done = TRUE]
     ELSE GoesTo([left EXCEPT !.stack = outer],
                 IF outer[Len(outer)].state = "object_member_value" THEN "object_member" ELSE "array_member_value_next")

BinMember(m, state) ==
  [GoesTo(IF m.skip THEN m ELSE beginMember(m, <<>>, "Void"), state) EXCEPT !.stack = Append(@, Level)]

dictAdd(m, s) == IF s = <<>> \/ IndexOf(m.dict, s) # {} THEN m ELSE [m EXCEPT !.dict = Append(@, s)]

TypeNamed(s) == CHOOSE t \in DOMAIN Spelling : Spelling[t] = s

\* The types that have a code.  0 is Empty; typeName() does not know vectors.
typeNames ==
  [c \in {TypeCode[t] : t \in DOMAIN TypeCode} |-> CHOOSE t \in DOMAIN TypeCode : TypeCode[t] = c]
  @@ [c \in {0} |-> ""] @@ [c \in {Binary2, Binary4} |-> "binary"]
  @@ [c \in Int8..(Int8 + 3) \cup UInt8..(UInt8 + 3) |-> "int"] @@ [c \in ShortFloat..LongFloat |-> "double"]

Vector == 50
ArrayCodes == {Vector, TypeCode.array, TypeCode.list, TypeCode.deque, TypeCode.set, TypeCode.multiset}
MapCodes == {TypeCode.pair, TypeCode.map, TypeCode.multimap}

\* Where the value of a type with this code is read, and how many bytes it has.
ValueState(c) ==
  CASE c = 0 -> <<"end", 0>> [] c = 1 -> <<"bool", 0>> [] c = 2 -> <<"char", 0>> [] c \in {3, 4} -> <<"value", 0>>
    [] c = Binary2 -> <<"length", 2>> [] c = Binary4 -> <<"length", 4>>
    [] c \in Int8..(Int8 + 3) -> <<"intsign", 2 ^ (c - Int8)>> [] c \in UInt8..(UInt8 + 3) -> <<"uint", 2 ^ (c - UInt8)>>
    [] c = TypeCode.double -> <<"bcd0", 0>>
    [] c = ShortFloat -> <<"sexp", 1>> [] c = MediumFloat -> <<"mexp", 1>> [] c = LongFloat -> <<"lexp", 2>>

state_type(m, b) ==
  LET c == b % Plain
      named == b < Plain
      goes(state, next) == Goes(m, [Top(m) EXCEPT !.state = state, !.next = next])
      cat == IF c \in ArrayCodes THEN "Array" ELSE IF c \in MapCodes THEN "Object" ELSE "Value"
      typed == SetField(SetField(m, "type", typeNames[c]), "cat", cat)
      after == IF c \in ArrayCodes THEN <<IF named THEN "array_member" ELSE "array_type", 0>>
               ELSE IF c \in MapCodes THEN <<IF named THEN "object_member" ELSE "object_type", 0>>
               ELSE ValueState(c)
  IN CASE b = Plain -> GoesTo(m, "end")
       [] b = CategoryObject -> SetField(goes("name", "object_type"), "cat", "Object")
       [] b = CategoryArray -> SetField(goes("name", "array_type"), "cat", "Array")
       [] b = Other -> goes("other", "name")
       [] b = Other + Plain -> goes("other", "value")
       [] b = Bcd -> goes("bcdtype", "name")
       [] b = Bcd + Plain -> goes("bcdtype", "bcd0")
       [] b < 128 /\ c \notin {Bcd, Other} /\ b # Plain /\ (c \in DOMAIN typeNames \/ (c = Vector /\ m.skip)) ->
            Goes(typed, [Top(m) EXCEPT !.state = IF named THEN "name" ELSE after[1], !.next = IF named THEN after[1] ELSE @,
                                       !.count = after[2]])
       [] OTHER -> Threw(m)

\* A name or a type has been read.
NameRead(m, s) == Goes(SetField(m, "name", s), [Top(m) EXCEPT !.state = Top(m).next, !.token = <<>>])

TypeRead(m, s) ==
  LET p == Top(m)
      typed == SetField(m, "type", TypeNamed(s))
  IN CASE p.state \in {"other", "other1"} -> Goes(typed, [p EXCEPT !.state = p.next, !.next = "value", !.token = <<>>])
       [] p.state \in {"bcdtype", "bcdtype1"} -> Goes(typed, [p EXCEPT !.state = p.next, !.next = "bcd", !.token = <<>>])
       [] p.state \in {"object_other", "object_other1"} -> Goes(typed, [p EXCEPT !.state = "object_member", !.token = <<>>])
       [] OTHER -> Goes(typed, [p EXCEPT !.state = "array_member", !.token = <<>>])

\* Read(m, s) gets what was spelled or looked up; first is the state in which
\* the high byte of an index is read.
Spelled(m, b, first, Read(_, _)) ==
  LET p == Top(m)
  IN IF b = 0 THEN dictAdd(Read(m, p.token), p.token)
     ELSE IF p.token = <<>> /\ b = 1 THEN GoesTo(m, first)
     ELSE Goes(m, [p EXCEPT !.token = Append(@, b)])

\* The bytes of the index of a type are signed: one of the upper half makes it
\* an index beyond every dictionary.
Index(m, b, isSigned, second, Read(_, _)) ==
  LET p == Top(m)
      wrong == isSigned /\ b >= Radix \div 2
      byte == IF wrong THEN Radix ^ 3 ELSE b
      read == [m EXCEPT !.signed = @ \/ wrong]
  IN IF p.state # second THEN Goes(read, [p EXCEPT !.idx = Radix * byte, !.state = second])
     ELSE IF p.idx + byte >= Len(m.dict) THEN Threw(read)
     ELSE Read(read, m.dict[p.idx + byte + 1])

TypeStates == [other |-> <<"other0", "other1">>, bcdtype |-> <<"bcdtype0", "bcdtype1">>,
               object_other |-> <<"object_other0", "object_other1">>, array_other |-> <<"array_other0", "array_other1">>]

state_names(m, b) ==
  LET s == Top(m).state
      own == CHOOSE t \in DOMAIN TypeStates : s \in {TypeStates[t][1], TypeStates[t][2]}
  IN CASE s = "name" -> Spelled(m, b, "name0", NameRead)
       [] s \in {"name0", "name1"} -> Index(m, b, FALSE, "name1", NameRead)
       [] s \in DOMAIN TypeStates -> Spelled(m, b, TypeStates[s][1], TypeRead)
       [] OTHER -> Index(m, b, TRUE, TypeStates[own][2], TypeRead)

Shifted8(v, b) == Append(Tail(v), b)

state_value_int(m, b) ==
  LET p == Top(m)
      negative == p.state = "intsign" /\ b >= 128
      v == Shifted8(IF negative THEN Ones8 ELSE p.int, b)
      read == [p EXCEPT !.int = v, !.count = @ - 1, !.neg = @ \/ negative, !.state = IF @ = "intsign" THEN "int" ELSE @]
  IN IF p.count > 1 THEN Goes(m, read) ELSE Completed(BinSetValue(m, <<"int", p.neg \/ negative, v>>))

\* Codes for what are no digits are recognised in front of the first digit.
state_value_bcd(m, b) ==
  LET p == Top(m)
      special == CASE b = 240 -> "nan" [] b = 241 -> "inf" [] b = 242 -> "neginf" [] OTHER -> ""
      one == Append(p.token, bcdDigits[b \div 16])
  IN IF p.state = "bcd0" /\ special # "" THEN GoesTo(BinSetValue(m, <<"narrow", Specials[special]>>), "end")
     ELSE IF b = End THEN Completed(BinSetValue(m, <<"narrow", p.token>>))
     ELSE IF b % 16 = 15 THEN GoesTo(BinSetValue(m, <<"narrow", one>>), "end")
     ELSE Goes(m, [p EXCEPT !.state = "bcd", !.token = Append(one, bcdDigits[b % 16])])

state_value_binary(m, b) ==
  LET p == Top(m)
      length == Radix * p.length + b
      token == Append(p.token, b)
  IN CASE p.state = "length" /\ p.count > 1 -> Goes(m, [p EXCEPT !.length = length, !.count = @ - 1])
       [] p.state = "length" /\ p.count = 1 /\ length = 0 -> GoesTo(BinSetValue(m, <<"narrow", <<>>>>), "end")
       [] p.state = "length" /\ p.count = 1 /\ length > 0 -> Goes(m, [p EXCEPT !.state = "binary", !.count = length])
       [] p.state = "binary" /\ p.count > 1 -> Goes(m, [p EXCEPT !.token = token, !.count = @ - 1])
       [] OTHER -> Completed(BinSetValue(m, <<"narrow", token>>))

Decoded(bytes) == LET c == Utf8In(Converts(MBState, bytes, Len(bytes))) IN c.to

state_value_value(m, b) ==
  IF b = 0 THEN GoesTo(BinSetValue(Goes(m, [Top(m) EXCEPT !.token = <<>>]), <<"wide", Decoded(Top(m).token)>>), "end")
  ELSE Goes(m, [Top(m) EXCEPT !.token = Append(@, b)])

\* processFloatBase(): the bytes of the mantissa come first.
FloatValue(p, m) ==
  LET mantissa == SubSeq(m \o Zero8, 1, 8)
      short == p.state # "lbase"
  IN IF short /\ p.exp = 127 THEN <<"special", IF mantissa # Zero8 THEN "nan" ELSE IF p.neg THEN "neginf" ELSE "inf">>
     ELSE IF p.exp = 0 /\ mantissa = Zero8 THEN <<"special", "zero">>
     ELSE <<"float", p.neg, p.exp - (IF short THEN 63 ELSE 16383), mantissa>>

state_float(m, b) ==
  LET p == Top(m)
      first == [p EXCEPT !.neg = b >= 128, !.exp = b % 128]
      token == Append(p.token, b)
  IN CASE p.state = "sexp" -> Goes(m, [first EXCEPT !.state = "sbase", !.count = 2])
       [] p.state = "mexp" -> Goes(m, [first EXCEPT !.state = "mbase", !.count = 4])
       [] p.state = "lexp" /\ p.count = 2 -> Goes(m, [first EXCEPT !.count = 1])
       [] p.state = "lexp" /\ p.count = 1 -> Goes(m, [p EXCEPT !.exp = 256 * @ + b, !.state = "lbase", !.count = 8])
       [] p.count > 1 -> Goes(m, [p EXCEPT !.token = token, !.count = @ - 1])
       [] OTHER -> Completed(BinSetValue(m, FloatValue(p, token)))

\* The type of an object or of an array.
state_node_type(m, b) ==
  LET object == Top(m).state = "object_type"
      known == SetField(m, "type", typeNames[b % Plain])
  IN CASE b = Other + Plain -> GoesTo(m, IF object THEN "object_other" ELSE "array_other")
       [] b = Other /\ object -> GoesTo(m, "object_other")
       [] b = Other /\ ~object -> Goes(m, [Top(m) EXCEPT !.state = "name", !.next = "array_other"])
       [] b \in 0..127 \ {Other, Other + Plain} /\ b % Plain \in DOMAIN typeNames ->
            GoesTo(known, IF object THEN "object_member" ELSE "array_member")
       [] OTHER -> IF m.skip THEN GoesTo(m, IF object THEN "object_member" ELSE "array_member") ELSE Threw(m)

\* One byte in the state of the parser that reads.
OwnByte(m, b) ==
  LET s == Top(m).state
  IN CASE s = "type" -> state_type(m, b)
       [] s = "end" -> IF b = End THEN Completed(m) ELSE Threw(m)
       [] s = "bool" -> Completed(BinSetValue(m, <<"bool", b # 0>>))
       [] s = "char" -> Completed(BinSetValue(m, <<"char", b>>))
       [] s = "value" -> state_value_value(m, b)
       [] s \in {"intsign", "int", "uint"} -> state_value_int(m, b)
       [] s \in {"bcd0", "bcd"} -> state_value_bcd(m, b)
       [] s \in {"length", "binary"} -> state_value_binary(m, b)
       [] s \in {"sexp", "mexp", "lexp", "sbase", "mbase", "lbase"} -> state_float(m, b)
       [] s \in {"object_type", "array_type"} -> state_node_type(m, b)
       [] OTHER -> state_names(m, b)

\* advance() for one byte: in front of a member the parser for it is begun.
BinAdvance(m, b) ==
  LET s == Top(m).state
  IN IF s \notin {"object_member", "array_member", "array_member_value_next"} THEN OwnByte(m, b)
     ELSE IF b = End THEN Completed(m)
     ELSE OwnByte(BinMember(m, IF s = "object_member" THEN "object_member_value" ELSE "array_member_value"), b)
=============================================================================
