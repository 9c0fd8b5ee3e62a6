------------------------------ MODULE Numbers ------------------------------
(***************************************************************************)
(* Numbers from and to texts (convert.h, convert.cpp).  A text grows sign  *)
(* by sign; the numbers that are read from it are compared with what it    *)
(* says.  Integers have few bits.  A decimal fraction is kept exactly, as  *)
(* [num, exp] for num * 10^exp: rounding to binary, the limits on the      *)
(* digits that count, infinity and not-a-number are left out.              *)
(***************************************************************************)
EXTENDS Parsing

CONSTANTS NuBits,       \* bits of an integer
          NuChars,      \* the signs of the texts
          NuMaxText,    \* how long a text becomes
          NuPrecision,  \* digits that a decimal fraction is written with
          NuDecimals    \* the decimal fractions that are written

ASSUME NumberAssumption ==
  NuBits \in 2..15 /\ NuChars \subseteq Every /\ NuMaxText \in Nat /\ NuPrecision \in 1..4

VARIABLE nuText

Types == {"signed", "unsigned"}
GreatestOf(type) == IF type = "signed" THEN 2^(NuBits - 1) - 1 ELSE 2^NuBits - 1
LeastOf(type) == IF type = "signed" THEN -(2^(NuBits - 1)) ELSE 0
SmallE == 101
LargeE == 69

--------------------------------------------------------------------------
(* Reading.  A reader returns where it stopped, whether it was ok, and the *)
(* value.                                                                  *)
Past(t, p, class) == CHOOSE q \in p..Len(t) + 1 : /\ \A k \in p..q - 1 : t[k] \in class
                                                  /\ q > Len(t) \/ t[q] \notin class
SignAt(t, p) == IF p <= Len(t) THEN t[p] ELSE -1

toDigit(c, base) ==
  IF base # 16 THEN (c - 48) % 256
  ELSE IF c \in HexDigits THEN c - (IF c \in Digit THEN 48 ELSE IF c \in Lower THEN 87 ELSE 55) ELSE 255

\* getSign: where the digits begin, and whether the sign was a plus or none.
getSign(t, p) ==
  LET q == Past(t, p, Space)
  IN [p |-> IF SignAt(t, q) \in {Minus, Plus} THEN q + 1 ELSE q, pos |-> SignAt(t, q) # Minus]

getInt(t, from, type, base) ==
  LET sign == getSign(t, from)
      max == IF sign.pos THEN GreatestOf(type) ELSE -LeastOf(type)
      Step(st) ==
        LET d == IF st.p <= Len(t) THEN toDigit(t[st.p], base) ELSE base
        IN IF st.over \/ d >= base THEN st
           ELSE IF (st.u # 0 /\ base > max \div st.u) \/ d > max - st.u * base THEN [st EXCEPT !.over = TRUE]
           ELSE [st EXCEPT !.u = @ * base + d, !.p = @ + 1]
      read[n \in 0..Len(t)] == IF n = 0 THEN [u |-> 0, p |-> sign.p, over |-> FALSE] ELSE Step(read[n - 1])
      last == read[Len(t)]
  IN IF sign.p > Len(t) \/ (~sign.pos /\ type = "unsigned") THEN [p |-> sign.p, ok |-> FALSE, n |-> 0]
     ELSE [p |-> last.p, ok |-> ~last.over, n |-> IF last.over THEN 0 ELSE IF sign.pos THEN last.u ELSE -last.u]

DigitsOf(t, p, q) == LET val[k \in p - 1..q - 1] == IF k < p THEN 0 ELSE 10 * val[k - 1] + t[k] - 48 IN val[q - 1]

getFloat(t) ==
  LET sign == getSign(t, 1)
      point == Past(t, sign.p, Digit)
      hasPoint == SignAt(t, point) = Dot
      behind == IF hasPoint THEN Past(t, point + 1, Digit) ELSE point
      digits == behind - point - (IF hasPoint THEN 1 ELSE 0)
      whole == DigitsOf(t, sign.p, point)
      num == IF digits = 0 THEN whole ELSE whole * 10^digits + DigitsOf(t, point + 1, behind)
      Signed(v) == IF sign.pos THEN v ELSE -v
      exp == getInt(t, behind + 1, "signed", 10)
  IN IF sign.p > Len(t) THEN [p |-> sign.p, ok |-> FALSE, num |-> 0, exp |-> 0]
     ELSE IF point > Len(t) THEN [p |-> point, ok |-> TRUE, num |-> Signed(whole), exp |-> 0]
     ELSE IF t[point] \notin {Dot, SmallE, LargeE}
       THEN [p |-> point, ok |-> point > sign.p, num |-> whole, exp |-> 0]
     ELSE IF SignAt(t, behind) \notin {SmallE, LargeE}
       THEN [p |-> behind, ok |-> TRUE, num |-> Signed(num), exp |-> -digits]
     ELSE IF behind = Len(t) THEN [p |-> behind + 1, ok |-> point > sign.p, num |-> num, exp |-> -digits]
     ELSE IF ~exp.ok THEN [p |-> exp.p, ok |-> FALSE, num |-> num, exp |-> -digits]
     ELSE [p |-> exp.p, ok |-> TRUE, num |-> Signed(num), exp |-> exp.n - digits]

\* convert<T>(text): only blanks may be behind a number.
Accepts(t, r) == r.ok /\ Past(t, r.p, Space) > Len(t)

--------------------------------------------------------------------------
(* Writing *)
toChar(d) == HexChar(d)
formatInt(v, base) ==
  LET low[u \in 0..2^NuBits] == IF u < base THEN <<toChar(u)>> ELSE low[u \div base] \o <<toChar(u % base)>>
  IN IF v < 0 THEN <<Minus>> \o low[-v] ELSE low[v]

Magnitude(n) == CHOOSE d \in 1..9 : 10^(d - 1) <= n /\ n < 10^d
\* num * 10^q, rounded to a whole number.
Scaled(n, q) == IF q >= 0 THEN n * 10^q ELSE (2 * n + 10^(-q)) \div (2 * 10^(-q))
Zeros(n) == [i \in 1..n |-> 48]
\* The digits of a number of so many digits, without the zeros at the end.
Figures(n, digits) ==
  LET all == [i \in 1..digits |-> 48 + ((n \div 10^(digits - i)) % 10)]
      kept == {i \in 1..digits : all[i] # 48}
  IN IF kept = {} THEN <<>> ELSE SubSeq(all, 1, CHOOSE i \in kept : \A k \in kept : k <= i)

putFloat(v) ==
  LET exp == Magnitude(v.num) + v.exp
      fract == Figures(Scaled(v.num, v.exp + NuPrecision - exp), NuPrecision)
  IN IF fract = <<>> THEN <<48>>
     ELSE IF exp <= 0 THEN <<48, Dot>> \o Zeros(-exp) \o fract
     ELSE IF exp >= Len(fract) THEN fract \o Zeros(exp - Len(fract))
     ELSE SubSeq(fract, 1, exp) \o <<Dot>> \o SubSeq(fract, exp + 1, Len(fract))

--------------------------------------------------------------------------
(* What a text says *)
OnlyBlanks(t) == \A i \in DOMAIN t : t[i] \in Space
Core(t) == IF OnlyBlanks(t) THEN <<>>
           ELSE SubSeq(t, CHOOSE i \in DOMAIN t : t[i] \notin Space /\ \A k \in 1..i - 1 : t[k] \in Space,
                          CHOOSE i \in DOMAIN t : t[i] \notin Space /\ \A k \in i + 1..Len(t) : t[k] \in Space)
Unsigned(t) == IF t # <<>> /\ t[1] \in {Plus, Minus} THEN Tail(t) ELSE t
Sign(t) == IF t # <<>> /\ t[1] = Minus THEN -1 ELSE 1
AreDigits(t) == \A i \in DOMAIN t : t[i] \in Digit
IsInt(t) == Unsigned(t) # <<>> /\ AreDigits(Unsigned(t))
IntOf(t) == Sign(t) * DigitsOf(Unsigned(t), 1, Len(Unsigned(t)) + 1)
\* The place of one of these signs, behind the text if there is none.
PlaceOf(t, class) == IF \E i \in DOMAIN t : t[i] \in class
                     THEN CHOOSE i \in DOMAIN t : t[i] \in class /\ \A k \in 1..i - 1 : t[k] \notin class ELSE Len(t) + 1
MantissaOf(t) == SubSeq(t, 1, PlaceOf(t, {SmallE, LargeE}) - 1)
ExponentOf(t) == SubSeq(t, PlaceOf(t, {SmallE, LargeE}) + 1, Len(t))
WholeOf(t) == LET m == Unsigned(MantissaOf(t)) IN SubSeq(m, 1, PlaceOf(m, {Dot}) - 1)
PartOf(t) == LET m == Unsigned(MantissaOf(t)) IN SubSeq(m, PlaceOf(m, {Dot}) + 1, Len(m))
IsFloat(t) == /\ WholeOf(t) \o PartOf(t) # <<>> /\ AreDigits(WholeOf(t) \o PartOf(t))
              /\ PlaceOf(t, {SmallE, LargeE}) > Len(t) \/ IsInt(ExponentOf(t))
FloatOf(t) ==
  [num |-> Sign(t) * DigitsOf(WholeOf(t) \o PartOf(t), 1, Len(WholeOf(t) \o PartOf(t)) + 1),
   exp |-> (IF ExponentOf(t) = <<>> THEN 0 ELSE IntOf(ExponentOf(t))) - Len(PartOf(t))]

--------------------------------------------------------------------------
NuInit == nuText = <<>>
NuNext == Len(nuText) < NuMaxText /\ \E c \in NuChars : nuText' = Append(nuText, c)

\* A text is read as the integer it says if that has a place in the type, and refused else; a
\* sign with blanks behind it is taken for zero.
IntegersRead ==
  \A type \in Types : \A r \in {getInt(nuText, 1, type, 10)}, core \in {Core(nuText)} :
    LET fits == IsInt(core) /\ IntOf(core) \in LeastOf(type)..GreatestOf(type)
                /\ (type = "unsigned" => core[1] # Minus)
        signOnly == core = <<Plus>> \/ (core = <<Minus>> /\ type = "signed")
    IN IF fits THEN Accepts(nuText, r) /\ r.n = IntOf(core) ELSE Accepts(nuText, r) => signOnly /\ r.n = 0

\* The sign of a whole number is lost when something is behind it.
SignIsLost == Sign(Core(nuText)) = -1 /\ IsInt(Core(nuText)) /\ nuText[Len(nuText)] \in Space
\* A text is read as the decimal fraction it says, unless its exponent has no place in a long.
FloatsRead ==
  \A r \in {getFloat(nuText)}, core \in {Core(nuText)} :
    LET exponent == ExponentOf(core)
        fits == exponent = <<>> \/ IntOf(exponent) \in LeastOf("signed")..GreatestOf("signed")
    IN IsFloat(core) /\ ~SignIsLost =>
         IF fits THEN Accepts(nuText, r) /\ [num |-> r.num, exp |-> r.exp] = FloatOf(core) ELSE ~Accepts(nuText, r)

\* What is written is read back in each base, for every value of each type.
IntegersReadBack ==
  \A type \in Types, base \in {8, 10, 16} : \A v \in LeastOf(type)..GreatestOf(type) :
    \A t \in {formatInt(v, base)} : \A r \in {getInt(t, 1, type, base)} : Accepts(t, r) /\ r.n = v

\* Rounding to the digits that are written gives one digit more: they are all zeros then.
Carries(v) == Scaled(v.num, NuPrecision - Magnitude(v.num)) = 10^NuPrecision
Same(a, b) == a.num # 0 /\ a.num * 10^(IF a.exp > b.exp THEN a.exp - b.exp ELSE 0)
                             = b.num * 10^(IF b.exp > a.exp THEN b.exp - a.exp ELSE 0)
\* A decimal fraction that is written is read back, rounded to the digits that are written.
FloatsReadBack ==
  \A v \in NuDecimals : Carries(v) \/
    \A t \in {putFloat(v)} : \A r \in {getFloat(t)}, exp \in {Magnitude(v.num) - NuPrecision} :
       Accepts(t, r) /\ Same(r, [num |-> Scaled(v.num, -exp), exp |-> v.exp + exp])

\* Numbers are what their texts say, and texts what their numbers are.
NumbersSound == IntegersRead /\ FloatsRead /\ (nuText = <<>> => IntegersReadBack /\ FloatsReadBack)
=============================================================================
