------------------------------ MODULE Calendar ------------------------------
(***************************************************************************)
(* Dates and times (date.cpp, time.cpp, datetime.cpp, dateutils.cpp).  A   *)
(* DateTime is a Julian day and microseconds within the day.  Beside it    *)
(* the same moment is kept by plain arithmetic, and days are compared with *)
(* the rules of the Gregorian calendar.  The lengths of an hour, a minute  *)
(* and a second are parameters.  In texts, the name of a month and the     *)
(* word am or pm are one sign each.                                        *)
(***************************************************************************)
EXTENDS Parsing

CONSTANTS MinutesPerHour, SecondsPerMinute,
          UDigits,            \* digits of the microseconds
          CalDates, CalTimes, \* where a behaviour starts: year, month, day, and microseconds
          CalSpans,           \* the time spans that are added
          CalFormats,         \* formats to write with and formats to read that with
          MaxCalSteps

ASSUME CalAssumption ==
  /\ MinutesPerHour \in 1..60 /\ SecondsPerMinute \in 1..60 /\ UDigits \in 1..6
  /\ CalSpans \subseteq Int /\ CalTimes \subseteq Nat /\ MaxCalSteps \in Nat

VARIABLES
  calDt,      \* the DateTime: [julian, usecs]
  calIdeal,   \* the day and the microseconds it should be
  calThrown,  \* an operation has thrown
  calSteps

calVars == <<calDt, calIdeal, calThrown, calSteps>>

Power10[n \in 0..6] == IF n = 0 THEN 1 ELSE 10 * Power10[n - 1]
USecsPerSecond == Power10[UDigits]
USecsPerMinute == SecondsPerMinute * USecsPerSecond
USecsPerHour == MinutesPerHour * USecsPerMinute
USecsPerDay == 24 * USecsPerHour

\* Division and remainder of C++.
Trunc(a, b) == IF a >= 0 THEN a \div b ELSE -((-a) \div b)
TruncMod(a, b) == a - b * Trunc(a, b)

--------------------------------------------------------------------------
(* The calendar *)
leapYear(y) == (TruncMod(y, 4) = 0 /\ TruncMod(y, 100) # 0) \/ TruncMod(y, 400) = 0
monthDays == <<31, 28, 31, 30, 31, 30, 31, 31, 30, 31, 30, 31>>
dateIsValid(y, m, d) == \/ m = 2 /\ leapYear(y) /\ d = 29
                        \/ m \in 1..12 /\ d \in 1..monthDays[m]
timeIsValid(h, min, s, us) == h < 24 /\ min < MinutesPerHour /\ s < SecondsPerMinute /\ us < USecsPerSecond

greg2jul(y, m, d) ==
  LET early == Trunc(m - 14, 12)
  IN Trunc(1461 * (y + 4800 + early), 4) + Trunc(367 * (m - 2 - 12 * early), 12)
     - Trunc(3 * Trunc(y + 4900 + early, 100), 4) + d - 32075

jul2greg(jd) ==
  LET l == jd + 68569
      n == Trunc(4 * l, 146097)
      l1 == l - Trunc(146097 * n + 3, 4)
      i == Trunc(4000 * (l1 + 1), 1461001)
      l2 == l1 - Trunc(1461 * i, 4) + 31
      j == Trunc(80 * l2, 2447)
      l3 == Trunc(j, 11)
  IN [y |-> 100 * (n - 49) + i + l3, m |-> j + 2 - 12 * l3, d |-> l2 - Trunc(2447 * j, 80)]

dayOfWeek(jd) == (jd + 1) % 7
daysInMonth(jd) == LET g == jul2greg(jd) IN IF g.m = 2 /\ leapYear(g.y) THEN 29 ELSE monthDays[g.m]
dayOfYear(jd) == jd - greg2jul(jul2greg(jd).y, 1, 1) + 1

hourOf(us) == us \div USecsPerHour
minuteOf(us) == (us \div USecsPerMinute) % MinutesPerHour
secondOf(us) == (us \div USecsPerSecond) % SecondsPerMinute
usecOf(us) == us % USecsPerSecond
timeOf(h, min, s, us) == ((h * MinutesPerHour + min) * SecondsPerMinute + s) * USecsPerSecond + us

--------------------------------------------------------------------------
(* Adding a span of time.  A Time refuses to leave its day. *)
Refused == -1
timeAdd(usecs, span) == IF usecs + span < 0 \/ usecs + span > USecsPerDay THEN Refused ELSE usecs + span

\* Deviation: the day before is taken although the day's own time is enough.
dateTimeAddEarly(dt, span) ==
  LET days == Trunc(span, USecsPerDay)
      overrun == TruncMod(span, USecsPerDay)
      carry == IF -overrun >= dt.usecs THEN -1 ELSE IF overrun + dt.usecs >= USecsPerDay THEN 1 ELSE 0
  IN [julian |-> dt.julian + days + carry, usecs |-> timeAdd(dt.usecs, overrun - carry * USecsPerDay)]

dateTimeAdd(dt, span) ==
  LET days == Trunc(span, USecsPerDay)
      overrun == TruncMod(span, USecsPerDay)
      carry == IF -overrun > dt.usecs THEN -1 ELSE IF overrun + dt.usecs >= USecsPerDay THEN 1 ELSE 0
  IN [julian |-> dt.julian + days + carry, usecs |-> timeAdd(dt.usecs, overrun - carry * USecsPerDay)]

--------------------------------------------------------------------------
(* Writing: a format is a sequence of <<flag, sign>>, where the flag is    *)
(* "text" for a sign that stands for itself.                               *)
appendDn(n, v) == [i \in 1..n |-> 48 + ((v \div Power10[n - i]) % 10)]
appendSigned(n, v) == IF v < 0 THEN <<Minus>> \o appendDn(n, -v) ELSE appendDn(n, v)
Shortest(v) == appendDn(IF v < 10 THEN 1 ELSE 2, v)
MonthName(m) == 1000 + m
Am == 1020
Pm == 1021
\* The digits of a fraction without the zeros behind.
Digits(us) == CHOOSE s \in {SubSeq(appendDn(UDigits, us), 1, n) : n \in 1..UDigits} :
                /\ s[Len(s)] # 48 \/ Len(s) = 1
                /\ \A k \in Len(s) + 1..UDigits : appendDn(UDigits, us)[k] = 48

\* What one element of a format writes.
WrittenBy(dt, item) ==
  LET g == jul2greg(dt.julian)  h == hourOf(dt.usecs)  us == usecOf(dt.usecs)
  IN CASE item[1] = "text" -> <<item[2]>>
       [] item = <<"%", "Y">> -> appendSigned(4, g.y)
       [] item = <<"%", "y">> -> appendSigned(2, TruncMod(g.y, 100))
       [] item = <<"%", "m">> -> appendDn(2, g.m)
       [] item = <<"%", "O">> -> <<MonthName(g.m)>>
       [] item = <<"%", "d">> -> appendDn(2, g.d)
       [] item = <<"%", "H">> -> appendDn(2, h)
       [] item = <<"%", "I">> -> appendDn(2, h % 12)
       [] item = <<"%", "M">> -> appendDn(2, minuteOf(dt.usecs))
       [] item = <<"%", "S">> -> appendDn(2, secondOf(dt.usecs))
       [] item = <<"%", "j">> -> IF us = 0 THEN <<>> ELSE <<Dot>> \o Digits(us)
       [] item = <<"%", "J">> -> <<Dot>> \o Digits(us)
       [] item = <<"%", "u">> -> appendDn(UDigits, us)
       [] item = <<"%", "U">> -> <<Dot>> \o appendDn(UDigits, us)
       [] item \in {<<"%", "p">>, <<"%", "P">>} -> <<IF h < 12 THEN Am ELSE Pm>>
       [] item = <<"1", "d">> -> Shortest(g.d)
       [] item = <<"1", "m">> -> Shortest(g.m)
       [] item = <<"1", "H">> -> Shortest(h)
       [] item = <<"1", "I">> -> Shortest(h % 12)
       [] item = <<"1", "M">> -> Shortest(minuteOf(dt.usecs))
       [] item = <<"1", "S">> -> Shortest(secondOf(dt.usecs))

toString(dt, fmt) ==
  LET upTo[i \in 0..Len(fmt)] == IF i = 0 THEN <<>> ELSE upTo[i - 1] \o WrittenBy(dt, fmt[i]) IN upTo[Len(fmt)]

--------------------------------------------------------------------------
(* Reading: from a place p on, a value and the place behind it. *)
Nothing == [ok |-> FALSE, v |-> 0, p |-> 0]
DigitsFrom(str, p, max) ==
  CHOOSE n \in 0..max : /\ \A k \in 0..n - 1 : p + k <= Len(str) /\ str[p + k] \in Digit
                        /\ n = max \/ p + n > Len(str) \/ str[p + n] \notin Digit
NumberAt(str, p, n) == LET val[k \in 0..n] == IF k = 0 THEN 0 ELSE 10 * val[k - 1] + str[p + k - 1] - 48 IN val[n]
getUnsigned(str, p, max) ==
  LET n == DigitsFrom(str, p, max) IN IF n = 0 THEN Nothing ELSE [ok |-> TRUE, v |-> NumberAt(str, p, n), p |-> p + n]
getUnsignedF(str, p, n) ==
  IF DigitsFrom(str, p, n) # n THEN Nothing ELSE [ok |-> TRUE, v |-> NumberAt(str, p, n), p |-> p + n]
getIntField(str, p, max) ==
  IF p <= Len(str) /\ str[p] \in {Plus, Minus}
  THEN LET r == getUnsigned(str, p + 1, max) IN IF str[p] = Minus THEN [r EXCEPT !.v = -@] ELSE r
  ELSE getUnsigned(str, p, max)
getMicroseconds(str, p) ==
  LET n == DigitsFrom(str, p, UDigits) IN [ok |-> TRUE, v |-> NumberAt(str, p, n) * Power10[UDigits - n], p |-> p + n]
\* The same when the point may or must be in front.
Fraction(str, p, must) ==
  IF p <= Len(str) /\ str[p] = Dot THEN getMicroseconds(str, p + 1)
  ELSE IF must THEN [ok |-> TRUE, v |-> Refused, p |-> p] ELSE getMicroseconds(str, p)

Fresh == [ok |-> TRUE, p |-> 1, year |-> 0, month |-> 1, day |-> 1, hours |-> 0, minutes |-> 0,
          seconds |-> 0, useconds |-> 0, am |-> TRUE]
Took(st, r) == [st EXCEPT !.ok = r.ok, !.p = r.p]
\* Digits that a field takes, two for most.
Field(str, p, flag) == IF flag = "2" THEN getUnsignedF(str, p, 2) ELSE getUnsigned(str, p, 2)

\* What one element of a format makes of the text.
Read(str, st, item) ==
  LET f == Field(str, st.p, item[1])
      y == getIntField(str, st.p, IF item[2] = "y" THEN 2 ELSE 4)
      here == IF st.p <= Len(str) THEN str[st.p] ELSE 0
  IN IF ~st.ok THEN st
     ELSE CASE item[1] = "text" -> [st EXCEPT !.ok = here = item[2], !.p = @ + 1]
            [] item[1] # "text" /\ item[2] = "Y" -> [Took(st, y) EXCEPT !.year = y.v]
            [] item[1] # "text" /\ item[2] = "y" -> [Took(st, y) EXCEPT !.year = y.v + (IF y.v < 50 THEN 2000 ELSE 1900)]
            [] item[1] # "text" /\ item[2] = "m" -> [Took(st, f) EXCEPT !.month = f.v]
            [] item[1] # "text" /\ item[2] = "O" -> [st EXCEPT !.ok = here \in 1001..1012, !.p = @ + 1, !.month = here - 1000]
            [] item[1] # "text" /\ item[2] = "d" -> [Took(st, f) EXCEPT !.day = f.v]
            [] item[1] # "text" /\ item[2] \in {"H", "I"} -> [Took(st, f) EXCEPT !.hours = f.v]
            [] item[1] # "text" /\ item[2] = "M" -> [Took(st, f) EXCEPT !.minutes = f.v]
            [] item[1] # "text" /\ item[2] = "S" -> [Took(st, f) EXCEPT !.seconds = f.v]
            [] item[1] # "text" /\ item[2] \in {"j", "J", "U", "u"} ->
                 LET r == IF item[2] = "u" THEN getMicroseconds(str, st.p) ELSE Fraction(str, st.p, item[2] # "j")
                 IN [Took(st, r) EXCEPT !.useconds = IF r.v = Refused THEN @ ELSE r.v]
            [] item[1] # "text" /\ item[2] = "p" -> [st EXCEPT !.ok = here \in {Am, Pm}, !.p = @ + 1, !.am = here = Am]

Invalid == [julian |-> Refused, usecs |-> Refused]
normalized(am, hours) == IF am /\ hours = 12 THEN 0 ELSE IF ~am /\ hours # 12 THEN hours + 12 ELSE hours
\* What the fields that were read make.
Moment(st, hours, all) ==
  IF /\ st.ok /\ all
     /\ dateIsValid(st.year, st.month, st.day) /\ timeIsValid(hours, st.minutes, st.seconds, st.useconds)
  THEN [julian |-> greg2jul(st.year, st.month, st.day), usecs |-> timeOf(hours, st.minutes, st.seconds, st.useconds)]
  ELSE Invalid
MomentOf(st, length) == Moment(st, normalized(st.am, st.hours), st.p > length)
fromString(str, fmt) ==
  LET upTo[i \in 0..Len(fmt)] == IF i = 0 THEN Fresh ELSE Read(str, upTo[i - 1], fmt[i])
  IN MomentOf(upTo[Len(fmt)], Len(str))

--------------------------------------------------------------------------
(* The rules of the calendar, for comparison *)
MonthLength(y, m) == IF m = 2 /\ (y % 4 = 0 /\ (y % 100 = 0 => y % 400 = 0)) THEN 29 ELSE monthDays[m]
DaysBefore(y, m) == LET sum[k \in 1..m] == IF k = 1 THEN 0 ELSE sum[k - 1] + MonthLength(y, k - 1) IN sum[m]
\* The number of a day, where the first of January of the year 1 is 1721426.
DayNumber(y, m, d) ==
  365 * (y - 1) + ((y - 1) \div 4) - ((y - 1) \div 100) + ((y - 1) \div 400) + DaysBefore(y, m) + d + 1721425

--------------------------------------------------------------------------
CalBegins(dt, ideal) == calDt = dt /\ calIdeal = ideal /\ calThrown = FALSE /\ calSteps = 0
CalInit ==
  \E date \in {x \in CalDates : dateIsValid(x[1], x[2], x[3])}, us \in CalTimes :
       CalBegins([julian |-> greg2jul(date[1], date[2], date[3]), usecs |-> us],
                 [day |-> DayNumber(date[1], date[2], date[3]), usecs |-> us])

\* operator += and -= of DateTime.
CalAdd(span) ==
  /\ calDt' = dateTimeAdd(calDt, span)
  /\ calIdeal' = [day |-> calIdeal.day + ((calIdeal.usecs + span) \div USecsPerDay),
                  usecs |-> (calIdeal.usecs + span) % USecsPerDay]
  /\ calThrown' = (calDt'.usecs = Refused)

\* setDate() with a date that was moved by days.
CalMoveDate(days) ==
  /\ calDt' = [calDt EXCEPT !.julian = @ + days] /\ calIdeal' = [calIdeal EXCEPT !.day = @ + days]
  /\ UNCHANGED calThrown

\* set(): the date is stored before the time is looked at.
CalSet(date, h, min) ==
  LET dateFits == dateIsValid(date[1], date[2], date[3])  timeFits == timeIsValid(h, min, 0, 0)
  IN /\ calDt' = [julian |-> IF dateFits THEN greg2jul(date[1], date[2], date[3]) ELSE calDt.julian,
                  usecs |-> IF dateFits /\ timeFits THEN timeOf(h, min, 0, 0) ELSE calDt.usecs]
     /\ calIdeal' = [day |-> IF dateFits THEN DayNumber(date[1], date[2], date[3]) ELSE calIdeal.day,
                     usecs |-> IF dateFits /\ timeFits THEN timeOf(h, min, 0, 0) ELSE calIdeal.usecs]
     /\ UNCHANGED calThrown

\* The bound: Date::min().  Before it the unsigned number of the day wraps around.
FirstDay == 0

CalNext ==
  /\ calSteps < MaxCalSteps /\ ~calThrown /\ calSteps' = calSteps + 1
  /\ \/ \E span \in CalSpans : CalAdd(span) \/ CalAdd(-span)
     \/ \E days \in {1, -1, 31, -366} : CalMoveDate(days)
     \/ \E date \in CalDates : \E h \in {12, 24}, min \in {0, MinutesPerHour} : CalSet(date, h, min)
  /\ calIdeal'.day >= FirstDay

\* A moment is a day and a time within the day, and the one that arithmetic gives.
CalMoments == ~calThrown /\ calDt.usecs \in 0..USecsPerDay - 1
              /\ calDt.julian = calIdeal.day /\ calDt.usecs = calIdeal.usecs
\* Days have the date, and the place in week, month and year, that the rules say.
CalDatesMatch ==
  LET jd == calDt.julian  g == jul2greg(jd)
  IN /\ g.m \in 1..12 /\ g.d \in 1..MonthLength(g.y, g.m) /\ DayNumber(g.y, g.m, g.d) = jd
     /\ greg2jul(g.y, g.m, g.d) = jd /\ dateIsValid(g.y, g.m, g.d) /\ daysInMonth(jd) = MonthLength(g.y, g.m)
     /\ dayOfYear(jd) = DaysBefore(g.y, g.m) + g.d /\ dayOfWeek(jd) = (DaysBefore(g.y, g.m) + DayNumber(g.y, 1, 1) + g.d) % 7
\* What a format writes is read back, but for the hour from noon when no am or pm is asked
\* for, and for years that have more than four digits.
Unclear(fmt) == \/ hourOf(calDt.usecs) = 12 /\ \A i \in DOMAIN fmt : fmt[i] # <<"%", "p">>
                \/ jul2greg(calDt.julian).y > 9999
CalReadBack ==
  \A pair \in CalFormats : Unclear(pair[2]) \/ fromString(toString(calDt, pair[1]), pair[2]) = calDt
\* Dates and times are what the calendar and the clock say, and are read back as they were written.
CalendarSound == CalMoments /\ CalDatesMatch /\ CalReadBack
=============================================================================
