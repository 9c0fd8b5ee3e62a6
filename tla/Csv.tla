--------------------------------- MODULE Csv ---------------------------------
(***************************************************************************)
(* CsvSerializer (csvserializer.cpp) writes rows of values, CsvParser      *)
(* (csvparser.cpp) reads them character by character into a Deserializer:  *)
(* a node for each row, in it one for each column.                         *)
(***************************************************************************)
EXTENDS Parsing
LOCAL INSTANCE SequencesExt

CONSTANTS
  Tables,         \* tables that are written: titles and rows of values
  CsvChars,       \* characters of a text that was not written by the serializer
  MaxText         \* bounds its length

VARIABLES
  csv,        \* the parser, its deserializer
  table,      \* the table that was written, its options and its text
  done,       \* how many characters were read; ended: finish() was called
  stray       \* history: a quoted value was followed by something else

csvVars == <<csv, table, done, stray>>

LineEnd == {LF, CR}
Quotes == {Quote, Apostrophe}
AnyColumns == -1    \* unknownNoColumns
AutoDelimiter == 0

-----------------------------------------------------------------------------
(* The serializer.                                                         *)

\* csvOut(), with the delimiter d and the default quote.
csvOut(value, d) ==
  IF \A i \in DOMAIN value : value[i] \notin {Quote, d, CR, LF} THEN value
  ELSE <<Quote>> \o FlattenSeq([i \in DOMAIN value |-> IF value[i] = Quote THEN <<Quote, Quote>> ELSE <<value[i]>>]) \o <<Quote>>

Line(values, d, end) ==
  FlattenSeq([i \in DOMAIN values |-> (IF i > 1 THEN <<d>> ELSE <<>>) \o csvOut(values[i], d)]) \o end

\* serialize() of an array of rows that have the same members.
CsvText(t, d, end) ==
  (IF t.titles # <<>> THEN Line(t.titles, d, end) ELSE <<>>)
  \o FlattenSeq([i \in DOMAIN t.rows |-> Line(t.rows[i], d, end)])

-----------------------------------------------------------------------------
(* The parser, state by state.                                             *)

ToRow(p, c) == [p EXCEPT !.state = IF c = CR THEN "cr" ELSE "rowstart"]
TitleAdd(p, c) == [p EXCEPT !.titles[Len(p.titles)] = Append(@, c)]
TitleNext(p) == [p EXCEPT !.titles = Append(@, <<>>), !.state = "title"]
TitlesEnd(p, c) == [ToRow(p, c) EXCEPT !.cols = Len(p.titles)]

DetectDelim(p, c) ==
  CASE c \in Alnum \cup {Underscore, SP} -> TitleAdd(p, c)
    [] c \in LineEnd -> TitlesEnd(p, c)
    [] c \in Quotes -> [p EXCEPT !.quote = c, !.state = "detectDelim_q"]
    [] OTHER -> TitleNext([p EXCEPT !.delim = c])

DetectDelimPost(p, c) ==
  CASE c \in Alnum \cup Quotes \cup {Underscore, SP} -> Threw(p)
    [] c \in LineEnd -> TitlesEnd(p, c)
    [] OTHER -> TitleNext([p EXCEPT !.delim = c])

Title(p, c) ==
  CASE c \in LineEnd -> TitlesEnd(p, c)
    [] c = p.delim -> TitleNext(p)
    [] c \in Quotes \ {p.delim} -> IF Last(p.titles) = <<>> THEN [p EXCEPT !.quote = c, !.state = "qtitle"] ELSE Threw(p)
    [] OTHER -> TitleAdd(p, c)

QTitlePost(p, c) ==
  CASE c \in LineEnd -> TitlesEnd(p, c) [] c = p.delim -> TitleNext(p) [] OTHER -> Threw(p)

titleFor(p, column) == IF column < Len(p.titles) THEN p.titles[column + 1] ELSE <<>>
BeginColumn(p) == beginMember(p, titleFor(p, p.column), "Value")

\* setValue(): an empty value is null.
SetValue(p) == [Set(p, "", p.value) EXCEPT !.value = <<>>]

checkNoColumns(p) ==
  IF p.cols = AnyColumns THEN [p EXCEPT !.cols = p.column + 1]
  ELSE IF p.column + 1 # p.cols THEN Threw(p) ELSE p

\* A row ends, behind its last value.
RowEnds(p, c) == ToRow(leaveMember(checkNoColumns(p)), c)

DataStart(p, c) ==
  LET b == BeginColumn([p EXCEPT !.state = "datastart"])
  IN CASE c \in LineEnd -> RowEnds(leaveMember(b), c)
       [] c \in Quotes -> [b EXCEPT !.quote = c, !.state = "qdata"]
       [] c = p.delim -> [leaveMember(b) EXCEPT !.column = @ + 1]
       [] OTHER -> [b EXCEPT !.value = Append(@, c), !.state = "data"]

RowStart(p, c) ==
  LET s == [p EXCEPT !.column = 0, !.state = "rowstart"]
  IN IF p.skipEmpty /\ c \in LineEnd THEN ToRow(s, c)
     ELSE DataStart(beginMember(s, <<>>, "Object"), c)

\* The next column, behind a delimiter.
NextColumn(p) == [BeginColumn([p EXCEPT !.column = @ + 1]) EXCEPT !.state = "data0"]

Data(p, c) ==
  CASE c \in LineEnd -> RowEnds(leaveMember(SetValue(p)), c)
    [] c = p.delim -> NextColumn(leaveMember(SetValue(p)))
    [] OTHER -> [p EXCEPT !.value = Append(@, c), !.state = "data"]

QDataEndOnce(p, c) ==
  LET v == leaveMember(SetValue(p))
  IN CASE c \in LineEnd -> RowEnds(v, c)
       [] c = p.delim -> NextColumn(v)
       [] OTHER -> [v EXCEPT !.value = <<p.quote, c>>, !.state = "data"]

\* Behind a quote: another one, the end of the value, or something else,
\* which is added to a value that has been set and left.
QDataEnd(p, c) ==
  LET v == leaveMember(SetValue(p))
  IN CASE c = p.quote -> [p EXCEPT !.value = Append(@, c), !.state = "qdata"]
       [] c # p.quote /\ c \in LineEnd -> RowEnds(v, c)
       [] c # p.quote /\ c = p.delim -> NextColumn(v)
       [] OTHER -> [v EXCEPT !.value = <<p.quote, c>>, !.state = "data"]

CsvAdvance(p, c) ==
  CASE p.state = "detectDelim" -> DetectDelim(p, c)
    [] p.state \in {"detectDelim_q", "qtitle"} ->
         IF c = p.quote THEN [p EXCEPT !.state = IF @ = "qtitle" THEN "qtitlep" ELSE "detectDelim_postq"] ELSE TitleAdd(p, c)
    [] p.state = "detectDelim_postq" -> DetectDelimPost(p, c)
    [] p.state = "title" -> Title(p, c)
    [] p.state = "qtitlep" -> QTitlePost(p, c)
    [] p.state = "cr" -> IF c = LF THEN [p EXCEPT !.state = "rowstart"] ELSE RowStart(p, c)
    [] p.state = "rowstart" -> RowStart(p, c)
    [] p.state = "datastart" -> DataStart(p, c)
    [] p.state = "data0" -> IF c \in Quotes THEN [p EXCEPT !.quote = c, !.state = "qdata"] ELSE Data(p, c)
    [] p.state = "data" -> Data(p, c)
    [] p.state = "qdata" -> IF c = p.quote THEN [p EXCEPT !.state = "qdata_end"] ELSE [p EXCEPT !.value = Append(@, c)]
    [] p.state = "qdata_end" -> QDataEnd(p, c)

\* finish(): the text may end without a line end.
CsvFinish(p) ==
  CASE p.state = "datastart" -> leaveMember(p)
    [] p.state \in {"data0", "data", "qdata"} -> leaveMember(leaveMember(SetValue(checkNoColumns(p))))
    [] p.state = "qdata_end" -> leaveMember(leaveMember(SetValue(p)))
    [] OTHER -> p

-----------------------------------------------------------------------------
(* Reading.                                                                *)

\* CsvParser::begin()
CsvBegun(titles, delim, skip) ==
  [state |-> IF ~titles THEN "rowstart" ELSE IF delim = AutoDelimiter THEN "detectDelim" ELSE "title",
   delim |-> delim, skipEmpty |-> skip, quote |-> 0, titles |-> <<<<>>>>, value |-> <<>>, column |-> 0,
   cols |-> AnyColumns, cur |-> Root, err |-> FALSE]

CsvChar(c) ==
  /\ ~csv.err /\ ~done.ended
  /\ csv' = CsvAdvance(csv, c)
  /\ stray' = (stray \/ (csv.state = "qdata_end" /\ c \notin LineEnd \cup {csv.delim, csv.quote}))
  /\ done' = [done EXCEPT !.read = @ + 1]
  /\ UNCHANGED table

CsvWritten == table.text # <<>> /\ done.read < Len(table.text) /\ CsvChar(table.text[done.read + 1])

\* Any text: the table has none.
CsvTyped == table.text = <<>> /\ done.read < MaxText /\ \E c \in CsvChars : CsvChar(c)

CsvEnd ==
  /\ ~csv.err /\ ~done.ended /\ (table.text # <<>> => done.read = Len(table.text))
  /\ csv' = CsvFinish(csv)
  /\ done' = [done EXCEPT !.ended = TRUE]
  /\ UNCHANGED <<table, stray>>

CsvBegins(t, written, titles, delimiter, skip) ==
  /\ table = [titles |-> t.titles, rows |-> t.rows, text |-> written]
  /\ csv = CsvBegun(titles, delimiter, skip)
  /\ done = [read |-> 0, ended |-> FALSE]
  /\ stray = FALSE

Typed == [titles |-> <<>>, rows |-> <<>>]

CsvInit ==
  \E d \in {Comma, Semicolon}, auto \in BOOLEAN, skip \in BOOLEAN :
    \/ \E t \in Tables, end \in {<<LF>>, <<CR, LF>>, <<CR>>} :
         /\ auto => t.titles # <<>>
         /\ CsvBegins(t, CsvText(t, d, end), t.titles # <<>>, IF auto THEN AutoDelimiter ELSE d, skip)
    \/ CsvBegins(Typed, <<>>, auto, d, skip)

CsvNext == CsvWritten \/ CsvTyped \/ CsvEnd

-----------------------------------------------------------------------------
(* Properties.                                                             *)

CsvTypeOK ==
  /\ csv.column \in 0..MaxText /\ csv.titles # <<>>
  /\ csv.state \in {"detectDelim", "detectDelim_q", "detectDelim_postq", "title", "qtitle", "qtitlep", "cr", "rowstart"} =>
       csv.value = <<>>

\* The deserializer is in the document, in a row or in a column, as the
\* parser is, until a quoted value has something behind it.
CsvDepth ==
  ~stray /\ ~csv.err => Len(csv.cur) =
    CASE done.ended -> 1
      [] csv.state \in {"data0", "data", "qdata", "qdata_end"} /\ ~done.ended -> 3
      [] csv.state = "datastart" /\ ~done.ended -> 2
      [] OTHER -> 1

\* The rows of one text have the same number of columns, which is the number
\* of titles if there are any, except for a last row without a line end.
RowsMatch ==
  ~stray /\ ~csv.err /\ ~done.ended =>
    \A i, j \in DOMAIN csv.cur[1].members : Len(csv.cur[1].members[i].members) = Len(csv.cur[1].members[j].members)

\* What the parser takes for something else: a value that starts with an
\* apostrophe and is not quoted, a title with a quote in it, an empty
\* line where they are skipped, a delimiter that is to be found behind other signs.
Misread(t, p) ==
  LET some(values, P(_)) == \E i \in DOMAIN values : P(values[i])
      bare(v) == v # <<>> /\ v[1] = Apostrophe /\ Quote \notin {v[i] : i \in DOMAIN v} /\ p.delim \notin {v[i] : i \in DOMAIN v}
      sign(v) == \E i \in DOMAIN v : v[i] \notin Alnum \cup {Underscore, SP}
  IN \/ \E i \in DOMAIN t.rows : some(t.rows[i], bare) \/ (p.skipEmpty /\ t.rows[i] = <<<<>>>>)
     \/ some(t.titles, sign)

\* A table is read as it was written.
TableReadBack ==
  table.text # <<>> /\ ~Misread(table, csv) =>
    /\ ~csv.err
    /\ done.ended =>
         [i \in DOMAIN csv.cur[1].members |-> [j \in DOMAIN csv.cur[1].members[i].members |->
            <<csv.cur[1].members[i].members[j].name, csv.cur[1].members[i].members[j].value>>]]
         = [i \in DOMAIN table.rows |-> [j \in DOMAIN table.rows[i] |->
              <<IF table.titles = <<>> THEN <<>> ELSE table.titles[j], table.rows[i][j]>>]]

\* Tables are read back as they were written, with members as deep as the
\* parser's state says.
CsvRead == CsvTypeOK /\ CsvDepth /\ RowsMatch /\ TableReadBack
=============================================================================
