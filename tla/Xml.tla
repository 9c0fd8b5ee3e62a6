--------------------------------- MODULE Xml ---------------------------------
(***************************************************************************)
(* XmlFormatter and XmlWriter (xmlformatter.cpp, xmlwriter.cpp) write a    *)
(* tree, XmlReader (xmlreader.cpp) reads the text character by character   *)
(* and tells nodes, and XmlDeserializer (xmldeserializer.cpp) builds a     *)
(* tree of them.  Comments and CDATA sections may stand in the text.       *)
(***************************************************************************)
EXTENDS Parsing, TLC
LOCAL INSTANCE SequencesExt

CONSTANTS
  XmlTrees,     \* trees that are written
  XmlStyles,    \* how: decl, indent, endl, attrs are switches of the writer; short: an element without
                \* content is one tag (which only other programs write); readAttributes: attributes
                \* become members
  XmlNoises,    \* comments
  XmlHeads      \* instructions and types of documents, which stand in front of the root

VARIABLES
  reader,     \* XmlReaderImpl
  builder,    \* XmlDeserializer
  document,   \* the tree, its style and its text
  progress    \* how much was read, what is put in between, how it ended

xmlVars == <<reader, builder, document, progress>>

Open == 60
Close == 62
Exclam == 33
Amp == 38
HashSign == 35

-----------------------------------------------------------------------------
(* Entities.                                                               *)

\* The entities that are written; the table of those that are read has more.
Entity ==
  (Quote :> <<113, 117, 111, 116>>) @@ (Amp :> <<97, 109, 112>>) @@ (Apostrophe :> <<97, 112, 111, 115>>)
  @@ (Open :> <<108, 116>>) @@ (Close :> <<103, 116>>)

Decimal[n \in Nat] == IF n < 10 THEN <<48 + n>> ELSE Append(Decimal[n \div 10], 48 + (n % 10))
NumberIn(str, base) ==
  LET value[i \in 0..Len(str)] == IF i = 0 THEN 0 ELSE value[i - 1] * base + HexValue(str[i]) IN value[Len(str)]

getEntity(c) ==
  CASE c \in DOMAIN Entity -> <<Amp>> \o Entity[c] \o <<Semicolon>>
    [] c \in 32..127 \ DOMAIN Entity -> <<c>>
    [] OTHER -> <<Amp, HashSign>> \o Decimal[c] \o <<Semicolon>>

\* resolveEntity(): the characters it stands for, none if it throws.
resolveEntity(token) ==
  LET numeric(digits, set, base) == IF Range(digits) \subseteq set THEN {NumberIn(digits, base)} ELSE {}
  IN IF token # <<>> /\ token[1] = HashSign
     THEN IF Len(token) > 2 /\ token[2] = 120 THEN numeric(SubSeq(token, 3, Len(token)), HexDigits, 16)
          ELSE numeric(Tail(token), Digit, 10)
     ELSE {c \in DOMAIN Entity : Entity[c] = token}

-----------------------------------------------------------------------------
(* XmlWriter and XmlFormatter.                                             *)

When(b, str) == IF b THEN str ELSE <<>>
writeCharacters(str) == FlattenSeq([i \in DOMAIN str |-> getEntity(str[i])])
Indent(s, depth) == When(s.indent, [i \in 1..(2 * depth) |-> SP])
Endl(s) == When(s.endl, <<LF>>)

xmlPrefix ==
  <<Open, Question, 120, 109, 108, SP, 118, 101, 114, 115, 105, 111, 110, Equals, Quote, 49, Dot, 48, Quote, SP,
    101, 110, 99, 111, 100, 105, 110, 103, Equals, Quote, 85, 84, 70, Minus, 56, Quote, Question, Close>>

TypeAttr == <<116, 121, 112, 101>>
CategoryAttr == <<99, 97, 116, 101, 103, 111, 114, 121>>
StructCategory == <<115, 116, 114, 117, 99, 116>>
ArrayCategory == <<97, 114, 114, 97, 121>>

AttrOut(s, depth, a) ==
  Endl(s) \o (IF s.indent THEN Indent(s, depth + 1) ELSE <<SP>>)
  \o a[1] \o <<Equals, Quote>> \o writeCharacters(a[2]) \o <<Quote>>

\* The tag without the bracket behind it.
StartTag(s, depth, tag, attrs) ==
  Indent(s, depth) \o <<Open>> \o tag \o FlattenSeq([i \in DOMAIN attrs |-> AttrOut(s, depth, attrs[i])])

EndTag(tag) == <<Open, Slash>> \o tag \o <<Close>>

writeElement(s, depth, tag, attrs, content) ==
  StartTag(s, depth, tag, attrs)
  \o (IF s.short /\ content = <<>> THEN <<Slash, Close>> ELSE <<Close>> \o writeCharacters(content) \o EndTag(tag))
  \o Endl(s)

\* writeStartElement(), what is inside, and writeEndElement()
writeAround(s, depth, tag, attrs, inside) ==
  StartTag(s, depth, tag, attrs)
  \o (IF s.short /\ inside = <<>> THEN <<Slash, Close>>
      ELSE <<Close>> \o Endl(s) \o inside \o Indent(s, depth) \o EndTag(tag))
  \o Endl(s)

TagOf(n) == IF n.name = <<>> THEN n.type ELSE n.name

\* The attributes of addValueString() and beginComplexElement()
AttrsOf(s, n) ==
  When(s.attrs, When(n.name # <<>> /\ n.type # <<>>, << <<TypeAttr, n.type>> >>)
                \o When(n.cat = "Array", << <<CategoryAttr, ArrayCategory>> >>)
                \o When(n.cat = "Object", << <<CategoryAttr, StructCategory>> >>))

RECURSIVE XmlFormat(_, _, _)
XmlFormat(s, depth, n) ==
  IF n.cat = "Value" THEN writeElement(s, depth, TagOf(n), AttrsOf(s, n), n.value)
  ELSE writeAround(s, depth, TagOf(n), AttrsOf(s, n),
                   FlattenSeq([i \in DOMAIN n.members |-> XmlFormat(s, depth + 1, n.members[i])]))

XmlWritten(n, s) == When(s.decl, xmlPrefix \o Endl(s)) \o XmlFormat(s, 0, n)

-----------------------------------------------------------------------------
(* XmlReader.  A rule: characters, what is done, the next state.  A        *)
(* character without a rule is a syntax error.                             *)

White == {SP, HT, LF, CR}
QuoteSigns == {Quote, Apostrophe}
PlainChar == Every \ (White \cup QuoteSigns \cup {Open, Close, Colon, Slash, Equals, Exclam, Question})
NameChar == PlainChar \cup {Colon}

CDataRules ==
  [BeforeCData |-> << <<PlainChar, "cdata", "OnCData">> >>,
   OnCData |-> << <<{Close}, "cdataend", "AfterTag">>, <<Every, "append", "OnCData">> >>]

TextRules ==
  [OnCharacters |-> << <<{Open}, "keep", "OnTag">>, <<{Amp}, "reference", "OnEntityReference">>,
                       <<Every, "append", "OnCharacters">> >>,
   AfterTag |-> << <<{Open}, "keep", "OnTag">>, <<{Amp}, "reference", "OnEntityReference">>,
                   <<White, "space", "OnCharacters">>, <<Every, "append", "AfterTag">> >>,
   OnEntityReference |-> << <<{Semicolon}, "entity", "OnCharacters">>, <<PlainChar, "token", "OnEntityReference">> >>]

EndTagRules ==
  [OnEndElement |-> << <<PlainChar, "endname", "OnEndElementName">> >>,
   OnEndElementName |-> << <<White, "keep", "AfterEndElementName">>, <<NameChar, "endname", "OnEndElementName">>,
                           <<{Close}, "ended", "AfterTag">> >>,
   AfterEndElementName |-> << <<White, "keep", "AfterEndElementName">>, <<{Close}, "ended", "AfterTag">> >>,
   OnEmptyElement |-> << <<White, "keep", "OnEmptyElement">>, <<{Close}, "emptied", "AfterTag">> >>]

ValueRules ==
  [BeforeAttributeValue |-> << <<White, "keep", "BeforeAttributeValue">>, <<QuoteSigns, "keep", "OnAttributeValue">> >>,
   OnAttributeValue |-> << <<QuoteSigns, "addattribute", "BeforeAttribute">>,
                           <<{Amp}, "reference", "OnAttributeEntityReference">>,
                           <<Every, "attrvalue", "OnAttributeValue">> >>,
   OnAttributeEntityReference |-> << <<{Semicolon}, "attrentity", "OnAttributeValue">>,
                                     <<PlainChar, "token", "OnAttributeEntityReference">> >>]

StartTagRules ==
  [OnStartElement |-> << <<White, "keep", "BeforeAttribute">>, <<NameChar, "startname", "OnStartElement">>,
                         <<{Slash}, "started", "OnEmptyElement">>, <<{Close}, "started", "AfterTag">> >>,
   BeforeAttribute |-> << <<White, "keep", "BeforeAttribute">>, <<{Slash}, "startedwithtext", "OnEmptyElement">>,
                          <<{Close}, "started", "AfterTag">>, <<PlainChar, "attribute", "OnAttributeName">> >>,
   OnAttributeName |-> << <<White, "keep", "AfterAttributeName">>, <<{Equals}, "keep", "BeforeAttributeValue">>,
                          <<NameChar, "attrname", "OnAttributeName">> >>,
   AfterAttributeName |-> << <<White, "keep", "AfterAttributeName">>, <<{Equals}, "keep", "BeforeAttributeValue">> >>]

CommentRules ==
  [BeforeComment |-> << <<{Minus}, "keep", "OnComment">> >>,
   OnComment |-> << <<{Minus}, "keep", "AfterComment">>, <<Every, "keep", "OnComment">> >>,
   AfterComment |-> << <<{Minus}, "keep", "OnCommentEnd">>, <<Every, "keep", "OnComment">> >>,
   OnCommentEnd |-> << <<{Close}, "commented", "AfterTag">> >>]

DocTypeRules ==
  [BeforeDocType |-> << <<PlainChar, "doctype", "OnDocType">> >>,
   OnDocType |-> << <<{Close}, "telltype", "OnProlog">>, <<Every \ {Open}, "keep", "OnDocType">> >>]

TagRules ==
  [OnTag |-> << <<{Question}, "instruction", "OnProcessingInstruction">>, <<{Exclam}, "keep", "OnTagExclam">>,
                <<{Slash}, "endtag", "OnEndElement">>, <<NameChar, "starttag", "OnStartElement">> >>,
   OnTagExclam |-> << <<{Minus}, "keep", "BeforeComment">>, <<{91}, "inside", "BeforeCData">>,
                      <<{68}, "outside", "BeforeDocType">> >>,
   OnProlog |-> << <<White, "keep", "OnProlog">>, <<{Open}, "keep", "OnTag">> >>,
   OnEpilog |-> << <<White, "keep", "OnEpilog">>, <<{Open}, "keep", "OnTag">> >>]

InstructionRules ==
  [OnProcessingInstruction |-> << <<White, "keep", "OnProcessingInstructionData">>,
                                  <<PlainChar, "target", "OnProcessingInstruction">> >>,
   OnProcessingInstructionData |-> << <<{Question}, "keep", "OnProcessingInstructionEnd">>,
                                      <<Every \ {Open, Close}, "keep", "OnProcessingInstructionData">> >>,
   OnProcessingInstructionEnd |-> << <<{Close}, "instructed", "AfterTag">> >>]

DeclRules ==
  [OnDocumentBegin |-> << <<White, "keep", "OnProlog">>, <<{Open}, "keep", "OnXmlDecl">> >>,
   OnXmlDecl |-> << <<{Question}, "keep", "OnXmlDeclQMark">>, <<{Exclam}, "keep", "OnTagExclam">>,
                    <<PlainChar, "root", "OnStartElement">> >>,
   OnXmlDeclQMark |-> << <<PlainChar, "firsttarget", "OnXmlDeclName">> >>,
   OnXmlDeclName |-> << <<White, "declared", "OnXmlDeclBeforeAttr">>, <<NameChar, "target", "OnXmlDeclName">> >>,
   OnXmlDeclEnd |-> << <<{Close}, "keep", "OnProlog">> >>]

DeclAttrRules ==
  [OnXmlDeclBeforeAttr |-> << <<White, "keep", "OnXmlDeclBeforeAttr">>, <<{Question}, "keep", "OnXmlDeclEnd">>,
                              <<PlainChar, "attribute", "OnXmlDeclAttr">> >>,
   OnXmlDeclAttr |-> << <<White, "keep", "OnXmlDeclAfterName">>, <<{Equals}, "keep", "OnXmlDeclBeforeValue">>,
                        <<PlainChar, "attrname", "OnXmlDeclAttr">> >>,
   OnXmlDeclAfterName |-> << <<White, "keep", "OnXmlDeclAfterName">>, <<{Equals}, "keep", "OnXmlDeclBeforeValue">> >>,
   OnXmlDeclBeforeValue |-> << <<White, "keep", "OnXmlDeclBeforeValue">>, <<QuoteSigns, "keep", "OnXmlDeclValue">> >>,
   OnXmlDeclValue |-> << <<QuoteSigns, "declvalue", "OnXmlDeclBeforeAttr">>,
                         <<PlainChar, "attrvalue", "OnXmlDeclValue">> >>]

XmlRules ==
  CDataRules @@ TextRules @@ EndTagRules @@ ValueRules @@ StartTagRules @@ CommentRules @@ DocTypeRules @@ TagRules
  @@ InstructionRules @@ DeclRules @@ DeclAttrRules

NewReader ==
  [state |-> "OnDocumentBegin", depth |-> 0, token |-> <<>>, chars |-> <<>>, start |-> <<>>, attrs |-> <<>>,
   end |-> <<>>, attr |-> << <<>>, <<>> >>, target |-> <<>>, version |-> <<>>, encoding |-> <<>>, node |-> "", err |-> FALSE]

\* reset() leaves the buffers as they are.
XmlReset(x) == [x EXCEPT !.state = "OnDocumentBegin", !.depth = 0, !.version = <<>>, !.encoding = <<>>, !.node = "", !.err = FALSE]

CDataToken == <<91, 67, 68, 65, 84, 65, 91>>
DocTypeToken == <<68, 79, 67, 84, 89, 80, 69>>
XmlTarget == <<120, 109, 108>>
VersionAttr == <<118, 101, 114, 115, 105, 111, 110>>
EncodingAttr == <<101, 110, 99, 111, 100, 105, 110, 103>>

\* A word of seven characters, of which c is the next.
Word(x, word, c, then) ==
  LET token == Append(x.token, c)
  IN IF Len(token) < 7 THEN [x EXCEPT !.token = token]
     ELSE IF token = word THEN [x EXCEPT !.token = <<>>, !.state = then] ELSE Threw(x)

\* The text in front of a tag is told, and cleared when the tag is complete.
TextIsTold(x) == IF x.chars # <<>> THEN [x EXCEPT !.node = "Characters"] ELSE x
IsStarted(x) == [x EXCEPT !.node = "StartElement", !.depth = @ + 1]
IsEnded(x) ==
  [x EXCEPT !.node = "EndElement", !.depth = @ - 1, !.state = IF x.depth = 1 THEN "OnEpilog" ELSE "AfterTag"]

CDataEndsEarly(x) ==
  LET n == Len(x.chars)
  IN IF n > 2 /\ x.chars[n] = 93
     THEN [x EXCEPT !.chars = SubSeq(@, 1, n - 1), !.state = "AfterTag"] ELSE [x EXCEPT !.chars = Append(@, Close)]

\* The end of a CDATA section is looked for in all of the text.
CDataEnds(x) ==
  LET n == Len(x.chars)
  IN IF n > 2 /\ x.chars[n] = 93 /\ x.chars[n - 1] = 93
     THEN [x EXCEPT !.chars = SubSeq(@, 1, n - 2), !.state = "AfterTag"] ELSE [x EXCEPT !.chars = Append(@, Close)]

Declared(x, attr) ==
  CASE attr[1] = VersionAttr -> [x EXCEPT !.version = attr[2]]
    [] attr[1] = EncodingAttr -> [x EXCEPT !.encoding = attr[2]]
    [] OTHER -> x

\* What the state of the text does with a character, x being in the next
\* state and from the reader before.
TextDo(x, from, do, c) ==
  CASE do = "append" -> [x EXCEPT !.chars = Append(@, c)]
    [] do = "space" -> IF x.depth = 0 THEN [x EXCEPT !.state = "OnProlog"] ELSE [x EXCEPT !.chars = Append(@, c)]
    [] do = "reference" -> [x EXCEPT !.token = <<>>]
    [] do = "token" -> [x EXCEPT !.token = Append(@, c)]
    [] do = "entity" -> IF resolveEntity(x.token) = {} THEN Threw(x)
                        ELSE [x EXCEPT !.chars = @ \o SetToSeq(resolveEntity(x.token)), !.token = <<>>]
    [] do = "attrentity" -> IF resolveEntity(x.token) = {} THEN Threw(x)
                            ELSE [x EXCEPT !.attr[2] = @ \o SetToSeq(resolveEntity(x.token)), !.token = <<>>]
    [] do = "cdata" -> Word(from, CDataToken, c, "OnCData")
    [] do = "cdataend" -> CDataEnds(from)

TagDo(x, from, do, c) ==
  CASE do = "starttag" -> TextIsTold([x EXCEPT !.start = <<c>>, !.attrs = <<>>])
    [] do = "root" -> [x EXCEPT !.start = <<c>>, !.attrs = <<>>]
    [] do = "startname" -> [x EXCEPT !.start = Append(@, c)]
    [] do = "started" -> IsStarted([x EXCEPT !.chars = <<>>])
    [] do = "startedwithtext" -> IsStarted(x)
    [] do = "endtag" -> TextIsTold([x EXCEPT !.end = <<>>])
    [] do = "endname" -> [x EXCEPT !.end = Append(@, c)]
    [] do = "ended" -> IsEnded([x EXCEPT !.chars = <<>>])
    [] do = "emptied" -> IsEnded([x EXCEPT !.end = x.start])
    [] do = "attribute" -> [x EXCEPT !.attr = << <<c>>, <<>> >>]
    [] do = "attrname" -> [x EXCEPT !.attr[1] = Append(@, c)]
    [] do = "attrvalue" -> [x EXCEPT !.attr[2] = Append(@, c)]
    [] do = "addattribute" -> [x EXCEPT !.attrs = Append(@, x.attr)]

OutsideDo(x, from, do, c) ==
  CASE do = "keep" -> x
    [] do = "inside" -> IF x.depth > 0 THEN [x EXCEPT !.token = <<c>>] ELSE Threw(x)
    [] do = "outside" -> IF x.depth = 0 THEN [x EXCEPT !.token = <<c>>] ELSE Threw(x)
    [] do = "doctype" -> Word(from, DocTypeToken, c, "OnDocType")
    [] do = "telltype" -> [x EXCEPT !.node = "DocType"]
    [] do = "commented" -> IF x.depth = 0 THEN [x EXCEPT !.state = "OnProlog"] ELSE x
    [] do = "instruction" -> [x EXCEPT !.target = <<>>]
    [] do = "firsttarget" -> [x EXCEPT !.target = <<c>>]
    [] do = "target" -> [x EXCEPT !.target = Append(@, c)]
    [] do = "instructed" -> [x EXCEPT !.node = "ProcessingInstruction"]
    [] do = "declared" -> IF x.target = XmlTarget THEN x ELSE [x EXCEPT !.state = "OnProcessingInstructionData"]
    [] do = "declvalue" -> Declared(x, x.attr)

TextDoes == {"append", "space", "reference", "token", "entity", "attrentity", "cdata", "cdataend"}
OutsideDoes ==
  {"keep", "inside", "outside", "doctype", "telltype", "commented", "instruction", "firsttarget", "target", "instructed",
   "declared", "declvalue"}

XmlDo(x, rule, c) ==
  LET there == [x EXCEPT !.state = rule[3]]
  IN CASE rule[2] \in TextDoes -> TextDo(there, x, rule[2], c)
       [] rule[2] \in OutsideDoes -> OutsideDo(there, x, rule[2], c)
       [] OTHER -> TagDo(there, x, rule[2], c)

\* onChar()
OnChar(x, c) ==
  IF Matching(XmlRules[x.state], c) = {} THEN Threw(x) ELSE XmlDo(x, FirstRule(XmlRules[x.state], c), c)

OnEof(x) ==
  IF x.state \in {"OnProlog", "OnEpilog"} \/ (x.state = "AfterTag" /\ x.depth = 0)
  THEN [x EXCEPT !.node = "EndDocument"] ELSE Threw(x)

-----------------------------------------------------------------------------
(* XmlDeserializer.  b is the deserializer, x the reader with the node.    *)

NewBuilder(readAttributes) ==
  [process |-> "nextElement", name |-> <<>>, type |-> <<>>, category |-> <<>>, attrs |-> <<>>, cur |-> Root,
   startDepth |-> 0, readAttributes |-> readAttributes, err |-> FALSE]

AttributeType == <<97, 116, 116, 114, 105, 98, 117, 116, 101>>
attribute(attrs, name) ==
  LET found == {i \in DOMAIN attrs : attrs[i][1] = name}
  IN IF found = {} THEN <<>> ELSE attrs[CHOOSE i \in found : \A j \in found : i <= j][2]

\* Only the names that XmlFormatter writes.
nodeCategory(b) ==
  CASE b.category = ArrayCategory -> "Array"
    [] b.category = StructCategory -> "Object"
    [] OTHER -> "Void"

Then(b, process) == [b EXCEPT !.process = process]
setValue(b, value) == [b EXCEPT !.cur[Len(b.cur)].cat = "Value", !.cur[Len(b.cur)].value = value]
setTypeName(b, type) == [b EXCEPT !.cur[Len(b.cur)].type = type]

RECURSIVE processAttributes(_, _)
processAttributes(b, attrs) ==
  IF attrs = <<>> THEN b
  ELSE processAttributes(leaveMember(setTypeName(setValue(beginMember(b, attrs[1][1], "Void"), attrs[1][2]), AttributeType)),
                         Tail(attrs))

\* The element of which nothing but the start is known yet.
Element(b, x) ==
  [b EXCEPT !.name = x.start, !.type = attribute(x.attrs, TypeAttr), !.category = attribute(x.attrs, CategoryAttr),
            !.attrs = IF b.readAttributes THEN x.attrs ELSE @]

\* beginMember() for it.
MemberBegins(b) ==
  [processAttributes(setTypeName(beginMember(b, b.name, nodeCategory(b)), IF b.type = <<>> THEN b.name ELSE b.type), b.attrs)
   EXCEPT !.attrs = <<>>]

IsBlank(str) == Range(str) \subseteq White

beginDocument(b, x) ==
  LET e == Element([b EXCEPT !.startDepth = x.depth], x)
      root == [e EXCEPT !.cur[1].name = e.name, !.cur[1].type = e.type, !.cur[1].cat = nodeCategory(e), !.attrs = <<>>]
  IN Then(processAttributes(root, e.attrs), "onRootElement")

onRootElement(b, x) ==
  CASE x.node = "Characters" -> IF IsBlank(x.chars) THEN Then(b, "onWhitespace") ELSE Then(setValue(b, x.chars), "onContent")
    [] x.node = "StartElement" -> Then(Element(b, x), "onStartElement")
    [] x.node = "EndElement" -> IF b.name = x.end THEN b ELSE Threw(b)
    [] OTHER -> Threw(b)

onStartElement(b, x) ==
  CASE x.node = "Characters" -> IF IsBlank(x.chars) THEN Then(MemberBegins(b), "onWhitespace")
                                ELSE Then(leaveMember(setValue(MemberBegins(b), x.chars)), "onContent")
    [] x.node = "StartElement" -> Element(MemberBegins(b), x)
    [] x.node = "EndElement" -> IF b.name = x.end THEN Then(leaveMember(MemberBegins(b)), "onEndElement") ELSE Threw(b)
    [] OTHER -> Threw(b)

Left(b, x) == IF x.depth >= b.startDepth THEN leaveMember([b EXCEPT !.name = x.end]) ELSE [b EXCEPT !.name = x.end]

onWhitespace(b, x) ==
  CASE x.node = "StartElement" -> Then(Element(b, x), "onStartElement")
    [] x.node = "EndElement" -> Then(Left(b, x), "onEndElement")
    [] OTHER -> Threw(b)

onContent(b, x) == IF x.node = "EndElement" THEN Then(b, "onEndElement") ELSE Threw(b)

onEndElement(b, x) ==
  CASE x.node = "Characters" -> Then(b, "onWhitespace")
    [] x.node = "StartElement" -> Then(Element(processAttributes(b, b.attrs), x), "onStartElement")
    [] x.node = "EndElement" -> Left(b, x)
    [] x.node = "EndDocument" -> b
    [] OTHER -> Threw(b)

\* parse(): nextElement() first, which throws at the end of the document.
Process(b, x) ==
  CASE b.process = "nextElement" -> (CASE x.node = "StartElement" -> beginDocument(b, x)
                                       [] x.node = "EndDocument" -> Threw(b)
                                       [] OTHER -> b)
    [] b.process = "onRootElement" -> onRootElement(b, x)
    [] b.process = "onStartElement" -> onStartElement(b, x)
    [] b.process = "onWhitespace" -> onWhitespace(b, x)
    [] b.process = "onContent" -> onContent(b, x)
    [] b.process = "onEndElement" -> onEndElement(b, x)

Outcome(x, b) ==
  IF x.err \/ b.err THEN "thrown"
  ELSE IF x.node = "EndDocument" \/ (x.node = "EndElement" /\ x.depth < b.startDepth) THEN "done" ELSE "reading"

Told(x, b) ==
  /\ reader' = x /\ builder' = b
  /\ progress' = [progress EXCEPT !.state = Outcome(x, b)]

\* next(), for one character or the end of the text
XmlNode(x) == Told(x, IF x.node = "" \/ x.err THEN builder ELSE Process(builder, x))
XmlFeed(c) == XmlNode(OnChar([reader EXCEPT !.node = ""], c))

-----------------------------------------------------------------------------
(* Reading a text.                                                         *)

Rest == document.text[document.at + 1]
Reading == progress.state = "reading" /\ document.at < Len(document.text)

XmlReadChar ==
  /\ Reading /\ document.noise = <<>>
  /\ XmlFeed(Rest)
  /\ document' = [document EXCEPT !.at = @ + 1]

XmlReadNoise ==
  /\ progress.state = "reading" /\ document.noise # <<>>
  /\ XmlFeed(Head(document.noise))
  /\ document' = [document EXCEPT !.noise = Tail(@)]

PutBetween(str, n) ==
  /\ Reading /\ document.noise = <<>> /\ ~document.again
  /\ document' = [document EXCEPT !.noise = str, !.at = @ + n]
  /\ UNCHANGED <<reader, builder, progress>>

InText == reader.state \in {"AfterTag", "OnCharacters"}
InFront ==
  \/ reader.state \in {"OnProlog", "AfterTag"} /\ reader.depth = 0
  \/ reader.state = "OnDocumentBegin" /\ ~document.style.decl

PutComment(n) == (InText \/ InFront) /\ PutBetween(n, 0)
PutHead(n) == InFront /\ PutBetween(n, 0)

\* A blank where a tag may have one.
PutBlank ==
  /\ \/ reader.state \in {"BeforeAttribute", "BeforeAttributeValue", "OnEmptyElement", "AfterEndElementName",
                           "AfterAttributeName", "OnXmlDeclBeforeAttr", "OnXmlDeclBeforeValue", "OnXmlDeclAfterName"}
     \/ reader.state = "OnEndElementName" /\ Rest = Close
     \/ reader.state = "OnStartElement" /\ Rest \in {Close, Slash}
     \/ reader.state \in {"OnAttributeName", "OnXmlDeclAttr"} /\ Rest = Equals
  /\ PutBetween(<<SP>>, 0)

\* A character of a text in a CDATA section of its own, or as its number.
PutCData ==
  /\ InText /\ reader.depth > 0 /\ Rest \notin {Open, Amp}
  /\ PutBetween(<<Open, Exclam>> \o CDataToken \o <<Rest, 93, 93, Close>>, 1)

PutReference ==
  /\ (InText /\ reader.depth > 0) \/ reader.state = "OnAttributeValue"
  /\ Rest \notin {Open, Amp, Quote}
  /\ PutBetween(<<Amp, HashSign, 120, HexChar(Rest \div 16), HexChar(Rest % 16), Semicolon>>, 1)

\* The text ends too early.
CutOff ==
  /\ Reading /\ document.noise = <<>> /\ ~document.again /\ document.at > 0
  /\ XmlNode(OnEof([reader EXCEPT !.node = ""]))
  /\ document' = [document EXCEPT !.cut = TRUE]

Texted(tree, style, again) ==
  [tree |-> tree, style |-> style, text |-> XmlWritten(tree, style), at |-> 0, noise |-> <<>>, cut |-> FALSE, again |-> again]

SmallStyle == [decl |-> FALSE, indent |-> FALSE, endl |-> TRUE, attrs |-> FALSE, short |-> FALSE, readAttributes |-> FALSE]
SmallTree == [Node(<<97>>, "Object", <<>>, <<>>) EXCEPT !.members = <<Node(<<98>>, "Value", <<>>, <<99>>)>>]

\* reset(), and another text
ReadAgain ==
  /\ progress.state = "thrown" /\ ~document.again /\ ~document.style.decl
  /\ reader' = XmlReset(reader)
  /\ builder' = NewBuilder(FALSE)
  /\ document' = Texted(SmallTree, SmallStyle, TRUE)
  /\ progress' = [state |-> "reading"]

XmlBegins(tree, style) ==
  /\ reader = NewReader
  /\ builder = NewBuilder(style.readAttributes)
  /\ document = Texted(tree, style, FALSE)
  /\ progress = [state |-> "reading"]

XmlInit == \E tree \in XmlTrees, style \in XmlStyles : XmlBegins(tree, style)

XmlNext ==
  \/ XmlReadChar \/ XmlReadNoise \/ CutOff \/ ReadAgain \/ PutBlank \/ PutCData \/ PutReference
  \/ \E n \in XmlNoises : PutComment(n)
  \/ \E n \in XmlHeads : PutHead(n)

-----------------------------------------------------------------------------
(* Properties.                                                             *)

XmlTypeOK ==
  /\ reader.state \in DOMAIN XmlRules /\ reader.depth \in 0..10
  /\ builder.process \in {"nextElement", "onRootElement", "onStartElement", "onWhitespace", "onContent", "onEndElement"}
  /\ progress.state \in {"reading", "done", "thrown"}

\* The type that is read: of a member without one it is the name.
XmlTypeRead(sent, s, root) ==
  LET written == s.attrs /\ sent.name # <<>> /\ sent.type # <<>>
  IN IF written THEN sent.type ELSE IF root THEN <<>> ELSE TagOf(sent)

RECURSIVE SameXml(_, _, _, _)
SameXml(sent, read, s, root) ==
  LET attrs == IF s.readAttributes THEN AttrsOf(s, sent) ELSE <<>>
      k == Len(attrs)
  IN /\ read.name = TagOf(sent) /\ read.type = XmlTypeRead(sent, s, root)
     /\ Len(read.members) = k + Len(sent.members)
     /\ \A i \in 1..k : read.members[i].name = attrs[i][1] /\ read.members[i].value = attrs[i][2]
     /\ \A i \in DOMAIN sent.members : SameXml(sent.members[i], read.members[k + i], s, FALSE)
     /\ sent.cat = "Value" => read.value = (IF IsBlank(sent.value) THEN <<>> ELSE sent.value)
     /\ sent.cat # "Value" /\ s.attrs => read.cat = sent.cat

\* A tree is read as it was written, whatever comments, sections and
\* references stand in the text, also by a reader that gave up another text
\* before; only values of nothing but white space are lost.  A text that ends
\* too early is noticed.
XmlReadsBack ==
  /\ progress.state = "thrown" => document.cut
  /\ progress.state = "done" => ~document.cut /\ Len(builder.cur) = 1
                                /\ SameXml(document.tree, builder.cur[1], document.style, TRUE)

\* The members that are open in the deserializer are the elements that are
\* open in the reader: each element that has begun is a member, unless it is
\* not known yet whether it has one.
MembersMatchDepth ==
  progress.state = "reading" /\ builder.startDepth > 0 /\ reader.node = "" =>
    Len(builder.cur) = reader.depth - (IF builder.process \in {"onStartElement", "onContent"} THEN 1 ELSE 0)
                       + (IF builder.process = "onContent" /\ reader.depth = 1 THEN 1 ELSE 0)

\* The declaration is read as it was written.
DeclarationRead ==
  progress.state = "done" /\ document.style.decl => reader.version = <<49, Dot, 48>> /\ reader.encoding = <<85, 84, 70, Minus, 56>>

\* XML is read back as it was written, with one member for each element.
XmlRead == XmlTypeOK /\ XmlReadsBack /\ MembersMatchDepth /\ DeclarationRead
==============================================================================
