----------------------------- MODULE MCHttpClient -----------------------------
(***************************************************************************)
(* The HTTP client, the reader of chunked bodies, and what such a client   *)
(* carries: JSON, XML and XML RPC calls.  They share no state; part says   *)
(* which of them a behaviour is about, and the others stay as they are.    *)
(***************************************************************************)
EXTENDS ChunkedReader, HttpClient, Json, Xml, XmlRpc

VARIABLE part

vars == <<part, chunkVars, hcVars, jsonVars, xmlVars, xmlRpcVars>>

\* ChunkedReader: no, one and two chunks, shorter and longer than the buffer,
\* and data that looks like the end of a line and like the last chunk.
MCBodies == {<<>>, << <<97>> >>, << <<97, 98, 99>> >>, << <<97>>, <<CR, LF>> >>, << <<48>>, <<97>> >>}
MCExtra == {<<>>, <<Semicolon, 97>>}
MCTrailers == {<<>>, <<65, Colon, 66, CR, LF>>}

\* Json: every kind of value, strings with every kind of escape, and trees.
Value(name, type, value) == Node(name, "Value", type, value)
Tree(category, members) == [Node(<<>>, category, "", <<>>) EXCEPT !.members = members]
Named(node, name) == [node EXCEPT !.name = name]
Zero == Value(<<>>, "int", <<48>>)
Leaves ==
  {Value(<<>>, "int", <<Minus, 55>>), Value(<<>>, "double", <<49, Dot, 53>>), Value(<<>>, "bool", True),
   Value(<<>>, "null", Null), Value(<<>>, "string", <<>>)}
  \cup {Value(<<>>, "string", <<a, b>>) : a \in {Quote, Backslash, Slash}, b \in {97, LF, 1, 233, 8364, 128512}}
Parts ==
  {Zero, Value(<<>>, "bool", False), Value(<<>>, "null", Null), Value(<<>>, "string", <<Slash, Quote>>),
   Tree("Array", <<>>), Tree("Object", <<>>)}
Nested ==
  {Tree("Array", <<Zero, Tree("Object", <<>>)>>),
   Tree("Object", <<Named(Tree("Array", <<>>), <<97>>), Value(<<98>>, "string", <<Backslash>>)>>)}
MCDocuments ==
  Leaves \cup {Tree("Array", <<a>>) : a \in Leaves} \cup {Tree("Array", <<a, b>>) : a, b \in Parts}
  \cup {Tree("Object", <<Named(a, <<97>>), Named(b, <<98>>)>>) : a, b \in Parts}
  \cup {Tree("Object", <<Named(a, n), Named(Zero, <<98>>)>>) : a \in Parts, n \in {<<97, Underscore>>, <<97, 49>>, <<Quote>>, <<233>>}}
  \cup {Tree("Array", <<t, Zero>>) : t \in Nested}
  \cup {Tree("Object", <<Named(t, <<120>>), Named(Zero, <<121>>)>>) : t \in Nested}
MCNoises == {<<SP>>, <<Slash, Star, Quote, Star, Star, Slash>>, <<Slash, Slash, 93, LF>>}

\* Xml: values with each character that is written otherwise, lists and
\* structures, also empty ones, with and without names of types; comments,
\* instructions and types of documents.
XTree(name, type, category, members) == [Node(name, category, type, <<>>) EXCEPT !.members = members]
IntType == <<105>>
StringType == <<115>>
MCXmlTrees ==
  {Value(<<97>>, StringType, v) : v \in {<<>>, <<SP>>, <<97, Amp>>, <<LF, 233>>}}
  \cup {XTree(<<97>>, <<>>, cat, <<>>) : cat \in {"Array", "Object"}}
  \cup {XTree(<<97>>, IntType, "Array", <<Value(<<>>, StringType, v), Value(<<>>, IntType, <<49>>)>>) :
          v \in {<<>>, <<SP>>, <<93>>, <<SP, 97>>}}
  \cup {XTree(<<97, Colon, 98>>, <<Quote>>, "Object",
              <<Value(<<98>>, StringType, <<Open>>), XTree(<<99>>, <<>>, cat, <<>>),
                XTree(<<100>>, <<>>, cat, <<XTree(<<99>>, StringType, cat, <<>>)>>), Value(<<100>>, <<>>, <<97>>)>>) :
          cat \in {"Array", "Object"}}
Style(d, i, e, a, s, r) == [decl |-> d, indent |-> i, endl |-> e, attrs |-> a, short |-> s, readAttributes |-> r]
MCXmlStyles ==
  {Style(TRUE, TRUE, TRUE, TRUE, FALSE, TRUE), Style(FALSE, FALSE, FALSE, TRUE, FALSE, FALSE),
   Style(FALSE, FALSE, FALSE, FALSE, TRUE, FALSE), Style(FALSE, TRUE, TRUE, TRUE, TRUE, TRUE),
   Style(FALSE, TRUE, TRUE, FALSE, FALSE, FALSE), Style(FALSE, FALSE, TRUE, FALSE, TRUE, FALSE),
   Style(FALSE, TRUE, FALSE, TRUE, TRUE, TRUE)}
MCXmlNoises == {<<Open, Exclam, Minus, Minus, Open, Minus, 97, Minus, Minus, Close>>}
MCXmlHeads ==
  {<<Open, Question, 112, SP, Colon, Question, Close>>, <<Open, Exclam>> \o DocTypeToken \o <<SP, 97, Close>>}

\* XmlRpc: values, lists and structures as argument and as result, and calls
\* that fail in each way, with a call after them.
XrOne == Value(<<>>, "int", <<49>>)
XrTrees ==
  {Value(<<>>, t, v) : t \in {"string", "int", "bool"}, v \in {<<>>, <<SP>>, <<49>>}}
  \cup {Tree(cat, <<>>) : cat \in {"Array", "Object"}}
  \cup {Tree("Array", <<a, b>>) : a, b \in {Value(<<>>, "string", <<>>), XrOne, Tree("Array", <<>>),
                                             Tree("Object", <<Value(<<97>>, "int", <<50>>)>>)}}
  \cup {Tree("Object", <<Named(a, <<97>>), Named(b, <<98>>)>>) :
          a \in {Value(<<>>, "string", <<>>), Tree("Array", <<XrOne>>), Tree("Object", <<>>)},
          b \in {Value(<<>>, "string", <<SP, 98>>), Tree("Object", <<Value(<<97>>, "int", <<50>>)>>)}}
XrCallOf(async, args, result) ==
  [NobodysCall EXCEPT !.async = async, !.method = <<77>>, !.args = args, !.wants = Len(args), !.result = result]
XrFailing ==
  {[XrCallOf(y, a, XrOne) EXCEPT !.spaced = s, !.known = k, !.wants = w, !.misfit = m, !.raises = r, !.rc = <<55>>] :
     y, s, k \in BOOLEAN, a \in {<<>>, <<XrOne>>, <<XrOne, XrOne>>}, w \in 0..2, m \in 0..1, r \in {"nothing", "fault", "error"}}
  \cup {[XrCallOf(y, <<>>, XrOne) EXCEPT !.method = n, !.spaced = s, !.fits = f, !.header = h, !.hollow = o] :
          y, s, f, h, o \in BOOLEAN, n \in {<<>>, <<77>>}}
XrLast == XrCallOf(TRUE, <<>>, Value(<<>>, "string", <<98>>))
MCXmlSessions ==
  {<<c, XrLast>> : c \in XrFailing}
  \cup {<<[XrCallOf(TRUE, <<t>>, t) EXCEPT !.spaced = s]>> : t \in XrTrees, s \in BOOLEAN}

Init ==
  /\ part \in {"chunked", "client", "json", "xml", "xmlrpc"}
  /\ IF part = "chunked" THEN ChunkInit ELSE ChunkBegins(<<>>, <<>>, <<>>)
  /\ HcInit /\ (part # "client" => ~hc.ssl)
  /\ IF part = "json" THEN JsonInit ELSE JsonBegins(Zero, FALSE, FALSE)
  /\ IF part = "xml" THEN XmlInit ELSE XmlBegins(Value(<<97>>, <<>>, <<>>), Style(FALSE, FALSE, FALSE, FALSE, FALSE, FALSE))
  /\ IF part = "xmlrpc" THEN XrInit ELSE XrBegins(<<>>)

Next ==
  /\ UNCHANGED part
  /\ \/ part = "chunked" /\ ChunkNext /\ UNCHANGED <<hcVars, jsonVars, xmlVars, xmlRpcVars>>
     \/ part = "client" /\ HcNext /\ UNCHANGED <<chunkVars, jsonVars, xmlVars, xmlRpcVars>>
     \/ part = "json" /\ JsonNext /\ UNCHANGED <<chunkVars, hcVars, xmlVars, xmlRpcVars>>
     \/ part = "xml" /\ XmlNext /\ UNCHANGED <<chunkVars, hcVars, jsonVars, xmlRpcVars>>
     \/ part = "xmlrpc" /\ XrNext /\ UNCHANGED <<chunkVars, hcVars, jsonVars, xmlVars>>

\* XML and the calls that are written in it
XmlSound == (part = "xml" => XmlRead) /\ (part = "xmlrpc" => XmlCallsSound)

Spec == Init /\ [][Next]_vars /\ ChunkFairness /\ HcFairness
=============================================================================
