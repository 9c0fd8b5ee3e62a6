\* Two requests, bodies of up to two chunks, one lost connection, and chunks that are
\* longer than the reader's buffer; JSON and XML documents and calls.
SPECIFICATION Spec
CONSTANTS
  Bodies <- MCBodies
  Extra <- MCExtra
  Trailers <- MCTrailers
  _bufsize = 2
  SizeLimit = 256
  MaxRequests = 2
  MaxBody = 2
  MaxLoss = 1
  XmlTrees <- MCXmlTrees
  XmlStyles <- MCXmlStyles
  XmlNoises <- MCXmlNoises
  XmlHeads <- MCXmlHeads
  XmlSessions <- MCXmlSessions
  Documents <- MCDocuments
  MaxDepth = 5
  Noises <- MCNoises
INVARIANTS JsonRead XmlSound
PROPERTIES ChunksSound RequestsSound RequestEnds
CHECK_DEADLOCK FALSE
