\* One connection at a time, SSL handshakes that fail, threads that cannot be
\* created, termination at any time.
SPECIFICATION Spec
CONSTANTS
  Workers = {w1, w2, w3}
  Sockets = {s1, s2, s3}
  Listeners = {l1}
  MinThreads = 1
  MaxThreads = 2
  Ssl = TRUE
  SpawnFails = TRUE
  FirstFit = TRUE
  MaxEvents = 1
  Null = Null
INVARIANTS SocketsSound ListenerServed
PROPERTIES TerminatesUnlessCrowded
CHECK_DEADLOCK FALSE
