\* Two connections, one or two workers, no SSL.
SPECIFICATION Spec
CONSTANTS
  Workers = {w1, w2, w3, w4}
  Sockets = {s1, s2, s3, s4}
  Listeners = {l1}
  MinThreads = 1
  MaxThreads = 2
  Ssl = FALSE
  SpawnFails = FALSE
  FirstFit = FALSE
  MaxEvents = 2
  Null = Null

SYMMETRY Symmetry
INVARIANTS SocketsSound HttpThreadsSound
CHECK_DEADLOCK FALSE
