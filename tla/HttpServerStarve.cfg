\* One connection at a time, a limit of threads that is out of reach.
SPECIFICATION Spec
CONSTANTS
  Workers = {w1, w2, w3, w4}
  Sockets = {s1, s2, s3}
  Listeners = {l1}
  MinThreads = 1
  MaxThreads = 5
  Ssl = FALSE
  SpawnFails = FALSE
  FirstFit = FALSE
  MaxEvents = 2
  Null = Null
SYMMETRY Symmetry
INVARIANTS HttpSocketFindsThread
CHECK_DEADLOCK FALSE
