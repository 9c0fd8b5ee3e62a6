\* A keep-alive event that is processed later than the next thing happens.
SPECIFICATION Spec
CONSTANTS
  Workers = {w1, w2, w3}
  Sockets = {s1, s2, s3}
  Listeners = {l1}
  MinThreads = 1
  MaxThreads = 2
  Ssl = FALSE
  SpawnFails = FALSE
  FirstFit = TRUE
  MaxEvents = 2
  Null = Null
INVARIANTS NoDanglingSocket
CHECK_DEADLOCK FALSE
