\* The queue with every method at once, where get(timeout) and waitEmpty share _notEmpty with
\* get, and two threads that log while a third configures logging.
SPECIFICATION SharedSpec
CONSTANTS
  Threads = {t1, t2, t3, t4}
  Elements = {a}
  Calls = {"get", "getTimed", "tryGet", "put", "putForced", "remove", "waitEmpty", "waitEmptyTimed", "maxSize"}
  Limits = {1}
  InitLimit = 0
  MaxLen = 2
  Nothing = Nothing
  Garbage = Garbage
  Settable <- MCSettable
  Asked <- MCAsked
  Kilo = 2
  WordSize = 32
  Own <- MCOwn
  Configs <- MCConfigs
  Writers = {g1, g2}
  Configurers = {g3}
  Impls = {i1, i2, i3}
  MaxSpare = 1
  Buffered = 2
  MaxMessages = 3
  MaxTracers = 1
  MaxConfigured = 2
SYMMETRY Symmetry
INVARIANTS Accounted LogSound
CHECK_DEADLOCK FALSE
