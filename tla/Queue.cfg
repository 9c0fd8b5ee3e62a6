\* The methods the servers rely on, with limits that come and go, and the
\* blocking fifo channel they implement.
SPECIFICATION ChannelSpec
CONSTANTS
  Threads = {t1, t2, t3}
  Elements = {a, b}
  Calls = {"get", "tryGet", "put", "maxSize"}
  Limits = {1, 2}
  InitLimit = 1
  MaxLen = 2
  Nothing = Nothing
  Garbage = Garbage
INVARIANTS NoLostGet NoLostPut
PROPERTIES ImplementsFifo
CHECK_DEADLOCK FALSE
