SPECIFICATION Spec
CONSTANTS
  PbMax = 1
  BufSize = 2
  Room = 2
  MaxIn = 3
  MaxOut = 3
  Addresses = 2
  MaxPut = 4
  Window = 2
  MaxRpc = 3
  Keys = {1, 2, 3, 4, 5}
  MaxElements = 4
  Sizes = {0, 2, 4}
  SerialMax = 4
  Objects = {o1, o2, o3}
INVARIANTS StreamsSound SocketSound CallsSound BuffersInOrder
PROPERTIES BothEnd CachesSound
CHECK_DEADLOCK FALSE
