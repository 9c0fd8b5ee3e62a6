SPECIFICATION Spec
CONSTANTS
  SignalSet = {s1, s2}
  Receivers = {r1}
  MaxConnections = 3
  MaxDepth = 2
  Sources = {src}
  Sinks = {k1, k2}
  EventThreads = {t1, t2}
  MaxCalls = 4
  Listeners = {l1, l2}
  MaxRoutes = 3
  MaxSends = 1
INVARIANTS SignalsSound EveryoneIsCalledOnce SourcesSound RoutesSound
PROPERTIES CallsReturn
CHECK_DEADLOCK FALSE
