\* One other thread, batches of one event, one nested processEvents().
SPECIFICATION Spec
CONSTANTS
  Threads = {t1}
  EventsPerLoop = 1
  MaxEvents = 3
  MaxDepth = 2
INVARIANTS EventsInOrder SleepsSafely DevicesGetTheirTurn
PROPERTIES CommittedIsDelivered ExitEnds
