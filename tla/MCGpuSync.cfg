CONSTANTS
  Threads = {t1, t2, t3}
  Fences = {f1}
  Semaphores = {s1}
  Events = {e1}
  Payload = {1, 2}
  MaxCount = 1

SPECIFICATION Spec

SYMMETRY Symmetry

INVARIANTS
  QuietFenceIsZero
  FlagPublishesValue

PROPERTIES
  TimeoutMeansUnset
  ResetAllClears
