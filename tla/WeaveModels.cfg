\* One model per behaviour.
SPECIFICATION Spec
CONSTANTS
  t1 = t1
  g = g
  nil = nil
  Heap1 = {h1, h2}
  Slots1 = 1
  Writes1 = 2
  Heap2 = {h1}
  Slots2 = 2
  Writes2 = 1
  None = None
  Writers = {w1, w2}
  Readers = {r1, r2}
  rwmutexMaxReaders = 1073741824
  Ops = 5
  Workers = {k1, k2, k3, k4}
  markrootJobs = 2
  Iterations = 3
  Users = {w1, w2, w3}
  Tokens = 3
  Requests = {1, 2, 3}
INVARIANTS
  OwnersMatch
  NoLostWakeup
  AllMarked
  TreeConsistent
  RWMutexSound
  NotSpurious
  NoneMissed
CHECK_DEADLOCK FALSE
