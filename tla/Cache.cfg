\* Two queries on one instance and a writer on another; four L2 operations.
SPECIFICATION MCSpec
CONSTANTS
  a = a  p = p  c1 = c1  c2 = c2  o1 = o1  o2 = o2  o3 = o3  o4 = o4
  Instances = {a, p}
  Callers = {c1, c2}
  At <- SameInstance
  WriterAt = p
  MaxVersion = 1
  TTL = 1
  DefaultTTL = 2
  LoaderTimeout = 1
  MaxInbox = 2
  Unreliable = TRUE
  Gaps = {}
INVARIANTS  BreakerSound
PROPERTIES CallersServed
