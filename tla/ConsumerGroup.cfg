\* Two members, one partition with a duplicate, a poison and an unknown record.
SPECIFICATION MCSpec
CONSTANTS
    p1 = p1  m1 = m1  m2 = m2
    a = a  b = b  c = c  u = u
    None = None
    Partitions = {p1}
    Messages = {a, b, c, u}
    Shards = {0, 1}
    Members = {m1, m2}
    Log <- OneLog
    Kind <- Kinds
    ShardOf <- TwoShards
    Batch = TRUE
    MaxPoll = 3
    MaxAttempts = 2
    MaxFaults = 2
INVARIANTS NoSkip EffectOnce ShardOrder
PROPERTIES EventuallyHandled
CHECK_DEADLOCK FALSE
