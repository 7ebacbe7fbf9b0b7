\* Two POSTs under one key with different bodies, two watchers, one dead letter.
SPECIFICATION MCSpec
CONSTANTS
    o1 = o1  r1 = r1  r2 = r2
    Orders = {o1}
    Requests = {r1, r2}
    Post <- SameKey
    DeclineThreshold = 2
    Watchers = {"w1", "w2"}
    BatchLimit = 1
    MaxAttempts = 2
    MaxDead = 1
INVARIANTS ChargesAccounted TimeoutExactlyOnce 
PROPERTIES EventuallySettled
CHECK_DEADLOCK FALSE
