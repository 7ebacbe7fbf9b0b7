\* Three commands and two drainers; four rows through a channel of two.
SPECIFICATION MCSpec
CONSTANTS
    a = a  b = b  c = c  d1 = d1  d2 = d2  NoTx = NoTx
    r1 = r1  r2 = r2  r3 = r3  r4 = r4
    NoOne = NoOne  Absent = Absent  Unnamed = Unnamed
    Cmds = {a, b, c}
    Durable = {a, b}
    Drainers = {d1, d2}
    BatchSize = 2
    MaxClock = 1
    MaxFaults = 1
    MaxWalks = 0
    Edits = FALSE
INVARIANTS ChainComplete VerifyExact  
PROPERTIES NothingWaitsForEver
CHECK_DEADLOCK FALSE
