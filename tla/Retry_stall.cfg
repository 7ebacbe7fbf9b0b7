\* Two instances and one tier partition of two records; two tiers.
SPECIFICATION MCSpec
CONSTANTS
    m1 = m1  m2 = m2  t0 = t0
    a1 = a1  a2 = a2  a3 = a3  b1 = b1
    None = None
    Partitions = {t0}
    Members = {m1, m2}
    Length <- TierLength
    MaxFetch = 2
    MaxFaults = 1
    MaxRevokes = 1
PROPERTY NeverStalls
CHECK_DEADLOCK FALSE
