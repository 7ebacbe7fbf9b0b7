\* Two clients compete for one permit; two events.
SPECIFICATION MCSpec
CONSTANTS
    c1 = c1  c2 = c2
    Clients = {c1, c2}
    MaxStreams = 1
    Outcomes = {"paid", "payment_timeout"}
    MaxEvents = 2
    MaxFaults = 2
INVARIANTS NoWindow
PROPERTIES StreamTruthful StreamSettles
CHECK_DEADLOCK FALSE
