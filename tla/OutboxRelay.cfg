\* One shard, two relays that elect a leader, two faults of any kind.
SPECIFICATION MCSpec
CONSTANTS
    x1 = x1     x2 = x2     y1 = y1     p = p     q = q
    Rows = {x1, x2}
    Aggregates = {"a", "b"}
    Aggregate <- MCAggregate
    Shards = {0}
    ShardOf <- OneShard
    Relays = {p, q}
    RelayShard <- AllShard0
    BatchSize = 1
    SingleActive = TRUE
    NoRelay = NoRelay
    MaxFaults = 2
INVARIANTS CausalOrder OneStaleBatch
PROPERTIES ImplementsContract EventuallyPublished
