--------------------------- MODULE MCOutboxRelay ---------------------------
(* Instances of OutboxRelay: x1, x2 are rows of aggregate "a", y1 of "b".  *)
EXTENDS OutboxRelay, TLC

CONSTANTS x1, x2, y1, p, q

MCAggregate == [x \in Rows |-> IF x = y1 THEN "b" ELSE "a"]

\* One unsharded relay, or one leader key per shard.
OneShard    == [a \in Aggregates |-> 0]
TwoShards   == [a \in Aggregates |-> IF a = "a" THEN 0 ELSE 1]
AllShard0   == [r \in Relays |-> 0]

\* Is this the fleet that elects a leader, or are these relays that run side by
\* side (SingleActive off) with two-record batches?
VARIABLE elected

Free == INSTANCE OutboxRelay WITH SingleActive <- FALSE, BatchSize <- 2,
                                  MaxFaults <- 1

MCInit == Init /\ elected \in BOOLEAN

MCNext == /\ \/ elected /\ Next
             \/ ~elected /\ Free!Next
          /\ UNCHANGED elected

Step(r) == /\ \/ elected /\ RelayStep(r)
              \/ ~elected /\ Free!RelayStep(r)
           /\ UNCHANGED elected

MCSpec == /\ MCInit /\ [][MCNext]_<<vars, elected>>
          /\ \A r \in Relays : WF_<<vars, elected>>(Step(r))
          /\ WF_<<vars, elected>>(BackendExit /\ UNCHANGED elected)

============================================================================
