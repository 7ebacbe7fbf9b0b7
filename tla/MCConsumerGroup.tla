--------------------------- MODULE MCConsumerGroup ---------------------------
(* Instances of ConsumerGroup: a duplicate of a in the first partition, a    *)
(* poison message, an unknown event type, two shards.                        *)
EXTENDS ConsumerGroup, RedeliveryBackoff, TLC

CONSTANTS m1, m2, p1, a, b, c, u

OneLog == p1 :> <<a, b, u, a, c>>

Kinds == [i \in Messages |-> CASE i = b -> "poison"
                               [] i = u -> "unknown"
                               [] OTHER -> "ok"]
TwoShards == [i \in Messages |-> IF i \in {a, b} THEN 0 ELSE 1]

\* Does this group run RunBatch (the extended module) or Run?
VARIABLE batched

Plain == INSTANCE ConsumerGroup WITH Batch <- FALSE

allVars == <<vars, batched>>

MCInit == Init /\ batched \in BOOLEAN

MCNext == /\ \/ batched /\ Next
             \/ ~batched /\ Plain!Next
          /\ UNCHANGED batched

Poll(m) == UNCHANGED batched /\ IF batched THEN PollFetches(m)
                                          ELSE Plain!PollFetches(m)

\* Goroutines run, polls return, back-off ends, partitions get assigned.
MCSpec ==
    /\ MCInit /\ [][MCNext]_allVars
    /\ \A m \in Members : /\ WF_allVars(Poll(m))
                          /\ WF_allVars(AllowRebalance(m) /\ UNCHANGED batched)
                          /\ WF_allVars(Close(m) /\ UNCHANGED batched)
    /\ \A m \in Members, t \in Partitions :
          /\ WF_allVars(Partition(m, t) /\ UNCHANGED batched)
          /\ WF_allVars(Resume(m, t) /\ UNCHANGED batched)
    /\ \A t \in Partitions :
          WF_allVars(UNCHANGED batched /\ \E m \in Members : Assign(t, m))
==============================================================================
