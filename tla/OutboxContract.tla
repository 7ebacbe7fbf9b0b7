--------------------------- MODULE OutboxContract ---------------------------
(***************************************************************************)
(* What the outbox promises its writers, without tables, locks or relays:  *)
(* at-least-once delivery of accepted events and of nothing else, and an   *)
(* event is given up (marked, later deleted) only after it was delivered.  *)
(***************************************************************************)
EXTENDS Sequences, Functions

CONSTANT Rows

VARIABLES accepted,   \* rows of committed transactions
          delivered,  \* the broker's log
          settled     \* rows the outbox will not deliver again by itself

Init == accepted = {} /\ delivered = <<>> /\ settled = {}

Accept(S) == /\ S \cap accepted = {}
             /\ accepted' = accepted \cup S
             /\ UNCHANGED <<delivered, settled>>

\* Duplicates are allowed: an accepted event may be delivered at any time.
Deliver(x) == /\ x \in accepted
              /\ delivered' = Append(delivered, x)
              /\ UNCHANGED <<accepted, settled>>

Settle(S) == /\ S \subseteq Range(delivered)
             /\ settled' = settled \cup S
             /\ UNCHANGED <<accepted, delivered>>

Next == \/ \E S \in SUBSET Rows : Accept(S) \/ Settle(S)
        \/ \E x \in Rows : Deliver(x)

Spec == Init /\ [][Next]_<<accepted, delivered, settled>>
=============================================================================
