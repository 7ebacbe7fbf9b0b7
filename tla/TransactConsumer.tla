---------------------------- MODULE TransactConsumer ----------------------------
(* kafka.TransactConsumer: consume, transform, produce, with the outputs and    *)
(* the input offsets in one Kafka transaction. One partition that moves between *)
(* members; kgo.GroupTransactSession and the brokers are as Run uses them: a    *)
(* transaction whose member lost the partition is aborted, and the next owner   *)
(* reads from stable offsets.                                                  *)
EXTENDS Integers, Sequences

CONSTANTS
  Members,
  Inputs,     \* records in the partition
  MaxBatch,
  MaxMisses   \* failures of fn, of a produce, of End, crashes and rebalances

ASSUME TransactAssumption == Inputs \in Nat /\ MaxBatch \in Nat /\ MaxMisses \in Nat

VARIABLES
  loop,       \* member -> its loop: [pc, at, upto, sent, bad]
  owner,      \* who has the partition
  stale,      \* members whose transaction spans a rebalance
  offset,     \* committed
  out,        \* outputs a read-committed consumer sees
  misses

loopVars == <<loop, owner, stale, offset, out, misses>>

\* at: the input last processed; upto: the last one fetched; sent: outputs in
\* the transaction; bad: what failed, fn (not ok) or a produce (fep.Err).
Ready == [pc |-> "poll", at |-> 0, upto |-> 0, sent |-> <<>>, bad |-> {}]
Stopped == [pc |-> "stopped", at |-> 0, upto |-> 0, sent |-> <<>>, bad |-> {}]

Loop == [pc : {"poll", "open", "stopped"}, at : 0..Inputs, upto : 0..Inputs,
         sent : Seq(Nat), bad : SUBSET {"fn", "produce"}]

LoopType ==
  /\ loop \in [Members -> Loop]
  /\ out \in Seq(Nat)
  /\ owner \in Members /\ stale \subseteq Members
  /\ offset \in 0..Inputs /\ misses \in 0..MaxMisses

LoopInit ==
  /\ loop = [m \in Members |-> Ready]
  /\ owner \in Members /\ stale = {}
  /\ offset = 0 /\ out = <<>> /\ misses = 0

Miss == misses < MaxMisses /\ misses' = misses + 1

--------------------------------------------------------------------------------
\* PollFetches and Begin.
Poll(m) ==
  /\ loop[m].pc = "poll" /\ owner = m
  /\ \E n \in 1..MaxBatch :
       /\ offset + n <= Inputs
       /\ loop' = [loop EXCEPT ![m] = [pc |-> "open", at |-> offset, upto |-> offset + n,
                                       sent |-> <<>>, bad |-> {}]]
  /\ UNCHANGED <<owner, stale, offset, out, misses>>

Working(m) == loop[m].pc = "open" /\ "fn" \notin loop[m].bad /\ loop[m].at < loop[m].upto

\* fn maps the record and its output is produced; after a produce error the
\* promise aborts what follows.
Process(m) ==
  /\ Working(m)
  /\ loop' = [loop EXCEPT ![m].at = @ + 1,
                          ![m].sent = IF "produce" \in loop[m].bad THEN @ ELSE Append(@, loop[m].at + 1)]
  /\ UNCHANGED <<owner, stale, offset, out, misses>>

\* The output never reaches the broker: too large, no topic, delivery timeout.
ProduceFails(m) ==
  /\ Working(m) /\ Miss
  /\ loop' = [loop EXCEPT ![m].at = @ + 1, ![m].bad = @ \cup {"produce"}]
  /\ UNCHANGED <<owner, stale, offset, out>>

\* fn fails: the rest of the batch is skipped.
FnFails(m) ==
  /\ Working(m) /\ Miss
  /\ loop' = [loop EXCEPT ![m].bad = @ \cup {"fn"}]
  /\ UNCHANGED <<owner, stale, offset, out>>

\* Plausible slip: the produce promises are not waited for.
TryCommitUngated(m) == "fn" \notin loop[m].bad

\* TransactionEndTry(ok).
TryCommit(m) == loop[m].bad = {}

\* The brokers: outputs and offsets become visible together, unless the member
\* lost the partition.
Apply(m) ==
  IF TryCommit(m) /\ m \notin stale
  THEN offset' = loop[m].upto /\ out' = out \o loop[m].sent
  ELSE UNCHANGED <<offset, out>>

EndDue(m) == loop[m].pc = "open" /\ ~Working(m)

\* End answers: the loop goes on, with the next batch or with this one again.
End(m) ==
  /\ EndDue(m) /\ Apply(m)
  /\ loop' = [loop EXCEPT ![m] = Ready] /\ stale' = stale \ {m}
  /\ UNCHANGED <<owner, misses>>

\* End fails, the transaction ended or not: Run returns.
EndFails(m) ==
  /\ EndDue(m) /\ Miss
  /\ Apply(m) \/ UNCHANGED <<offset, out>>
  /\ loop' = [loop EXCEPT ![m] = Stopped] /\ stale' = stale \ {m}
  /\ UNCHANGED owner

\* The process dies; its transaction times out or is fenced.
LoopCrash(m) ==
  /\ loop[m].pc # "stopped" /\ Miss
  /\ loop' = [loop EXCEPT ![m] = Stopped] /\ stale' = stale \ {m}
  /\ UNCHANGED <<owner, offset, out>>

\* The orchestrator starts the process again.
Restart(m) ==
  /\ loop[m].pc = "stopped"
  /\ loop' = [loop EXCEPT ![m] = Ready]
  /\ UNCHANGED <<owner, stale, offset, out, misses>>

\* The partition moves while the old owner may be in a transaction.
Rebalance(m) ==
  /\ owner # m /\ Miss /\ owner' = m
  /\ stale' = stale \cup {k \in Members : loop[k].pc = "open"}
  /\ UNCHANGED <<loop, offset, out>>

LoopStep(m) == Poll(m) \/ Process(m) \/ End(m) \/ Restart(m)

LoopNext == \E m \in Members :
  LoopStep(m) \/ ProduceFails(m) \/ FnFails(m) \/ EndFails(m) \/ LoopCrash(m) \/ Rebalance(m)

LoopSpec == LoopInit /\ [][LoopNext]_loopVars

--------------------------------------------------------------------------------
\* What consumers see is one output per input, in order, up to the committed
\* offset: none lost, none twice (Run: "exactly-once semantics over the whole
\* pipeline").
OutputsExactlyOnce == out = [i \in 1..offset |-> i]
================================================================================
