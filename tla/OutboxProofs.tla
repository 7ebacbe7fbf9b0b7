----------------------------- MODULE OutboxProofs ------------------------------
(***************************************************************************)
(* The delivery guarantees of the outbox relay for any number of rows,     *)
(* relays, shards and faults, any batch size and both modes of leader      *)
(* election: type correctness, no loss and no phantom, that the fleet      *)
(* implements the contract, that a former leader steps down in time, and   *)
(* that leaders publish an aggregate's events in causal order.             *)
(***************************************************************************)
EXTENDS OutboxRelay, TLAPS

\* The default prover; the leaves that need arithmetic or sequences name SMT.
USE Zenon

-----------------------------------------------------------------------------
(* Lemmas about the operators.                                             *)

\* A sequence as a function on its indices.
LEMMA ElementOfSeq ==
    ASSUME NEW S, NEW s \in Seq(S), NEW n \in 1..Len(s)
    PROVE  s[n] \in S
BY SMT

LEMMA LenProperties ==
    ASSUME NEW S, NEW s \in Seq(S)
    PROVE  Len(s) \in Nat /\ DOMAIN s = 1..Len(s)
BY SMT

LEMMA AppendProperties ==
    ASSUME NEW S, NEW s \in Seq(S), NEW x \in S
    PROVE  /\ Append(s, x) \in Seq(S)
           /\ Len(Append(s, x)) = Len(s) + 1
           /\ \A i \in 1..Len(s) : Append(s, x)[i] = s[i]
           /\ Append(s, x)[Len(s) + 1] = x
BY SMT

\* The range of a sequence is the set of its elements ...
LEMMA RangeElements ==
    ASSUME NEW S, NEW s \in Seq(S)
    PROVE  /\ Range(s) = {s[i] : i \in 1..Len(s)}
           /\ Range(s) \subseteq S
BY SMT, LenProperties DEF Range

\* ... and appending adds one.
LEMMA RangeAppend ==
    ASSUME NEW S, NEW s \in Seq(S), NEW x \in S
    PROVE  Range(Append(s, x)) = Range(s) \cup {x}
<1>1. PICK t \in Seq(S) : t = Append(s, x)
  BY AppendProperties
<1>2. /\ Len(t) = Len(s) + 1 /\ t[Len(s) + 1] = x
      /\ \A i \in 1..Len(s) : t[i] = s[i]
  BY SMT, <1>1, AppendProperties
<1>3. 1..(Len(s) + 1) = 1..Len(s) \cup {Len(s) + 1}
  BY SMT, LenProperties
<1>4. Range(t) = Range(s) \cup {x}
  BY SMT, <1>2, <1>3, RangeElements
<1> QED  BY <1>1, <1>4

\* What a claim fetches is a sequence of unpublished rows.
LEMMA FetchType ==
    ASSUME NEW r \in Relays, NEW b \in FetchUnpublished(r)
    PROVE  /\ b \in Seq(Rows)
           /\ \A i \in 1..Len(b) : row[b[i]] = "unpublished"
<1>1. PICK n \in 0..BatchSize : b \in [1..n -> Unpublished(r) \ Locked]
  BY DEF FetchUnpublished, Limited
<1>2. n \in Nat
  BY SMT, <1>1, OutboxAssumption
<1>3. b \in Seq(Rows) /\ Len(b) = n
  BY SMT, <1>1, <1>2 DEF Unpublished
<1>4. \A i \in 1..Len(b) : row[b[i]] = "unpublished"
  BY <1>1, <1>3 DEF Unpublished
<1> QED  BY <1>3, <1>4

\* Phase B handles a record of the batch and touches log, rejected and next.
LEMMA PublishRecord ==
    ASSUME TypeOK, NEW r \in Relays, Publish(r)
    PROVE  /\ \E x \in Rows : x = batch[r][next[r]]
           /\ next[r] \in 1..Len(batch[r])
           /\ log' = log \/ log' = Append(log, batch[r][next[r]])
<1>1. next[r] \in 1..Len(batch[r])
  BY SMT DEF Publish, TypeOK
<1>2. batch[r][next[r]] \in Rows
  BY <1>1, ElementOfSeq DEF TypeOK
<1>3. log' = log \/ log' = Append(log, batch[r][next[r]])
  BY DEF Publish
<1> QED  BY <1>1, <1>2, <1>3

-----------------------------------------------------------------------------
(* Type correctness.                                                       *)

\* The answer of ensureLeader keeps the leadership variables well typed.
LEMMA EnsureLeaderType ==
    ASSUME TypeOK, NEW r \in Relays, EnsureLeader(r, "claim", "idle")
    PROVE  /\ pc' \in [Relays -> Place]
           /\ conn' \in SUBSET Relays
           /\ holder' \in [Shards -> Relays \cup {NoRelay}]
           /\ faults' \in Nat
           /\ stale' \in [Relays -> Nat]
<1> USE DEF TypeOK, EnsureLeader, HoldsLock, Goto, Fault, Release, leading
<1>1. pc' \in [Relays -> Place]
  BY DEF Place
<1>2. conn' \in SUBSET Relays
  OBVIOUS
<1>3. \/ holder' = holder
      \/ holder' = [s \in Shards |-> IF holder[s] = r THEN NoRelay ELSE holder[s]]
      \/ holder' = [holder EXCEPT ![RelayShard[r]] = r]
  OBVIOUS
<1>6. holder' \in [Shards -> Relays \cup {NoRelay}]
  BY SMT, <1>3, OutboxAssumption
<1>4. faults' \in Nat
  BY SMT
<1>5. stale' = stale \/ stale' = [stale EXCEPT ![r] = 0]
  OBVIOUS
<1>7. stale' \in [Relays -> Nat]
  <2>1. CASE stale' = stale
    BY <2>1
  <2>2. CASE stale' = [stale EXCEPT ![r] = 0]
    BY <2>2
  <2> QED  BY <1>5, <2>1, <2>2
<1> QED  BY <1>1, <1>2, <1>4, <1>6, <1>7

\* Every step of the writers, the relays and the server keeps the types.
LEMMA TypeStep == TypeOK /\ [Next]_vars => TypeOK'
<1> SUFFICES ASSUME TypeOK, [Next]_vars PROVE TypeOK'
  OBVIOUS
<1> USE DEF table, loop, leading, Goto, Return, Fault, Release
<1>1. ASSUME NEW S \in SUBSET Rows, Enqueue(S) PROVE TypeOK'
  BY SMT, <1>1 DEF Enqueue, TypeOK, RowState, Committed
<1>2. CASE RunInTx
  BY SMT, <1>2 DEF RunInTx, EndTx, TypeOK, RowState, Committed
<1>3. ASSUME NEW r \in Relays, Tick(r) PROVE TypeOK'
  <2>1. CASE SingleActive
    BY SMTT(30), <1>3, <2>1, EnsureLeaderType DEF Tick, TypeOK
  <2>2. CASE ~SingleActive
    BY <1>3, <2>2 DEF Tick, TypeOK, Place
  <2> QED  BY <2>1, <2>2
<1>4. ASSUME NEW r \in Relays, Claim(r) PROVE TypeOK'
  <2>1. PICK b \in FetchUnpublished(r) :
           /\ batch' = [batch EXCEPT ![r] = b]
           /\ pc' = [pc EXCEPT ![r] = IF b = <<>> THEN "idle" ELSE "claimed"]
           /\ stale' = [stale EXCEPT ![r] =
                           IF SingleActive /\ ~HoldsLock(r) /\ b # <<>>
                           THEN @ + 1 ELSE @]
    BY <1>4 DEF Claim
  <2>2. b \in Seq(Rows)
    BY FetchType
  <2> QED  BY SMT, <1>4, <2>1, <2>2 DEF Claim, TypeOK, Place, Busy
<1>5. ASSUME NEW r \in Relays, ClaimCommit(r) PROVE TypeOK'
  BY <1>5 DEF ClaimCommit, TypeOK, Place, Busy
<1>6. ASSUME NEW r \in Relays, Publish(r) PROVE TypeOK'
  <2>1. PICK x \in Rows : x = batch[r][next[r]]
    BY <1>6, PublishRecord
  <2>3. log' = log \/ log' = Append(log, x)
    BY <1>6, <2>1, PublishRecord
  <2>2. Aggregate[x] \in Aggregates
    BY <2>1, OutboxAssumption
  <2>4. log' \in Seq(Rows)
    <3>1. log \in Seq(Rows) /\ Append(log, x) \in Seq(Rows)
      BY SMT, <2>1, AppendProperties DEF TypeOK
    <3> QED  BY <2>3, <3>1
  <2>5. \/ rejected' = rejected
        \/ \E K \in SUBSET Aggregates :
              rejected' = [rejected EXCEPT ![r] = rejected[r] \cup K \cup {Aggregate[x]}]
    BY <1>6, <2>1 DEF Publish
  <2>6. rejected' \in [Relays -> SUBSET Aggregates]
    <3>1. CASE rejected' = rejected
      BY <3>1 DEF TypeOK
    <3>2. ASSUME NEW K \in SUBSET Aggregates,
                 rejected' = [rejected EXCEPT ![r] = rejected[r] \cup K \cup {Aggregate[x]}]
          PROVE  rejected' \in [Relays -> SUBSET Aggregates]
      BY <2>2, <3>2 DEF TypeOK
    <3> QED  BY <2>5, <3>1, <3>2
  <2>7. faults' = faults \/ faults' = faults + 1
    BY <1>6 DEF Publish
  <2>8. faults' \in Nat
    BY SMT, <2>7 DEF TypeOK
  <2>9. next' = [next EXCEPT ![r] = next[r] + 1]
    BY <1>6 DEF Publish
  <2>10. UNCHANGED <<table, pc, batch, leading, lingering, unfenced>>
    BY <1>6 DEF Publish
  <2> QED  BY SMT, <2>4, <2>6, <2>8, <2>9, <2>10 DEF TypeOK
<1>7. ASSUME NEW r \in Relays, PublishDone(r) PROVE TypeOK'
  <2>1. CASE rejected[r] = {}
    BY <1>7, <2>1 DEF PublishDone, TypeOK, Place, Busy
  <2>2. CASE rejected[r] # {}
    <3>1. Return(r, "idle") /\ UNCHANGED <<table, log, leading, lingering, faults, unfenced>>
      BY <1>7, <2>2 DEF PublishDone
    <3> QED  BY SMT, <3>1 DEF TypeOK, Place
  <2> QED  BY <2>1, <2>2
<1>8. ASSUME NEW r \in Relays, MarkPublishedBatch(r) PROVE TypeOK'
  BY SMT, <1>8 DEF MarkPublishedBatch, MarkPublished, TypeOK, RowState, Committed,
              Place, Busy
<1>9. ASSUME NEW r \in Relays, ProcessBatchError(r) PROVE TypeOK'
  BY SMT, <1>9 DEF ProcessBatchError, MarkPublished, TypeOK, RowState, Committed,
              Place, Busy
<1>10. ASSUME NEW r \in Relays, Verify(r) PROVE TypeOK'
  BY <1>10, EnsureLeaderType DEF Verify, TypeOK
<1>11. ASSUME NEW r \in Relays, LoseSession(r) PROVE TypeOK'
  BY SMT, <1>11 DEF LoseSession, TypeOK
<1>12. ASSUME NEW r \in Relays, Stop(r) PROVE TypeOK'
  BY SMT, <1>12 DEF Stop, TypeOK, Place
<1>13. ASSUME NEW r \in Relays, Crash(r) PROVE TypeOK'
  <2>1. Range(batch[r]) \subseteq Rows
    BY RangeElements DEF TypeOK
  <2> QED  BY SMT, <1>13, <2>1 DEF Crash, TypeOK, Place
<1>14. ASSUME NEW r \in Relays, Start(r) PROVE TypeOK'
  BY <1>14 DEF Start, TypeOK, Place
<1>15. CASE BackendExit
  BY <1>15 DEF BackendExit, TypeOK
<1>16. ASSUME NEW S \in SUBSET Rows, Cleanup(S) PROVE TypeOK'
  BY <1>16 DEF Cleanup, TypeOK, RowState, Committed
<1>17. CASE UNCHANGED vars
  BY <1>17 DEF vars, TypeOK
<1> QED
  BY <1>1, <1>2, <1>3, <1>4, <1>5, <1>6, <1>7, <1>8, <1>9, <1>10, <1>11,
     <1>12, <1>13, <1>14, <1>15, <1>16, <1>17 DEF Next, RelayStep

\* The state of table, broker, relays and locks is always well typed.
THEOREM TypeCorrect == Spec => []TypeOK
<1>1. Init => TypeOK
  BY SMT DEF Init, TypeOK, RowState, Committed, Place, Busy
<1>2. TypeOK /\ [Next]_vars => TypeOK'
  BY TypeStep
<1> QED  BY <1>1, <1>2, PTL DEF Spec

-----------------------------------------------------------------------------
(* No loss and no phantom.  MarkedIsLanded and OnlyCommittedLands are not  *)
(* inductive by themselves: what phase C marks must be known to have       *)
(* landed, which phase B establishes record by record.                     *)

\* The rows a relay has in hand are of committed transactions.
BatchCommitted ==
    \A r \in Relays : \A i \in 1..Len(batch[r]) : row[batch[r][i]] \in Committed

\* Outside phases B and C no record of the batch counts as produced ...
FreshBatch ==
    \A r \in Relays : pc[r] \notin {"publish", "mark"} => next[r] = 1

\* ... and while no error was reported the records before next have landed.
SentLanded ==
    \A r \in Relays : rejected[r] = {} =>
        \A i \in 1..Len(batch[r]) : i < next[r] => batch[r][i] \in Landed

\* Phase C runs only after the whole batch was produced without an error.
MarkReady ==
    \A r \in Relays : pc[r] = "mark" =>
        rejected[r] = {} /\ next[r] > Len(batch[r])

DeliveryInv ==
    /\ TypeOK
    /\ BatchCommitted
    /\ FreshBatch
    /\ SentLanded
    /\ MarkReady
    /\ MarkedIsLanded
    /\ OnlyCommittedLands

\* No step takes a record out of the broker's log or undoes a commit.
LEMMA Grows ==
    ASSUME TypeOK, [Next]_vars
    PROVE  /\ Landed \subseteq Landed'
           /\ \A x \in Rows : row[x] \in Committed => row'[x] \in Committed
<1> USE DEF table, loop, leading, Landed
<1>1. ASSUME NEW S \in SUBSET Rows, Enqueue(S)
      PROVE  log' = log /\ \A x \in Rows : row[x] \in Committed => row'[x] \in Committed
  BY <1>1 DEF Enqueue, Committed
<1>2. ASSUME RunInTx
      PROVE  log' = log /\ \A x \in Rows : row[x] \in Committed => row'[x] \in Committed
  BY <1>2 DEF RunInTx, EndTx, Committed
<1>3. ASSUME NEW r \in Relays, Publish(r) PROVE row' = row /\ Landed \subseteq Landed'
  <2>1. PICK x \in Rows : x = batch[r][next[r]]
    BY <1>3, PublishRecord
  <2>2. log' = log \/ log' = Append(log, x)
    BY <1>3, <2>1, PublishRecord
  <2>3. Range(Append(log, x)) = Range(log) \cup {x}
    BY SMT, <2>1, RangeAppend DEF TypeOK
  <2>4. row' = row
    BY <1>3 DEF Publish
  <2> QED  BY <2>2, <2>3, <2>4
<1>4. ASSUME NEW r \in Relays, MarkPublishedBatch(r) \/ ProcessBatchError(r)
      PROVE  log' = log /\ \A x \in Rows : row[x] \in Committed => row'[x] \in Committed
  <2>1. log' = log /\ (row' = row \/ MarkPublished(Range(batch[r])))
    BY <1>4 DEF MarkPublishedBatch, ProcessBatchError
  <2>2. CASE row' = row
    BY <2>1, <2>2
  <2>3. CASE MarkPublished(Range(batch[r]))
    BY <2>1, <2>3 DEF MarkPublished, Committed
  <2> QED  BY <2>1, <2>2, <2>3
<1>5. ASSUME NEW S \in SUBSET Rows, Cleanup(S)
      PROVE  log' = log /\ \A x \in Rows : row[x] \in Committed => row'[x] \in Committed
  BY <1>5 DEF Cleanup, Committed
<1>6. ASSUME NEW r \in Relays,
             \/ Tick(r) \/ Claim(r) \/ ClaimCommit(r) \/ PublishDone(r) \/ Verify(r)
             \/ Start(r) \/ LoseSession(r) \/ Stop(r) \/ Crash(r)
      PROVE  row' = row /\ log' = log
  BY <1>6 DEF Tick, Claim, ClaimCommit, PublishDone, Verify, Start, LoseSession, Stop,
              Crash
<1>7. CASE BackendExit \/ UNCHANGED vars
  BY <1>7 DEF BackendExit, vars
<1> QED
  BY <1>1, <1>2, <1>3, <1>4, <1>5, <1>6, <1>7 DEF Next, RelayStep

\* A step that leaves the batches alone, and does not enter or leave phases B
\* and C except by entering phase B, keeps what is known of the batches.
LEMMA BatchesKept ==
    ASSUME DeliveryInv, [Next]_vars, UNCHANGED <<batch, next, rejected>>,
           \A r \in Relays : pc'[r] # pc[r] =>
               pc'[r] # "mark" /\ pc[r] \notin {"publish", "mark"}
    PROVE  BatchCommitted' /\ FreshBatch' /\ SentLanded' /\ MarkReady'
<1> USE DEF DeliveryInv
<1>1. BatchCommitted'
  <2> SUFFICES ASSUME NEW r \in Relays, NEW i \in 1..Len(batch[r])
               PROVE  row'[batch[r][i]] \in Committed
    BY DEF BatchCommitted
  <2>1. batch[r][i] \in Rows
    BY ElementOfSeq DEF TypeOK
  <2> QED  BY <2>1, Grows DEF BatchCommitted
<1>2. FreshBatch'
  BY DEF FreshBatch
<1>3. SentLanded'
  BY Grows DEF SentLanded
<1>4. MarkReady'
  BY DEF MarkReady
<1> QED  BY <1>1, <1>2, <1>3, <1>4

\* So does a step in which one relay drops its batch.
LEMMA BatchDropped ==
    ASSUME DeliveryInv, [Next]_vars, NEW r \in Relays, NEW place \in Place,
           place # "mark", Return(r, place)
    PROVE  BatchCommitted' /\ FreshBatch' /\ SentLanded' /\ MarkReady'
<1> USE DEF DeliveryInv, TypeOK, Return, Goto
<1>1. /\ pc'[r] = place /\ batch'[r] = <<>> /\ next'[r] = 1
      /\ \A q \in Relays \ {r} : /\ pc'[q] = pc[q] /\ batch'[q] = batch[q]
                                  /\ next'[q] = next[q] /\ rejected'[q] = rejected[q]
  OBVIOUS
<1>2. BatchCommitted'
  <2> SUFFICES ASSUME NEW q \in Relays, NEW i \in 1..Len(batch'[q])
               PROVE  row'[batch'[q][i]] \in Committed
    BY DEF BatchCommitted
  <2>1. q # r /\ batch'[q] = batch[q]
    BY SMT, <1>1
  <2>2. batch[q][i] \in Rows
    BY <2>1, ElementOfSeq
  <2> QED  BY <2>1, <2>2, Grows DEF BatchCommitted
<1>3. FreshBatch'
  BY <1>1 DEF FreshBatch
<1>4. SentLanded'
  <2> SUFFICES ASSUME NEW q \in Relays, rejected'[q] = {},
                      NEW i \in 1..Len(batch'[q]), i < next'[q]
               PROVE  batch'[q][i] \in Landed'
    BY DEF SentLanded
  <2>1. q # r
    BY SMT, <1>1
  <2> QED  BY <1>1, <2>1, Grows DEF SentLanded
<1>5. MarkReady'
  BY <1>1 DEF MarkReady
<1> QED  BY <1>2, <1>3, <1>4, <1>5

\* Table and log as they were: so are the two safety properties.
LEMMA TableKept ==
    ASSUME MarkedIsLanded, OnlyCommittedLands, row' = row, log' = log
    PROVE  MarkedIsLanded' /\ OnlyCommittedLands'
BY DEF MarkedIsLanded, OnlyCommittedLands, Landed

\* Marking what has landed keeps them too.
LEMMA MarkingLanded ==
    ASSUME DeliveryInv, [Next]_vars, NEW r \in Relays, pc[r] = "mark", log' = log,
           MarkPublished(Range(batch[r]))
    PROVE  MarkedIsLanded' /\ OnlyCommittedLands'
<1> USE DEF DeliveryInv, TypeOK
<1>0. batch[r] \in Seq(Rows) /\ next[r] \in Nat /\ Len(batch[r]) \in Nat
  BY SMT
<1>1. rejected[r] = {} /\ next[r] > Len(batch[r])
  BY DEF MarkReady
<1>2. Range(batch[r]) \subseteq Landed
  <2>1. \A i \in 1..Len(batch[r]) : i < next[r]
    BY SMT, <1>0, <1>1
  <2>2. \A i \in 1..Len(batch[r]) : batch[r][i] \in Landed
    BY <1>1, <2>1 DEF SentLanded
  <2>3. Range(batch[r]) = {batch[r][i] : i \in 1..Len(batch[r])}
    BY <1>0, RangeElements
  <2> QED  BY <2>2, <2>3
<1>3. MarkedIsLanded'
  BY <1>2 DEF MarkedIsLanded, MarkPublished, Landed
<1>4. OnlyCommittedLands'
  <2>1. Landed \subseteq Rows /\ Landed' = Landed
    BY RangeElements DEF Landed
  <2> QED  BY <2>1, Grows DEF OnlyCommittedLands
<1> QED  BY <1>3, <1>4

\* Every step of the system keeps the delivery invariant.
LEMMA DeliveryStep == DeliveryInv /\ [Next]_vars => DeliveryInv'
<1> SUFFICES ASSUME DeliveryInv, [Next]_vars PROVE DeliveryInv'
  OBVIOUS
<1>0. TypeOK'
  BY TypeStep DEF DeliveryInv
<1>t. /\ TypeOK /\ MarkedIsLanded /\ OnlyCommittedLands
      /\ Landed \subseteq Rows
  BY RangeElements DEF DeliveryInv, TypeOK, Landed
<1> USE DEF table, loop, leading
<1>1. ASSUME NEW S \in SUBSET Rows, Enqueue(S) PROVE DeliveryInv'
  <2>1. BatchCommitted' /\ FreshBatch' /\ SentLanded' /\ MarkReady'
    BY <1>1, BatchesKept DEF Enqueue
  <2>2. MarkedIsLanded'
    BY <1>1, <1>t DEF Enqueue, MarkedIsLanded, Landed
  <2>3. OnlyCommittedLands'
    BY <1>1, <1>t, Grows DEF Enqueue, OnlyCommittedLands, Landed
  <2> QED  BY <1>0, <2>1, <2>2, <2>3 DEF DeliveryInv
<1>2. ASSUME RunInTx PROVE DeliveryInv'
  <2>1. BatchCommitted' /\ FreshBatch' /\ SentLanded' /\ MarkReady'
    BY <1>2, BatchesKept DEF RunInTx, EndTx
  <2>2. MarkedIsLanded'
    BY <1>2, <1>t DEF RunInTx, EndTx, MarkedIsLanded, Landed
  <2>3. OnlyCommittedLands'
    BY <1>2, <1>t, Grows DEF RunInTx, EndTx, OnlyCommittedLands, Landed
  <2> QED  BY <1>0, <2>1, <2>2, <2>3 DEF DeliveryInv
<1>3. ASSUME NEW r \in Relays, Tick(r) \/ Verify(r) PROVE DeliveryInv'
  <2>1. /\ pc[r] \in {"idle", "verify"}
        /\ pc' = [pc EXCEPT ![r] = "claim"] \/ pc' = [pc EXCEPT ![r] = "idle"]
        /\ UNCHANGED <<batch, next, rejected, row, log>>
    BY <1>3 DEF Tick, Verify, EnsureLeader, Goto
  <2>2. \A q \in Relays : pc'[q] # pc[q] =>
            pc'[q] # "mark" /\ pc[q] \notin {"publish", "mark"}
    BY <1>t, <2>1 DEF TypeOK
  <2> QED  BY <1>0, <1>t, <2>1, <2>2, BatchesKept, TableKept DEF DeliveryInv
<1>4. ASSUME NEW r \in Relays, Claim(r) PROVE DeliveryInv'
  <2>1. PICK b \in FetchUnpublished(r) :
           /\ batch' = [batch EXCEPT ![r] = b]
           /\ pc' = [pc EXCEPT ![r] = IF b = <<>> THEN "idle" ELSE "claimed"]
    BY <1>4 DEF Claim, Goto
  <2>2. /\ b \in Seq(Rows)
        /\ \A i \in 1..Len(b) : row[b[i]] = "unpublished"
    BY FetchType
  <2>3. pc[r] = "claim" /\ UNCHANGED <<next, rejected, row, log>>
    BY <1>4 DEF Claim
  <2>4. BatchCommitted'
    BY ZenonT(30), <1>t, <2>1, <2>2, <2>3 DEF DeliveryInv, TypeOK, BatchCommitted, Committed
  <2>5. FreshBatch'
    BY <1>t, <2>1, <2>3 DEF DeliveryInv, TypeOK, FreshBatch
  <2>6. next[r] = 1
    BY <2>3 DEF DeliveryInv, FreshBatch
  <2>7. SentLanded'
    <3> SUFFICES ASSUME NEW q \in Relays, rejected'[q] = {},
                        NEW i \in 1..Len(batch'[q]), i < next'[q]
                 PROVE  batch'[q][i] \in Landed'
      BY DEF SentLanded
    <3>0. rejected[q] = {} /\ i < next[q]
      BY <2>3
    <3>1. q # r
      <4>1. i \in Int /\ i >= 1
        BY SMT
      <4> QED  BY SMT, <2>6, <3>0, <4>1
    <3>2. batch'[q] = batch[q]
      BY <1>t, <2>1, <3>1 DEF TypeOK
    <3> QED  BY ZenonT(30), <2>3, <3>0, <3>2 DEF DeliveryInv, SentLanded, Landed
  <2>8. MarkReady'
    BY <1>t, <2>1, <2>3 DEF DeliveryInv, TypeOK, MarkReady
  <2> QED  BY <1>0, <1>t, <2>3, <2>4, <2>5, <2>7, <2>8, TableKept DEF DeliveryInv
<1>5. ASSUME NEW r \in Relays, ClaimCommit(r) \/ Stop(r) \/ Start(r) PROVE DeliveryInv'
  <2>1. PICK place \in {"publish", "stopped", "idle"} : pc' = [pc EXCEPT ![r] = place]
    BY <1>5 DEF ClaimCommit, Stop, Start, Goto
  <2>2. /\ pc[r] \notin {"publish", "mark"}
        /\ UNCHANGED <<batch, next, rejected, row, log>>
    BY <1>5 DEF ClaimCommit, Stop, Start
  <2>3. \A q \in Relays : pc'[q] # pc[q] =>
            pc'[q] # "mark" /\ pc[q] \notin {"publish", "mark"}
    BY <1>t, <2>1, <2>2 DEF TypeOK
  <2> QED  BY <1>0, <1>t, <2>2, <2>3, BatchesKept, TableKept DEF DeliveryInv
<1>6. ASSUME NEW r \in Relays, Publish(r) PROVE DeliveryInv'
  <2>1. PICK x \in Rows : x = batch[r][next[r]]
    BY <1>6, <1>t, PublishRecord
  <2>3. log' = log \/ log' = Append(log, x)
    BY <1>6, <1>t, <2>1, PublishRecord
  <2>2. /\ pc[r] = "publish" /\ next[r] <= Len(batch[r])
        /\ next' = [next EXCEPT ![r] = next[r] + 1]
        /\ UNCHANGED <<row, pc, batch>>
    BY <1>6 DEF Publish
  <2>4. Range(Append(log, x)) = Range(log) \cup {x}
    BY SMT, <1>t, <2>1, RangeAppend DEF TypeOK
  <2>5. next[r] \in 1..Len(batch[r])
    BY <1>6, <1>t, PublishRecord
  <2>6. row[x] \in Committed
    BY SMTT(30), <2>1, <2>5 DEF DeliveryInv, BatchCommitted
  <2>7. /\ \A q \in Relays \ {r} : rejected'[q] = rejected[q]
        /\ rejected'[r] = {} => rejected[r] = {} /\ log' = Append(log, x)
    <3>1. CASE Aggregate[x] \notin rejected[r] /\ log' = Append(log, x) /\ rejected' = rejected
      BY <3>1
    <3>2. CASE Aggregate[x] \in rejected[r] /\ rejected' = rejected
      BY <3>2
    <3>3. ASSUME NEW K \in SUBSET Aggregates,
                 rejected' = [rejected EXCEPT ![r] = rejected[r] \cup K \cup {Aggregate[x]}]
          PROVE  <2>7!1 /\ <2>7!2
      BY <1>t, <3>3 DEF TypeOK
    <3> QED  BY ZenonT(30), <1>6, <2>1, <3>1, <3>2, <3>3 DEF Publish
  <2>8. BatchCommitted'
    BY <2>2 DEF DeliveryInv, BatchCommitted
  <2>9. FreshBatch'
    BY <1>t, <2>2 DEF DeliveryInv, FreshBatch, TypeOK
  <2>10. SentLanded'
    <3> SUFFICES ASSUME NEW q \in Relays, rejected'[q] = {},
                        NEW i \in 1..Len(batch[q]), i < next'[q]
                 PROVE  batch[q][i] \in Landed'
      BY <2>2 DEF SentLanded
    <3>1. CASE q = r /\ i = next[r]
      BY ZenonT(30), <2>1, <2>4, <2>7, <3>1 DEF Landed
    <3>2. CASE ~(q = r /\ i = next[r])
      <4>0. /\ q # r => next'[q] = next[q]
            /\ next'[r] = next[r] + 1 /\ next[r] \in Nat /\ i \in Nat
        BY SMT, <1>t, <2>2 DEF TypeOK
      <4>1. rejected[q] = {}
        BY <2>7
      <4>2. i < next[q]
        <5>1. CASE q = r
          BY SMT, <3>2, <4>0, <5>1
        <5>2. CASE q # r
          BY <4>0, <5>2
        <5> QED  BY <5>1, <5>2
      <4> QED  BY <1>t, <4>2, <4>1, Grows DEF DeliveryInv, SentLanded
    <3> QED  BY <3>1, <3>2
  <2>11. MarkReady'
    <3> SUFFICES ASSUME NEW q \in Relays, pc[q] = "mark"
                 PROVE  rejected'[q] = {} /\ next'[q] > Len(batch[q])
      BY <2>2 DEF MarkReady
    <3>1. q # r
      BY <2>2
    <3> QED  BY <1>t, <2>2, <2>7, <3>1 DEF DeliveryInv, MarkReady, TypeOK
  <2>12. MarkedIsLanded'
    BY <1>t, <2>2, Grows DEF MarkedIsLanded
  <2>13. OnlyCommittedLands'
    BY <1>t, <2>2, <2>3, <2>4, <2>6 DEF OnlyCommittedLands, Landed
  <2> QED  BY <1>0, <2>8, <2>9, <2>10, <2>11, <2>12, <2>13 DEF DeliveryInv
<1>7. ASSUME NEW r \in Relays, PublishDone(r) PROVE DeliveryInv'
  <2>1. row' = row /\ log' = log
    BY <1>7 DEF PublishDone
  <2>2. CASE rejected[r] # {}
    <3>1. Return(r, "idle")
      BY <1>7, <2>2 DEF PublishDone
    <3> QED  BY <1>0, <1>t, <2>1, <3>1, BatchDropped, TableKept DEF DeliveryInv, Place
  <2>3. CASE rejected[r] = {}
    <3>1. /\ next[r] > Len(batch[r]) /\ pc' = [pc EXCEPT ![r] = "mark"]
          /\ UNCHANGED <<batch, next, rejected>>
      BY <1>7, <2>3 DEF PublishDone, Goto
    <3>2. BatchCommitted' /\ SentLanded'
      BY SMTT(30), <2>1, <3>1 DEF DeliveryInv, BatchCommitted, SentLanded, Landed
    <3>3. FreshBatch' /\ MarkReady'
      BY <1>t, <2>3, <3>1 DEF DeliveryInv, FreshBatch, MarkReady, TypeOK
    <3> QED  BY <1>0, <1>t, <2>1, <3>2, <3>3, TableKept DEF DeliveryInv
  <2> QED  BY SMTT(30), <2>2, <2>3
<1>8. ASSUME NEW r \in Relays, MarkPublishedBatch(r) PROVE DeliveryInv'
  <2>1. PICK place \in {"idle", "verify", "claim"} : Return(r, place)
    BY <1>8 DEF MarkPublishedBatch
  <2>2. BatchCommitted' /\ FreshBatch' /\ SentLanded' /\ MarkReady'
    BY <2>1, BatchDropped DEF Place
  <2>3. MarkedIsLanded' /\ OnlyCommittedLands'
    BY <1>8, MarkingLanded DEF MarkPublishedBatch
  <2> QED  BY <1>0, <2>2, <2>3 DEF DeliveryInv
<1>9. ASSUME NEW r \in Relays, ProcessBatchError(r) PROVE DeliveryInv'
  <2>1. BatchCommitted' /\ FreshBatch' /\ SentLanded' /\ MarkReady'
    BY <1>9, BatchDropped DEF ProcessBatchError, Place
  <2>2. MarkedIsLanded' /\ OnlyCommittedLands'
    <3>1. log' = log
      BY <1>9 DEF ProcessBatchError
    <3>2. CASE row' = row
      BY <1>t, <3>1, <3>2, TableKept
    <3>3. CASE pc[r] = "mark" /\ MarkPublished(Range(batch[r]))
      BY <3>1, <3>3, MarkingLanded
    <3> QED  BY <1>9, <3>2, <3>3 DEF ProcessBatchError
  <2> QED  BY <1>0, <2>1, <2>2 DEF DeliveryInv
<1>10. ASSUME NEW r \in Relays, Crash(r) PROVE DeliveryInv'
  <2>1. Return(r, "stopped") /\ row' = row /\ log' = log
    BY <1>10 DEF Crash
  <2> QED  BY SMTT(30), <1>0, <1>t, <2>1, BatchDropped, TableKept DEF DeliveryInv, Place
<1>11. CASE BackendExit \/ (\E r \in Relays : LoseSession(r)) \/ UNCHANGED vars
  <2>1. UNCHANGED <<pc, batch, next, rejected, row, log>>
    BY <1>11 DEF BackendExit, LoseSession, vars
  <2> QED  BY <1>0, <1>t, <2>1, BatchesKept, TableKept DEF DeliveryInv
<1>12. ASSUME NEW S \in SUBSET Rows, Cleanup(S) PROVE DeliveryInv'
  <2>1. BatchCommitted' /\ FreshBatch' /\ SentLanded' /\ MarkReady'
    BY <1>12, BatchesKept DEF Cleanup
  <2>2. MarkedIsLanded'
    BY <1>12, <1>t DEF Cleanup, MarkedIsLanded, Landed
  <2>3. OnlyCommittedLands'
    BY <1>12, <1>t, Grows DEF Cleanup, OnlyCommittedLands, Landed
  <2> QED  BY <1>0, <2>1, <2>2, <2>3 DEF DeliveryInv
<1> QED
  BY <1>1, <1>2, <1>3, <1>4, <1>5, <1>6, <1>7, <1>8, <1>9, <1>10, <1>11, <1>12
  DEF Next, RelayStep

\* The delivery invariant holds throughout.
LEMMA Delivery == Spec => []DeliveryInv
<1>1. Init => DeliveryInv
  <2> SUFFICES ASSUME Init PROVE DeliveryInv
    OBVIOUS
  <2>1. TypeOK
    BY SMTT(30) DEF Init, TypeOK, RowState, Committed, Place, Busy
  <2>2. Landed = {}
    <3>1. log = <<>>
      BY DEF Init
    <3>2. Range(<<>>) = {}
      BY SMT DEF Range
    <3> QED  BY <3>1, <3>2 DEF Landed
  <2> QED
    BY SMT, <2>1, <2>2 DEF Init, DeliveryInv, BatchCommitted, FreshBatch, SentLanded,
       MarkReady, MarkedIsLanded, OnlyCommittedLands, Landed
<1>2. DeliveryInv /\ [Next]_vars => DeliveryInv'
  BY DeliveryStep
<1> QED  BY <1>1, <1>2, PTL DEF Spec

\* No loss: a row is marked published, or removed by the cleaner, only after
\* the broker accepted it.
THEOREM NoLoss == Spec => []MarkedIsLanded
<1>1. DeliveryInv => MarkedIsLanded
  BY DEF DeliveryInv
<1> QED  BY <1>1, Delivery, PTL

\* No phantom: only rows of committed transactions reach the broker.
THEOREM NoPhantom == Spec => []OnlyCommittedLands
<1>1. DeliveryInv => OnlyCommittedLands
  BY DEF DeliveryInv
<1> QED  BY <1>1, Delivery, PTL

-----------------------------------------------------------------------------
(* The detailed specification implements the contract.                     *)

\* Each step of the relay system is a step of the contract or invisible to
\* it: a commit accepts, phase B delivers, phase C settles.
LEMMA ContractStep ==
    ASSUME DeliveryInv, DeliveryInv', [Next]_vars
    PROVE  [Contract!Next]_<<{x \in Rows : row[x] \in Committed}, log,
                             {x \in Rows : row[x] \in {"published", "deleted"}}>>
<1> DEFINE A == {x \in Rows : row[x] \in Committed}
           B == {x \in Rows : row[x] \in {"published", "deleted"}}
<1> SUFFICES Contract!Next \/ (A' = A /\ log' = log /\ B' = B)
  OBVIOUS
<1>t. TypeOK
  BY DEF DeliveryInv
<1> USE DEF table, loop, leading
<1>1. ASSUME NEW S \in SUBSET Rows, Enqueue(S) PROVE A' = A /\ log' = log /\ B' = B
  BY <1>1 DEF Enqueue, Committed
<1>2. ASSUME NEW t, EndTx(t, "unpublished") PROVE Contract!Next
  <2>1. PICK S \in SUBSET Rows : S = {x \in Rows : row[x] = "open" /\ createdAt[x] = t}
    BY ZenonT(30)
  <2>2. A' = A \cup S /\ log' = log /\ B' = B /\ S \cap A = {}
    BY <1>2, <2>1 DEF EndTx, Committed
  <2>3. Contract!Accept(S)
    BY <2>2 DEF Contract!Accept
  <2> QED  BY <2>3 DEF Contract!Next
<1>3. ASSUME NEW t, EndTx(t, "aborted") PROVE A' = A /\ log' = log /\ B' = B
  BY <1>3 DEF EndTx, Committed
<1>4. ASSUME NEW r \in Relays, Publish(r)
      PROVE  Contract!Next \/ (A' = A /\ log' = log /\ B' = B)
  <2>1. PICK x \in Rows : x = batch[r][next[r]]
    BY <1>4, <1>t, PublishRecord
  <2>2. log' = log \/ log' = Append(log, x)
    BY <1>4, <1>t, <2>1, PublishRecord
  <2>3. row' = row /\ A' = A /\ B' = B
    BY SMTT(30), <1>4 DEF Publish
  <2>4. next[r] \in 1..Len(batch[r])
    BY <1>4, <1>t, PublishRecord
  <2>5. x \in A
    BY <2>1, <2>4 DEF DeliveryInv, BatchCommitted
  <2>6. CASE log' = Append(log, x)
    <3>1. Contract!Deliver(x)
      BY <2>3, <2>5, <2>6 DEF Contract!Deliver
    <3> QED  BY <2>1, <3>1 DEF Contract!Next
  <2> QED  BY <2>2, <2>3, <2>6
<1>5. ASSUME NEW r \in Relays, MarkPublishedBatch(r) \/ ProcessBatchError(r)
      PROVE  Contract!Next \/ (A' = A /\ log' = log /\ B' = B)
  <2>1. log' = log /\ (row' = row \/ MarkPublished(Range(batch[r])))
    BY <1>5 DEF MarkPublishedBatch, ProcessBatchError
  <2>2. CASE row' = row
    BY <2>1, <2>2
  <2>3. CASE MarkPublished(Range(batch[r]))
    <3>1. A' = A /\ B \subseteq B'
      BY <2>3 DEF MarkPublished, Committed
    <3>2. B' \subseteq Range(log)
      BY <2>1 DEF DeliveryInv, MarkedIsLanded, Landed
    <3>3. PICK S \in SUBSET Rows : S = B'
      BY ZenonT(30)
    <3>4. S \subseteq Contract!Range(log) /\ B' = B \cup S
      BY <3>1, <3>2, <3>3 DEF Range, Contract!Range
    <3>5. Contract!Settle(S)
      BY <2>1, <3>1, <3>4 DEF Contract!Settle
    <3> QED  BY <3>5 DEF Contract!Next
  <2> QED  BY <2>1, <2>2, <2>3
<1>6. ASSUME NEW S \in SUBSET Rows, Cleanup(S) PROVE A' = A /\ log' = log /\ B' = B
  BY <1>6 DEF Cleanup, Committed
<1>7. ASSUME NEW r \in Relays,
             \/ Tick(r) \/ Claim(r) \/ ClaimCommit(r) \/ PublishDone(r) \/ Verify(r)
             \/ Start(r) \/ LoseSession(r) \/ Stop(r) \/ Crash(r)
      PROVE  row' = row /\ log' = log
  BY <1>7 DEF Tick, Claim, ClaimCommit, PublishDone, Verify, Start, LoseSession, Stop,
              Crash
<1>8. CASE BackendExit \/ UNCHANGED vars
  BY <1>8 DEF BackendExit, vars
<1> QED
  BY <1>1, <1>2, <1>3, <1>4, <1>5, <1>6, <1>7, <1>8 DEF Next, RelayStep, RunInTx

\* The relay fleet implements the contract of the outbox: at-least-once, no
\* phantom, and nothing settled before it was delivered.
THEOREM Refinement == Spec => ImplementsContract
<1>1. Init => Contract!Init
  BY SMTT(30) DEF Init, Contract!Init, Committed
<1>2. DeliveryInv /\ DeliveryInv' /\ [Next]_vars =>
        [Contract!Next]_<<{x \in Rows : row[x] \in Committed}, log,
                          {x \in Rows : row[x] \in {"published", "deleted"}}>>
  BY ContractStep
<1> QED  BY <1>1, <1>2, Delivery, PTL DEF Spec, ImplementsContract, Contract!Spec

-----------------------------------------------------------------------------
(* The window after a lost lock session.                                   *)

\* A former leader with a batch to its name still believes it leads, does not
\* hold the lock, and is not about to claim: every way to "claim" passes
\* through ensureLeader, which sends it home.
StaleAt(r) ==
    /\ stale[r] <= 1
    /\ stale[r] = 1 => r \in conn /\ ~HoldsLock(r) /\ pc[r] # "claim"
    /\ r \in conn \/ pc[r] = "verify" => SingleActive
    /\ SingleActive /\ pc[r] \in {"claim", "verify"} \cup Busy => r \in conn

StaleInv == TypeOK /\ \A r \in Relays : StaleAt(r)

\* Every step of the system keeps it.
LEMMA StaleStep == StaleInv /\ [Next]_vars => StaleInv'
<1> SUFFICES ASSUME StaleInv, [Next]_vars PROVE StaleInv'
  OBVIOUS
<1>0. TypeOK'
  BY TypeStep DEF StaleInv
<1>t. TypeOK
  BY DEF StaleInv
<1> SUFFICES ASSUME NEW q \in Relays PROVE StaleAt(q)'
  BY <1>0 DEF StaleInv
<1>q. StaleAt(q) /\ RelayShard[q] \in Shards /\ NoRelay # q /\ stale[q] \in Nat
  BY <1>t, OutboxAssumption DEF StaleInv, TypeOK
<1> USE DEF table, loop, leading, HoldsLock
\* Steps that leave leadership and the loop alone.
<1>1. ASSUME UNCHANGED <<pc, leading>> PROVE StaleAt(q)'
  BY SMTT(30), <1>1, <1>q DEF StaleAt
\* Steps in which r moves to a place that is not "claim".
<1>2. ASSUME NEW r \in Relays, NEW place \in Place, Goto(r, place),
             UNCHANGED leading, place # "claim",
             place \in {"verify"} \cup Busy => pc[r] \in Busy,
             place = "verify" => SingleActive
      PROVE  StaleAt(q)'
  BY <1>2, <1>t, <1>q DEF StaleAt, Goto, TypeOK
\* ensureLeader.
<1>3. ASSUME NEW r \in Relays, EnsureLeader(r, "claim", "idle"), SingleActive
      PROVE  StaleAt(q)'
  <2>1. CASE r \in conn /\ HoldsLock(r) /\ Goto(r, "claim") /\ UNCHANGED leading
    BY SMTT(30), <2>1, <1>t, <1>q, <1>3 DEF StaleAt, Goto, TypeOK, Busy
  <2>2. CASE /\ r \in conn /\ Goto(r, "idle") /\ conn' = conn \ {r} /\ holder' = holder
             /\ stale' = [stale EXCEPT ![r] = 0]
    BY SMT, <2>2, <1>t, <1>q DEF StaleAt, Goto, TypeOK, Busy
  <2>3. CASE /\ r \in conn /\ HoldsLock(r) /\ Goto(r, "idle") /\ conn' = conn \ {r}
             /\ Release(r) /\ stale' = stale
    BY <2>3, <1>t, <1>q DEF StaleAt, Goto, Release, TypeOK, Busy
  <2>4. CASE /\ r \notin conn /\ Goto(r, "claim") /\ conn' = conn \cup {r}
             /\ holder' = [holder EXCEPT ![RelayShard[r]] = r] /\ stale' = stale
    <3>1. holder'[RelayShard[q]] = holder[RelayShard[q]] \/ holder'[RelayShard[q]] = r
      BY <2>4, <1>t, <1>q DEF TypeOK
    <3>2. CASE q = r
      BY <2>4, <1>t, <1>q, <1>3, <3>2 DEF StaleAt, Goto, TypeOK
    <3>3. CASE q # r
      BY SMTT(30), <2>4, <1>t, <1>q, <3>1, <3>3 DEF StaleAt, Goto, TypeOK
    <3> QED  BY <3>2, <3>3
  <2>5. CASE r \notin conn /\ Goto(r, "idle") /\ UNCHANGED leading
    BY <2>5, <1>t, <1>q DEF StaleAt, Goto, TypeOK, Busy
  <2> QED  BY ZenonT(30), <1>3, <2>1, <2>2, <2>3, <2>4, <2>5 DEF EnsureLeader
<1>4. ASSUME NEW r \in Relays, Tick(r) PROVE StaleAt(q)'
  <2>1. CASE SingleActive
    BY <1>3, <1>4, <2>1 DEF Tick
  <2>2. CASE ~SingleActive
    BY <1>4, <2>2, <1>t, <1>q DEF Tick, StaleAt, Goto, TypeOK
  <2> QED  BY <2>1, <2>2
<1>5. ASSUME NEW r \in Relays, Verify(r) PROVE StaleAt(q)'
  BY <1>3, <1>5 DEF Verify, StaleInv, StaleAt
<1>6. ASSUME NEW r \in Relays, Claim(r) PROVE StaleAt(q)'
  <2>1. PICK b \in FetchUnpublished(r) :
           /\ Goto(r, IF b = <<>> THEN "idle" ELSE "claimed")
           /\ stale' = [stale EXCEPT ![r] =
                           IF SingleActive /\ ~HoldsLock(r) /\ b # <<>>
                           THEN stale[r] + 1 ELSE stale[r]]
    BY ZenonT(30), <1>6 DEF Claim
  <2>2. pc[r] = "claim" /\ UNCHANGED <<conn, holder>>
    BY ZenonT(30), <1>6 DEF Claim
  <2>3. CASE q # r
    BY <1>t, <1>q, <2>1, <2>2, <2>3 DEF StaleAt, Goto, TypeOK
  <2>4. CASE q = r
    <3>1. stale[q] = 0
      BY SMT, <1>q, <2>2, <2>4 DEF StaleAt
    <3>2. CASE SingleActive /\ ~HoldsLock(r) /\ b # <<>>
      BY SMT, <1>t, <1>q, <2>1, <2>2, <2>4, <3>1, <3>2 DEF StaleAt, Goto, TypeOK, Busy
    <3>3. CASE ~(SingleActive /\ ~HoldsLock(r) /\ b # <<>>)
      BY <1>t, <1>q, <2>1, <2>2, <2>4, <3>1, <3>3 DEF StaleAt, Goto, TypeOK, Busy
    <3> QED  BY <3>2, <3>3
  <2> QED  BY <2>3, <2>4
<1>7. ASSUME NEW r \in Relays,
             ClaimCommit(r) \/ PublishDone(r) \/ ProcessBatchError(r) \/ Start(r)
      PROVE  StaleAt(q)'
  <2>1. PICK place \in {"publish", "mark", "idle"} : Goto(r, place)
    BY SMTT(30), <1>7 DEF ClaimCommit, PublishDone, ProcessBatchError, Start, Return
  <2>2. UNCHANGED leading /\ (place # "idle" => pc[r] \in Busy)
    BY <1>7, <1>t, <2>1
    DEF ClaimCommit, PublishDone, ProcessBatchError, Start, Return, Goto, Busy, TypeOK
  <2> QED  BY <1>2, <2>1, <2>2 DEF Place, Busy
<1>8. ASSUME NEW r \in Relays, MarkPublishedBatch(r) PROVE StaleAt(q)'
  <2>1. pc[r] = "mark" /\ UNCHANGED leading
    BY <1>8 DEF MarkPublishedBatch
  <2> QED
    BY ZenonT(30), <1>8, <1>2, <1>t, <1>q, <2>1
    DEF MarkPublishedBatch, Return, Goto, TypeOK, Place, Busy, StaleAt
<1>9. ASSUME NEW r \in Relays, LoseSession(r) PROVE StaleAt(q)'
  <2>1. /\ r \in conn /\ HoldsLock(r) /\ Release(r)
        /\ stale' = [stale EXCEPT ![r] = IF pc[r] \in Busy THEN 1 ELSE 0]
        /\ UNCHANGED <<pc, conn>>
    BY ZenonT(30), <1>9 DEF LoseSession
  <2>2. holder'[RelayShard[q]] = holder[RelayShard[q]] \/ holder'[RelayShard[q]] = NoRelay
    BY SMTT(30), <1>t, <1>q, <2>1 DEF Release
  <2>3. CASE q # r
    BY ZenonT(30), <1>t, <1>q, <2>1, <2>2, <2>3 DEF StaleAt, TypeOK
  <2>4. CASE q = r
    <3>1. holder'[RelayShard[q]] # q /\ q \in conn'
      BY <1>q, <2>1, <2>4 DEF Release
    <3>2. stale'[q] = (IF pc[q] \in Busy THEN 1 ELSE 0) /\ stale'[q] <= 1 /\ pc'[q] = pc[q]
      BY SMT, <1>t, <2>1, <2>4 DEF TypeOK
    <3>3. stale'[q] = 1 => pc'[q] # "claim"
      BY SMT, <3>2 DEF Busy
    <3>4. SingleActive
      BY <1>q, <2>1, <2>4 DEF StaleAt
    <3> QED  BY <3>1, <3>2, <3>3, <3>4 DEF StaleAt
  <2> QED  BY <2>3, <2>4
<1>10. ASSUME NEW r \in Relays, Stop(r) \/ Crash(r) PROVE StaleAt(q)'
  <2>1. /\ Goto(r, "stopped") /\ conn' = conn \ {r} /\ Release(r)
        /\ stale' = [stale EXCEPT ![r] = 0]
    BY SMTT(30), <1>10 DEF Stop, Crash, Return
  <2>2. holder'[RelayShard[q]] = holder[RelayShard[q]] \/ holder'[RelayShard[q]] = NoRelay
    BY SMTT(30), <1>t, <1>q, <2>1 DEF Release
  <2>3. CASE q # r
    <3>1. stale'[q] = stale[q] /\ pc'[q] = pc[q]
      BY <1>t, <2>1, <2>3 DEF Goto, TypeOK
    <3>2. ~HoldsLock(q) => ~HoldsLock(q)'
      BY <1>q, <2>2
    <3>3. q \in conn' <=> q \in conn
      BY <2>1, <2>3
    <3> QED  BY <1>q, <3>1, <3>2, <3>3 DEF StaleAt
  <2>4. CASE q = r
    <3>1. stale'[q] = 0 /\ q \notin conn' /\ pc'[q] = "stopped"
      BY <1>t, <2>1, <2>4 DEF Goto, TypeOK
    <3>2. stale'[q] <= 1 /\ stale'[q] # 1
      BY SMT, <3>1
    <3>3. pc'[q] \notin {"claim", "verify"} \cup Busy /\ pc'[q] # "verify"
      BY <3>1 DEF Busy
    <3> QED  BY <3>1, <3>2, <3>3 DEF StaleAt
  <2> QED  BY <2>3, <2>4
<1>11. CASE \/ \E S \in SUBSET Rows : Enqueue(S) \/ Cleanup(S)
            \/ RunInTx \/ BackendExit \/ UNCHANGED vars
            \/ \E r \in Relays : Publish(r)
  <2>1. UNCHANGED <<pc, leading>>
    BY <1>11 DEF Enqueue, Cleanup, RunInTx, EndTx, BackendExit, vars, Publish
  <2> QED  BY <1>1, <2>1
<1> QED
  BY <1>4, <1>5, <1>6, <1>7, <1>8, <1>9, <1>10, <1>11 DEF Next, RelayStep

\* A relay whose lock session died handles at most one more batch: drain and
\* Run never start another without ensureLeader.
THEOREM FencingWindow == Spec => []OneStaleBatch
<1>1. Init => StaleInv
  BY SMT DEF Init, StaleInv, StaleAt, TypeOK, RowState, Committed, Place, Busy
<1>2. StaleInv /\ [Next]_vars => StaleInv'
  BY StaleStep
<1>3. StaleInv => OneStaleBatch
  BY DEF StaleInv, StaleAt, OneStaleBatch
<1> QED  BY <1>1, <1>2, <1>3, PTL DEF Spec

-----------------------------------------------------------------------------
(* The order of a leader's events.  CausalOrder compares first positions;  *)
(* LogOrder, which implies it, is what one appended record preserves.      *)

\* A transaction began after everything it comes after had committed.
TimesInv ==
    /\ \A x \in Rows : row[x] # "none" => createdAt[x] < clock
    /\ \A x \in Rows : \A y \in before[x] :
         row[x] # "none" /\ row[y] \in Committed /\ createdAt[y] < createdAt[x]

\* A relay at work was elected or is known not to be.
WorksAt(r) == pc[r] \in {"claim", "verify"} \cup Busy => SingleActive \/ r \in unfenced

\* It has a batch of its own shard in phases A to C only, and a record that phase
\* B has been at has landed or its key is given up.
HandsAt(r) ==
    /\ pc[r] \notin Busy => batch[r] = <<>>
    /\ \A i \in 1..Len(batch[r]) :
         /\ ShardOf[Aggregate[batch[r][i]]] = RelayShard[r]
         /\ i < next[r] => batch[r][i] \in Landed \/ Aggregate[batch[r][i]] \in rejected[r]

\* What comes before a record of the batch has landed or is in front of it.
BatchOrder(r) ==
    \A i \in 1..Len(batch[r]) : \A y \in before[batch[r][i]] :
        Aggregate[y] = Aggregate[batch[r][i]] =>
            y \in Landed \/ \E j \in 1..i - 1 : batch[r][j] = y

LogOrder ==
    \A k \in 1..Len(log) : \A y \in before[log[k]] :
        Aggregate[y] = Aggregate[log[k]] => \E j \in 1..k - 1 : log[j] = y

\* As long as no session was lost, whoever believes to lead does.
Fenced ==
    /\ lingering = {}
    /\ \A r \in conn : HoldsLock(r)
    /\ \A r \in Relays : BatchOrder(r)
    /\ LogOrder

LeadInv ==
    /\ DeliveryInv /\ StaleInv /\ TimesInv
    /\ \A r \in Relays : WorksAt(r) /\ HandsAt(r)
    /\ unfenced = {} => Fenced

\* Only Enqueue touches the times of a row, and only of a new one.
LEMMA TimesSteps ==
    ASSUME TypeOK, [Next]_vars
    PROVE  \/ \E S \in SUBSET Rows : Enqueue(S)
           \/ /\ UNCHANGED <<createdAt, clock, before>>
              /\ \A x \in Rows : row'[x] = "none" <=> row[x] = "none"
<1> USE DEF table, loop, leading
<1>1. ASSUME RunInTx
      PROVE  /\ UNCHANGED <<createdAt, clock, before>>
             /\ \A x \in Rows : row'[x] = "none" <=> row[x] = "none"
  BY <1>1 DEF RunInTx, EndTx
<1>2. ASSUME NEW r \in Relays, MarkPublishedBatch(r) \/ ProcessBatchError(r)
      PROVE  /\ UNCHANGED <<createdAt, clock, before>>
             /\ \A x \in Rows : row'[x] = "none" <=> row[x] = "none"
  BY <1>2 DEF MarkPublishedBatch, ProcessBatchError, MarkPublished
<1>3. ASSUME NEW S \in SUBSET Rows, Cleanup(S)
      PROVE  /\ UNCHANGED <<createdAt, clock, before>>
             /\ \A x \in Rows : row'[x] = "none" <=> row[x] = "none"
  BY <1>3 DEF Cleanup
<1>4. ASSUME NEW r \in Relays,
             \/ Tick(r) \/ Claim(r) \/ ClaimCommit(r) \/ Publish(r) \/ PublishDone(r)
             \/ Verify(r) \/ Start(r) \/ LoseSession(r) \/ Stop(r) \/ Crash(r)
      PROVE  UNCHANGED table
  BY <1>4 DEF Tick, Claim, ClaimCommit, Publish, PublishDone, Verify, Start, LoseSession,
              Stop, Crash
<1>5. CASE BackendExit \/ UNCHANGED vars
  BY <1>5 DEF BackendExit, vars
<1> QED
  BY <1>1, <1>2, <1>3, <1>4, <1>5 DEF Next, RelayStep

LEMMA TimesStep ==
    ASSUME TypeOK, TimesInv, [Next]_vars
    PROVE  /\ TimesInv'
           /\ \A x \in Rows : row[x] # "none" => before'[x] = before[x]
<1>1. CASE /\ UNCHANGED <<createdAt, clock, before>>
           /\ \A x \in Rows : row'[x] = "none" <=> row[x] = "none"
  BY <1>1, Grows DEF TimesInv, TypeOK
<1>2. ASSUME NEW S \in SUBSET Rows, Enqueue(S)
      PROVE  /\ TimesInv'
             /\ \A x \in Rows : row[x] # "none" => before'[x] = before[x]
  <2>1. /\ \A x \in S : /\ row[x] = "none" /\ row'[x] = "open" /\ createdAt'[x] = clock
                        /\ before'[x] = {y \in Rows : row[y] \in Committed}
        /\ \A x \in Rows \ S : /\ row'[x] = row[x] /\ createdAt'[x] = createdAt[x]
                               /\ before'[x] = before[x]
        /\ clock' = clock + 1
    BY <1>2 DEF Enqueue
  <2>2. ASSUME NEW x \in Rows, row'[x] # "none" PROVE createdAt'[x] < clock'
    <3>1. clock \in Nat /\ createdAt[x] \in Nat
      BY DEF TypeOK
    <3>2. CASE x \in S
      BY SMT, <2>1, <3>1, <3>2
    <3>3. CASE x \notin S
      <4>1. createdAt[x] < clock
        BY <2>1, <2>2, <3>3 DEF TimesInv
      <4> QED  BY SMT, <2>1, <3>1, <3>3, <4>1
    <3> QED  BY <3>2, <3>3
  <2>3. ASSUME NEW x \in Rows, NEW y \in before'[x]
        PROVE  row'[x] # "none" /\ row'[y] \in Committed /\ createdAt'[y] < createdAt'[x]
    <3>1. CASE x \in S
      <4>1. y \in Rows /\ row[y] \in Committed /\ y \notin S
        BY <2>1, <2>3, <3>1 DEF Committed
      <4> QED  BY SMT, <2>1, <3>1, <4>1 DEF TimesInv, TypeOK, Committed
    <3>2. CASE x \notin S
      <4>1. y \in before[x] /\ y \in Rows /\ row[y] \in Committed
        BY <2>1, <2>3, <3>2 DEF TimesInv, TypeOK
      <4>2. y \notin S
        BY <2>1, <4>1 DEF Committed
      <4> QED  BY <2>1, <3>2, <4>1, <4>2 DEF TimesInv
    <3> QED  BY <3>1, <3>2
  <2> QED  BY <2>1, <2>2, <2>3 DEF TimesInv
<1> QED  BY <1>1, <1>2, TimesSteps

\* What a step does to the batch of relay q.
LEMMA HandsSteps ==
    ASSUME TypeOK, [Next]_vars, NEW q \in Relays
    PROVE  \/ /\ batch'[q] = batch[q] /\ next'[q] = next[q] /\ rejected'[q] = rejected[q]
              /\ pc[q] \in Busy => pc'[q] \in Busy
           \/ batch'[q] = <<>>
           \/ Claim(q)
           \/ Publish(q)
<1> USE DEF table, loop, leading
<1> DEFINE Same == /\ batch'[q] = batch[q] /\ next'[q] = next[q] /\ rejected'[q] = rejected[q]
                   /\ pc[q] \in Busy => pc'[q] \in Busy
<1>1. ASSUME UNCHANGED loop PROVE Same
  BY <1>1
<1>2. ASSUME NEW r \in Relays, NEW place \in Place, Return(r, place)
      PROVE  Same \/ batch'[q] = <<>>
  BY <1>2 DEF Return, Goto, TypeOK
<1>3. ASSUME NEW r \in Relays, NEW place \in Place, Goto(r, place),
             UNCHANGED <<batch, next, rejected>>, pc[r] \in Busy => place \in Busy
      PROVE  Same
  BY <1>3 DEF Goto, TypeOK
<1>4. ASSUME NEW r \in Relays, Tick(r) \/ Verify(r) \/ ClaimCommit(r) \/ Stop(r) \/ Start(r)
      PROVE  Same
  <2>1. PICK place \in Place : Goto(r, place)
    BY <1>4 DEF Tick, Verify, ClaimCommit, Stop, Start, EnsureLeader, Place, Busy
  <2>2. UNCHANGED <<batch, next, rejected>>
    BY <1>4 DEF Tick, Verify, ClaimCommit, Stop, Start
  <2>3. pc[r] \in Busy => place \in Busy
    BY <1>4, <2>1 DEF Tick, Verify, ClaimCommit, Stop, Start, Busy, Goto, TypeOK
  <2> QED  BY <1>3, <2>1, <2>2, <2>3
<1>5. ASSUME NEW r \in Relays, Claim(r) \/ Publish(r)
      PROVE  Same \/ Claim(q) \/ Publish(q)
  <2>1. CASE r = q
    BY <1>5, <2>1
  <2>2. CASE r # q
    BY <1>5, <2>2 DEF Claim, Publish, Goto, TypeOK
  <2> QED  BY <2>1, <2>2
<1>6. ASSUME NEW r \in Relays, PublishDone(r) PROVE Same \/ batch'[q] = <<>>
  <2>1. CASE Goto(r, "mark") /\ UNCHANGED <<batch, next, rejected>>
    BY <1>3, <2>1 DEF Place, Busy
  <2>2. CASE Return(r, "idle")
    BY <1>2, <2>2 DEF Place
  <2> QED  BY <1>6, <2>1, <2>2 DEF PublishDone
<1>7. ASSUME NEW r \in Relays, MarkPublishedBatch(r) \/ ProcessBatchError(r) \/ Crash(r)
      PROVE  Same \/ batch'[q] = <<>>
  <2>1. \E place \in Place : Return(r, place)
    BY <1>7 DEF MarkPublishedBatch, ProcessBatchError, Crash, Place
  <2> QED  BY <1>2, <2>1
<1>8. ASSUME \/ \E S \in SUBSET Rows : Enqueue(S) \/ Cleanup(S)
             \/ RunInTx \/ BackendExit \/ UNCHANGED vars
             \/ \E r \in Relays : LoseSession(r)
      PROVE  Same
  BY <1>1, <1>8 DEF Enqueue, Cleanup, RunInTx, EndTx, BackendExit, vars, LoseSession
<1> QED
  BY <1>4, <1>5, <1>6, <1>7, <1>8 DEF Next, RelayStep

\* What a claim fetches is of the relay's shard, comes in the order of its times
\* and leaves nothing older behind.
LEMMA FetchShard ==
    ASSUME NEW r \in Relays, NEW b \in FetchUnpublished(r)
    PROVE  \A i \in 1..Len(b) : ShardOf[Aggregate[b[i]]] = RelayShard[r]
<1>1. PICK n \in 0..BatchSize : b \in [1..n -> Unpublished(r) \ Locked]
  BY DEF FetchUnpublished, Limited
<1>2. n \in Nat
  BY SMT, <1>1, OutboxAssumption
<1>3. Len(b) = n
  BY SMT, <1>1, <1>2
<1> QED  BY <1>1, <1>3 DEF Unpublished

LEMMA HandsStep ==
    ASSUME DeliveryInv, [Next]_vars, NEW q \in Relays, HandsAt(q)
    PROVE  HandsAt(q)'
<1>t. TypeOK /\ TypeOK' /\ Landed \subseteq Landed'
  BY Grows, TypeStep DEF DeliveryInv
<1>0. batch[q] \in Seq(Rows) /\ next[q] \in Nat /\ Len(batch[q]) \in Nat
  BY SMT, <1>t DEF TypeOK
<1>1. CASE /\ batch'[q] = batch[q] /\ next'[q] = next[q] /\ rejected'[q] = rejected[q]
           /\ pc[q] \in Busy => pc'[q] \in Busy
  BY SMT, <1>t, <1>1 DEF HandsAt
<1>2. CASE batch'[q] = <<>>
  BY SMT, <1>2 DEF HandsAt
<1>3. CASE Claim(q)
  <2>1. PICK b \in FetchUnpublished(q) :
           batch' = [batch EXCEPT ![q] = b] /\ Goto(q, IF b = <<>> THEN "idle" ELSE "claimed")
    BY <1>3 DEF Claim
  <2>2. next'[q] = 1
    BY <1>3 DEF Claim, DeliveryInv, FreshBatch
  <2>3. batch'[q] = b /\ pc'[q] = IF b = <<>> THEN "idle" ELSE "claimed"
    BY <1>t, <2>1 DEF TypeOK, Goto
  <2>4. b \in Seq(Rows) /\ Len(b) \in Nat
    BY SMT, <2>1, FetchType
  <2>5. \A i \in 1..Len(b) : ShardOf[Aggregate[b[i]]] = RelayShard[q]
    BY <2>1, FetchShard
  <2>6. \A i \in 1..Len(b) : ~(i < next'[q])
    BY SMT, <2>2, <2>4
  <2>7. pc'[q] \notin Busy => batch'[q] = <<>>
    BY <2>3 DEF Busy
  <2> QED  BY <2>3, <2>5, <2>6, <2>7 DEF HandsAt
<1>4. CASE Publish(q)
  <2>1. /\ pc' = pc /\ batch' = batch /\ next'[q] = next[q] + 1 /\ next[q] \in 1..Len(batch[q])
    BY <1>4, <1>t, PublishRecord DEF Publish, TypeOK
  <2>2. PICK x \in Rows : x = batch[q][next[q]]
    BY <1>4, <1>t, PublishRecord
  <2>3. /\ rejected[q] \subseteq rejected'[q]
        /\ Aggregate[x] \in rejected'[q] \/ log' = Append(log, x)
    <3>1. CASE rejected' = rejected /\ log' = Append(log, x)
      BY <3>1
    <3>2. CASE Aggregate[x] \in rejected[q] /\ rejected' = rejected
      BY <3>2
    <3>3. ASSUME NEW K \in SUBSET Aggregates,
                 rejected' = [rejected EXCEPT ![q] = @ \cup K \cup {Aggregate[x]}]
          PROVE  rejected[q] \subseteq rejected'[q] /\ Aggregate[x] \in rejected'[q]
      BY <1>t, <3>3 DEF TypeOK
    <3> QED  BY <1>4, <2>2, <3>1, <3>2, <3>3 DEF Publish
  <2>4. x \in Landed' \/ Aggregate[x] \in rejected'[q]
    <3>1. log \in Seq(Rows)
      BY <1>t DEF TypeOK
    <3>2. Range(Append(log, x)) = Range(log) \cup {x}
      BY SMT, <3>1, RangeAppend
    <3> QED  BY <2>3, <3>2 DEF Landed
  <2>5. ASSUME NEW i \in 1..Len(batch[q]), i < next'[q]
        PROVE  batch[q][i] \in Landed' \/ Aggregate[batch[q][i]] \in rejected'[q]
    <3>1. i < next[q] \/ i = next[q]
      BY SMT, <1>0, <2>1, <2>5
    <3> QED  BY <1>t, <2>2, <2>3, <2>4, <3>1 DEF HandsAt
  <2> QED  BY <2>1, <2>5 DEF HandsAt
<1> QED  BY <1>1, <1>2, <1>3, <1>4, <1>t, HandsSteps

-----------------------------------------------------------------------------
(* Leadership.                                                             *)

\* While no session was lost, no lock outlives its relay's belief.
LEMMA UnfencedGrows ==
    ASSUME [Next]_vars PROVE unfenced \subseteq unfenced'
  BY DEF Next, RelayStep, vars, Enqueue, RunInTx, EndTx, Tick, Claim, ClaimCommit, Publish,
         PublishDone, MarkPublishedBatch, Verify, Start, ProcessBatchError, LoseSession, Stop,
         Crash, BackendExit, Cleanup

LEMMA WorksStep ==
    ASSUME TypeOK, [Next]_vars, NEW q \in Relays, WorksAt(q)
    PROVE  WorksAt(q)'
<1> USE DEF table, loop, leading
<1>1. ASSUME UNCHANGED pc PROVE WorksAt(q)'
  BY <1>1, UnfencedGrows DEF WorksAt
<1>2. ASSUME NEW r \in Relays, NEW place \in Place, Goto(r, place),
             \/ place \in {"idle", "stopped"} \/ SingleActive \/ r \in unfenced'
             \/ pc[r] \in {"claim", "verify"} \cup Busy
      PROVE  WorksAt(q)'
  <2>1. CASE q = r
    BY <1>2, <2>1, UnfencedGrows DEF WorksAt, Goto, TypeOK, Busy
  <2>2. CASE q # r
    BY <1>2, <2>2, UnfencedGrows DEF WorksAt, Goto, TypeOK
  <2> QED  BY <2>1, <2>2
<1>3. ASSUME NEW r \in Relays, Tick(r) PROVE WorksAt(q)'
  <2>1. SingleActive \/ r \in unfenced'
    BY <1>3 DEF Tick
  <2>2. Goto(r, "claim") \/ Goto(r, "idle")
    BY <1>3 DEF Tick, EnsureLeader
  <2> QED  BY <1>2, <2>1, <2>2 DEF Place
<1>4. ASSUME NEW r \in Relays, Verify(r) \/ Claim(r) \/ ClaimCommit(r) \/ PublishDone(r)
                               \/ MarkPublishedBatch(r) \/ ProcessBatchError(r)
      PROVE  WorksAt(q)'
  <2>1. pc[r] \in {"claim", "verify"} \cup Busy
    BY <1>4 DEF Verify, Claim, ClaimCommit, PublishDone, MarkPublishedBatch, ProcessBatchError,
                Busy
  <2>2. \E place \in Place : Goto(r, place)
    BY <1>4 DEF Verify, Claim, ClaimCommit, PublishDone, MarkPublishedBatch, ProcessBatchError,
                EnsureLeader, Return, Place, Busy
  <2> QED  BY <1>2, <2>1, <2>2
<1>5. ASSUME NEW r \in Relays, Start(r) \/ Stop(r) \/ Crash(r) PROVE WorksAt(q)'
  <2>1. Goto(r, "idle") \/ Goto(r, "stopped")
    BY <1>5 DEF Start, Stop, Crash, Return
  <2> QED  BY <1>2, <2>1 DEF Place
<1>6. ASSUME \/ \E S \in SUBSET Rows : Enqueue(S) \/ Cleanup(S)
             \/ RunInTx \/ BackendExit \/ UNCHANGED vars
             \/ \E r \in Relays : Publish(r) \/ LoseSession(r)
      PROVE  WorksAt(q)'
  <2>1. UNCHANGED pc
    BY <1>6 DEF Enqueue, Cleanup, RunInTx, EndTx, BackendExit, vars, Publish, LoseSession
  <2> QED  BY <1>1, <2>1
<1> QED
  BY <1>3, <1>4, <1>5, <1>6 DEF Next, RelayStep

LEMMA LocksKept ==
    ASSUME TypeOK, [Next]_vars, unfenced' = {}, lingering = {}, \A r \in conn : HoldsLock(r)
    PROVE  unfenced = {} /\ lingering' = {} /\ \A r \in conn' : HoldsLock(r)'
<1> USE DEF table, loop, leading, HoldsLock
<1>0. \A r \in conn : r \in Relays /\ RelayShard[r] \in Shards /\ r # NoRelay
  BY OutboxAssumption DEF TypeOK
<1>1. ASSUME UNCHANGED <<conn, holder, lingering, unfenced>>
      PROVE  unfenced = {} /\ lingering' = {} /\ \A r \in conn' : HoldsLock(r)'
  BY <1>1
<1>2. ASSUME NEW r \in Relays, conn' = conn \ {r}, Release(r)
      PROVE  \A q \in conn' : HoldsLock(q)'
  BY <1>0, <1>2 DEF Release, TypeOK
<1>3. ASSUME NEW r \in Relays, EnsureLeader(r, "claim", "idle"), UNCHANGED <<lingering, unfenced>>
      PROVE  unfenced = {} /\ lingering' = {} /\ \A q \in conn' : HoldsLock(q)'
  <2>1. CASE UNCHANGED <<conn, holder>>
    BY <1>1, <1>3, <2>1
  <2>2. CASE r \in conn /\ ~HoldsLock(r)
    BY <2>2
  <2>3. CASE conn' = conn \ {r} /\ Release(r)
    BY <1>2, <1>3, <2>3
  <2>4. CASE /\ holder[RelayShard[r]] = NoRelay /\ conn' = conn \cup {r}
             /\ holder' = [holder EXCEPT ![RelayShard[r]] = r]
    <3>1. holder'[RelayShard[r]] = r
      BY <2>4, OutboxAssumption DEF TypeOK
    <3>2. ASSUME NEW q \in conn PROVE holder'[RelayShard[q]] = q
      BY <1>0, <2>4 DEF TypeOK
    <3> QED  BY <1>3, <2>4, <3>1, <3>2
  <2> QED  BY <1>3, <2>1, <2>2, <2>3, <2>4 DEF EnsureLeader
<1>4. ASSUME NEW r \in Relays, Tick(r) \/ Verify(r)
      PROVE  unfenced = {} /\ lingering' = {} /\ \A q \in conn' : HoldsLock(q)'
  <2>1. UNCHANGED <<lingering, unfenced>>
    BY <1>4 DEF Tick, Verify
  <2>2. EnsureLeader(r, "claim", "idle") \/ UNCHANGED <<conn, holder>>
    BY <1>4 DEF Tick, Verify
  <2> QED  BY <1>1, <1>3, <2>1, <2>2
<1>5. ASSUME NEW r \in Relays, LoseSession(r) PROVE FALSE
  BY <1>5 DEF LoseSession
<1>6. ASSUME NEW r \in Relays, Stop(r) \/ Crash(r)
      PROVE  unfenced = {} /\ lingering' = {} /\ \A q \in conn' : HoldsLock(q)'
  <2>1. UNCHANGED <<lingering, unfenced>>
    BY <1>6 DEF Stop, Crash
  <2>2. conn' = conn \ {r} /\ Release(r)
    BY <1>6 DEF Stop, Crash
  <2> QED  BY <1>2, <2>1, <2>2
<1>7. ASSUME \/ \E S \in SUBSET Rows : Enqueue(S) \/ Cleanup(S)
             \/ RunInTx \/ UNCHANGED vars
             \/ \E r \in Relays : \/ Claim(r) \/ ClaimCommit(r) \/ Publish(r) \/ PublishDone(r)
                                  \/ MarkPublishedBatch(r) \/ Start(r) \/ ProcessBatchError(r)
      PROVE  UNCHANGED <<conn, holder, lingering, unfenced>>
  BY <1>7 DEF Enqueue, Cleanup, RunInTx, EndTx, vars, Claim, ClaimCommit, Publish,
              PublishDone, MarkPublishedBatch, Start, ProcessBatchError
<1>8. ASSUME BackendExit PROVE FALSE
  BY <1>8 DEF BackendExit
<1> QED
  BY <1>1, <1>4, <1>5, <1>6, <1>7, <1>8 DEF Next, RelayStep

\* Two relays at work are of different shards.
LEMMA OneAtWork ==
    ASSUME StaleInv, unfenced = {}, (\A r \in Relays : WorksAt(r)), \A r \in conn : HoldsLock(r),
           NEW q \in Relays, NEW r \in Relays, q # r,
           pc[q] \in {"claim", "verify"} \cup Busy, pc[r] \in {"claim", "verify"} \cup Busy
    PROVE  RelayShard[q] # RelayShard[r]
  BY SMT DEF StaleInv, StaleAt, WorksAt, HoldsLock

\* So nothing that a claiming relay could fetch is locked ...
LEMMA NothingLocked ==
    ASSUME LeadInv, unfenced = {}, NEW r \in Relays, pc[r] = "claim"
    PROVE  Unpublished(r) \cap Locked = {}
<1> SUFFICES ASSUME NEW x \in Unpublished(r), x \in Locked PROVE FALSE
  OBVIOUS
<1>1. /\ lingering = {} /\ (\A q \in conn : HoldsLock(q)) /\ StaleInv /\ TypeOK
      /\ \A q \in Relays : WorksAt(q)
  BY DEF LeadInv, Fenced, StaleInv
<1>2. PICK q \in Relays : pc[q] = "claimed" /\ x \in Range(batch[q])
  BY <1>1 DEF Locked
<1>3. PICK i \in 1..Len(batch[q]) : x = batch[q][i]
  BY SMT, <1>1, <1>2, RangeElements DEF TypeOK
<1>4. RelayShard[q] = ShardOf[Aggregate[x]]
  BY <1>3 DEF LeadInv, HandsAt
<1>5. RelayShard[q] # RelayShard[r]
  BY <1>1, <1>2, OneAtWork DEF Busy
<1> QED  BY <1>4, <1>5 DEF Unpublished

\* ... and a batch has in front of a record whatever comes before it.
LEMMA FetchOrder ==
    ASSUME LeadInv, unfenced = {}, NEW r \in Relays, pc[r] = "claim",
           NEW b \in FetchUnpublished(r), NEW i \in 1..Len(b), NEW y \in before[b[i]],
           Aggregate[y] = Aggregate[b[i]]
    PROVE  y \in Landed \/ \E j \in 1..i - 1 : b[j] = y
<1> SUFFICES ASSUME y \notin Landed PROVE \E j \in 1..i - 1 : b[j] = y
  OBVIOUS
<1>1. b \in Seq(Rows) /\ DOMAIN b = 1..Len(b) /\ Len(b) \in Nat /\ i \in Nat
  BY SMT, FetchType, LenProperties
<1>2. b[i] \in Rows /\ y \in Rows
  BY SMT, <1>1 DEF LeadInv, StaleInv, TypeOK
<1>3. row[y] \in Committed /\ createdAt[y] < createdAt[b[i]]
  BY <1>2 DEF LeadInv, TimesInv
<1>4. createdAt[y] \in Nat /\ createdAt[b[i]] \in Nat
  BY <1>2 DEF LeadInv, StaleInv, TypeOK
<1>5. row[y] = "unpublished"
  BY <1>2, <1>3 DEF LeadInv, DeliveryInv, MarkedIsLanded, Committed
<1>6. y \in Unpublished(r) \ Locked
  BY SMT, <1>2, <1>5, FetchShard, NothingLocked DEF Unpublished
<1>7. /\ \A k, j \in DOMAIN b : k < j => createdAt[b[k]] <= createdAt[b[j]]
      /\ \A k \in DOMAIN b : \A x \in (Unpublished(r) \ Locked) \ Range(b) :
           createdAt[b[k]] <= createdAt[x]
  BY DEF FetchUnpublished
<1>8. y \in Range(b)
  BY SMT, <1>1, <1>3, <1>4, <1>6, <1>7
<1>9. PICK j \in 1..Len(b) : b[j] = y
  BY SMT, <1>1, <1>8, RangeElements
<1>10. ~(i < j) /\ j # i
  BY SMT, <1>1, <1>3, <1>4, <1>7, <1>9
<1> QED  BY SMT, <1>1, <1>9, <1>10

LEMMA BatchOrderStep ==
    ASSUME LeadInv, [Next]_vars, unfenced = {}, NEW q \in Relays
    PROVE  BatchOrder(q)'
<1>t. TypeOK /\ Landed \subseteq Landed' /\ BatchOrder(q)
  BY Grows DEF LeadInv, StaleInv, Fenced
<1>0. \A x \in Rows : row[x] # "none" => before'[x] = before[x]
  BY <1>t, TimesStep DEF LeadInv
<1>1. ASSUME batch'[q] = batch[q] PROVE BatchOrder(q)'
  <2> SUFFICES ASSUME NEW i \in 1..Len(batch[q]), NEW y \in before'[batch[q][i]],
                      Aggregate[y] = Aggregate[batch[q][i]]
               PROVE  y \in Landed' \/ \E j \in 1..i - 1 : batch[q][j] = y
    BY SMT, <1>1 DEF BatchOrder
  <2>1. batch[q][i] \in Rows /\ row[batch[q][i]] # "none"
    <3>1. batch[q] \in Seq(Rows)
      BY <1>t DEF TypeOK
    <3>2. row[batch[q][i]] \in Committed
      BY DEF LeadInv, DeliveryInv, BatchCommitted
    <3> QED  BY <3>1, <3>2, ElementOfSeq DEF Committed
  <2>2. y \in before[batch[q][i]]
    BY <1>0, <2>1
  <2> QED  BY <1>t, <2>2 DEF BatchOrder
<1>2. CASE batch'[q] = <<>>
  BY SMT, <1>2 DEF BatchOrder
<1>3. CASE Claim(q)
  <2>1. PICK b \in FetchUnpublished(q) : batch' = [batch EXCEPT ![q] = b]
    BY <1>3 DEF Claim
  <2>2. pc[q] = "claim" /\ before' = before /\ batch'[q] = b /\ Landed' = Landed
    BY <1>3, <1>t, <2>1 DEF Claim, table, TypeOK, Landed
  <2>3. \A i \in 1..Len(b) : \A y \in before[b[i]] : Aggregate[y] = Aggregate[b[i]] =>
            y \in Landed \/ \E j \in 1..i - 1 : b[j] = y
    BY <2>1, <2>2, FetchOrder
  <2> QED  BY SMT, <2>2, <2>3 DEF BatchOrder
<1>4. CASE Publish(q)
  BY <1>1, <1>4 DEF Publish
<1> QED  BY <1>1, <1>2, <1>3, <1>4, <1>t, HandsSteps

\* The record phase B appends comes after what it should.
LEMMA LogOrderStep ==
    ASSUME LeadInv, [Next]_vars, unfenced = {}
    PROVE  LogOrder'
<1>t. TypeOK /\ LogOrder /\ TimesInv /\ OnlyCommittedLands /\ log \in Seq(Rows)
  BY DEF LeadInv, StaleInv, Fenced, DeliveryInv, TypeOK
<1>0. \A x \in Rows : row[x] # "none" => before'[x] = before[x]
  BY <1>t, TimesStep
<1>1. ASSUME NEW k \in 1..Len(log), NEW y \in before'[log[k]], Aggregate[y] = Aggregate[log[k]]
      PROVE  \E j \in 1..k - 1 : log[j] = y
  <2>1. log[k] \in Rows /\ log[k] \in Landed
    BY SMT, <1>t, RangeElements DEF Landed
  <2>2. row[log[k]] # "none"
    BY <1>t, <2>1 DEF OnlyCommittedLands, Committed
  <2> QED  BY <1>t, <1>0, <1>1, <2>1, <2>2 DEF LogOrder
<1>2. CASE log' = log
  BY SMT, <1>1, <1>2 DEF LogOrder
<1>3. ASSUME NEW r \in Relays, Publish(r), log' # log PROVE LogOrder'
  <2>1. PICK x \in Rows : x = batch[r][next[r]]
    BY <1>3, <1>t, PublishRecord
  <2>2. next[r] \in 1..Len(batch[r]) /\ log' = Append(log, x) /\ Aggregate[x] \notin rejected[r]
    BY <1>3, <1>t, <2>1, PublishRecord DEF Publish
  <2>3. before' = before
    BY <1>3 DEF Publish, table
  <2>4. ASSUME NEW y \in before[x], Aggregate[y] = Aggregate[x]
        PROVE  \E j \in 1..Len(log) : log[j] = y
    <3>1. y \in Landed \/ \E j \in 1..next[r] - 1 : batch[r][j] = y
      BY <2>1, <2>2, <2>4 DEF LeadInv, Fenced, BatchOrder
    <3>2. ASSUME NEW j \in 1..next[r] - 1, batch[r][j] = y PROVE y \in Landed
      <4>1. j \in 1..Len(batch[r]) /\ j < next[r]
        BY SMT, <1>t, <2>2 DEF TypeOK
      <4> QED  BY <2>2, <2>4, <3>2, <4>1 DEF LeadInv, HandsAt
    <3>3. y \in Landed
      BY <3>1, <3>2
    <3> QED  BY <1>t, <3>3, RangeElements DEF Landed
  <2>5. /\ Len(log') = Len(log) + 1 /\ Len(log) \in Nat /\ log'[Len(log) + 1] = x
        /\ \A j \in 1..Len(log) : log'[j] = log[j]
    BY SMT, <1>t, <2>2, AppendProperties
  <2>6. ASSUME NEW k \in 1..Len(log'), NEW y \in before'[log'[k]],
               Aggregate[y] = Aggregate[log'[k]]
        PROVE  \E j \in 1..k - 1 : log'[j] = y
    <3>1. CASE k = Len(log) + 1
      <4>1. PICK j \in 1..Len(log) : log[j] = y
        BY <2>3, <2>4, <2>5, <2>6, <3>1
      <4> QED  BY SMT, <2>5, <3>1, <4>1
    <3>2. CASE k # Len(log) + 1
      <4>1. k \in 1..Len(log) /\ log'[k] = log[k]
        BY SMT, <2>5, <3>2
      <4>2. PICK j \in 1..k - 1 : log[j] = y
        BY SMT, <1>1, <2>6, <4>1
      <4> QED  BY SMT, <2>5, <4>1, <4>2
    <3> QED  BY <3>1, <3>2
  <2> QED  BY <2>6 DEF LogOrder
<1>4. log' = log \/ \E r \in Relays : Publish(r)
  BY DEF Next, RelayStep, vars, Enqueue, RunInTx, EndTx, Tick, Claim, ClaimCommit, PublishDone,
         MarkPublishedBatch, Verify, Start, ProcessBatchError, LoseSession, Stop, Crash,
         BackendExit, Cleanup
<1> QED  BY <1>2, <1>3, <1>4

LEMMA LeadStep == LeadInv /\ [Next]_vars => LeadInv'
<1> SUFFICES ASSUME LeadInv, [Next]_vars PROVE LeadInv'
  OBVIOUS
<1>1. DeliveryInv' /\ StaleInv' /\ TypeOK
  BY DeliveryStep, StaleStep DEF LeadInv, StaleInv
<1>2. TimesInv'
  BY <1>1, TimesStep DEF LeadInv
<1>3. \A r \in Relays : WorksAt(r)' /\ HandsAt(r)'
  BY <1>1, WorksStep, HandsStep DEF LeadInv
<1>4. ASSUME unfenced' = {} PROVE Fenced'
  <2>1. unfenced = {}
    BY <1>1, <1>4, UnfencedGrows
  <2>2. Fenced
    BY <1>4, <2>1 DEF LeadInv
  <2>3. lingering' = {} /\ \A r \in conn' : HoldsLock(r)'
    BY <1>1, <1>4, <2>2, LocksKept DEF Fenced
  <2>4. \A r \in Relays : BatchOrder(r)'
    BY <1>4, <2>1, BatchOrderStep
  <2>5. LogOrder'
    BY <1>4, <2>1, LogOrderStep
  <2> QED  BY <2>3, <2>4, <2>5 DEF Fenced
<1> QED  BY <1>1, <1>2, <1>3, <1>4 DEF LeadInv

LEMMA LeadInit == Init => LeadInv
<1> SUFFICES ASSUME Init PROVE LeadInv
  OBVIOUS
<1>1. log = <<>> /\ Len(log) = 0 /\ \A r \in Relays : batch[r] = <<>> /\ Len(batch[r]) = 0
  BY DEF Init
<1>2. TypeOK
  BY SMT DEF Init, TypeOK, RowState, Committed, Place, Busy
<1>3. DeliveryInv
  <2>0. Range(log) = {log[i] : i \in 1..Len(log)}
    BY <1>2, RangeElements DEF TypeOK
  <2>1. Landed = {}
    BY SMT, <1>1, <2>0 DEF Landed
  <2> QED
    BY SMT, <1>1, <1>2, <2>1 DEF Init, DeliveryInv, BatchCommitted, FreshBatch, SentLanded, MarkReady,
                        MarkedIsLanded, OnlyCommittedLands, Committed
<1>4. StaleInv
  BY SMT, <1>2 DEF Init, StaleInv, StaleAt, Busy
<1>5. TimesInv /\ \A r \in Relays : WorksAt(r) /\ HandsAt(r)
  BY SMT, <1>1 DEF Init, TimesInv, WorksAt, HandsAt, Busy
<1>6. Fenced
  BY SMT, <1>1 DEF Init, Fenced, BatchOrder, LogOrder
<1> QED  BY <1>3, <1>4, <1>5, <1>6 DEF LeadInv

-----------------------------------------------------------------------------
(* From positions to first positions.                                      *)

INSTANCE WellFoundedInduction

Below == {p \in Nat \X Nat : p[1] < p[2]}

LEMMA Least ==
    ASSUME NEW T \in SUBSET Nat, NEW n \in T
    PROVE  \E m \in T : \A k \in T : m <= k
<1>1. IsWellFoundedOn(Below, Nat)
  BY NatLessThanWellFounded DEF OpToRel, Below
<1>2. PICK m \in T : \A k \in T : ~(<<k, m>> \in Below)
  BY <1>1, WFMin
<1>3. ASSUME NEW k \in T PROVE m <= k
  <2>1. k \in Nat /\ m \in Nat /\ <<k, m>> \in Nat \X Nat /\ <<k, m>>[1] = k /\ <<k, m>>[2] = m
    OBVIOUS
  <2>2. k < m => <<k, m>> \in Below
    BY <2>1 DEF Below
  <2> QED  BY SMT, <1>2, <2>1, <2>2
<1> QED  BY <1>3

LEMMA FirstIs ==
    ASSUME log \in Seq(Rows), NEW x \in Landed
    PROVE  /\ First(x) \in 1..Len(log) /\ log[First(x)] = x
           /\ \A j \in 1..Len(log) : log[j] = x => First(x) <= j
<1> DEFINE T == {i \in 1..Len(log) : log[i] = x}
<1>1. DOMAIN log = 1..Len(log) /\ Len(log) \in Nat
  BY LenProperties
<1>2. PICK i \in T : TRUE
  BY SMT, RangeElements DEF Landed
<1>3. T \in SUBSET Nat
  BY SMT, <1>1
<1>4. PICK m \in T : \A k \in T : m <= k
  BY <1>2, <1>3, Least
<1>5. m \in DOMAIN log /\ log[m] = x /\ \A j \in DOMAIN log : log[j] = x => m <= j
  BY <1>1, <1>4
<1> QED  BY <1>1, <1>5 DEF First

LEMMA OrderIsCausal == LeadInv => CausalOrder
<1> SUFFICES ASSUME LeadInv, unfenced = {},
                    NEW x \in Landed, NEW y \in before[x], Aggregate[y] = Aggregate[x]
             PROVE  y \in Landed /\ First(y) < First(x)
  BY DEF CausalOrder
<1>1. log \in Seq(Rows) /\ LogOrder /\ Len(log) \in Nat
  BY SMT DEF LeadInv, StaleInv, TypeOK, Fenced
<1>2. First(x) \in 1..Len(log) /\ log[First(x)] = x
  BY <1>1, FirstIs
<1>3. PICK j \in 1..First(x) - 1 : log[j] = y
  BY SMT, <1>1, <1>2 DEF LogOrder
<1>4. j \in 1..Len(log) /\ j < First(x)
  BY SMT, <1>1, <1>2, <1>3
<1>5. y \in Landed
  BY SMT, <1>1, <1>3, <1>4, RangeElements DEF Landed
<1>6. First(y) \in 1..Len(log) /\ First(y) <= j
  BY <1>1, <1>3, <1>4, <1>5, FirstIs
<1> QED  BY SMT, <1>1, <1>2, <1>4, <1>5, <1>6

\* With a leader (WithSingleActive) the broker first sees an aggregate's events
\* in causal order, as long as no leader lost its session or died in a claim.
THEOREM LeaderKeepsOrder == Spec => []CausalOrder
<1>1. Init => LeadInv
  BY LeadInit
<1>2. LeadInv /\ [Next]_vars => LeadInv'
  BY LeadStep
<1>3. LeadInv => CausalOrder
  BY OrderIsCausal
<1> QED  BY <1>1, <1>2, <1>3, PTL DEF Spec
================================================================================
