------------------------------ MODULE GroupProofs ------------------------------
(***************************************************************************)
(* No record is committed unhandled, every record has its effect at most   *)
(* once, and the effects of a key come in the order of its records: for    *)
(* any number of members, partitions and records, any poll size and any    *)
(* number of faults, with the record pipeline or the batch pipeline.       *)
(***************************************************************************)
EXTENDS ConsumerGroup, TLAPS

\* The default prover; the leaves that need arithmetic or sequences name SMT.
USE Zenon

-----------------------------------------------------------------------------
(* The inductive invariant, over the set of messages handled so far.       *)

HandledSet == {i \in Messages : Handled(i)}

\* The first n records of partition p are in S.
Prefix(S, p, n) == n <= Len(Log[p]) /\ \A k \in 1..n : Log[p][k] \in S

\* A goroutine has handled what comes before its next record: from the start
\* of the partition, because its poll began where everything was handled.
\* In a batch, the shard groups that committed are handled.
WorkAt(S, p, w) ==
    IF w.pc = "off" THEN w.next = w.from ELSE
        /\ 1 <= w.from /\ w.from <= w.next /\ w.next <= w.to + 1 /\ w.to <= Len(Log[p])
        /\ Prefix(S, p, w.next - 1)
        /\ w.pc \in {"handle", "hook", "dlt", "batch"} => w.next <= w.to
        /\ w.pc = "done" => w.next = w.to + 1
        /\ w.pc = "hook" => Log[p][w.next] \in S
        /\ w.pc = "batch" => /\ w.next = w.from
                             /\ \A k \in w.from..w.to :
                                  ShardOf[Log[p][k]] \in w.groups => Log[p][k] \in S

\* The client's position: where a poll of the partition would begin, or the
\* end of the poll that is being worked on.
PosAt(S, p, w, n) == IF w.pc = "off" THEN Prefix(S, p, n) ELSE n = w.to

Deduplicated == \A i \in inbox : applied[i] > 0

GroupInv ==
    /\ TypeOK /\ Deduplicated
    /\ \A p \in Partitions : Prefix(HandledSet, p, committed[p])
    /\ \A m \in Members, p \in Partitions :
         /\ WorkAt(HandledSet, p, work[m][p])
         /\ owner[p] = m => PosAt(HandledSet, p, work[m][p], pos[m][p])

-----------------------------------------------------------------------------
(* Handling is for ever.                                                   *)

LEMMA PrefixGrows ==
    ASSUME NEW S, NEW T, S \subseteq T, NEW p, NEW n, Prefix(S, p, n)
    PROVE  Prefix(T, p, n)
  BY DEF Prefix

LEMMA PrefixExtends ==
    ASSUME NEW S, NEW T, S \subseteq T, NEW p, NEW n \in Nat, n >= 1, n <= Len(Log[p]),
           Prefix(S, p, n - 1), Log[p][n] \in T
    PROVE  Prefix(T, p, n)
<1>1. ASSUME NEW k \in 1..n PROVE Log[p][k] \in T
  <2>1. CASE k = n
    BY <2>1
  <2>2. CASE k \in 1..n - 1
    BY <2>2 DEF Prefix
  <2> QED  BY SMT, <2>1, <2>2
<1> QED  BY <1>1 DEF Prefix

LEMMA WorkGrows ==
    ASSUME NEW S, NEW T, S \subseteq T, NEW p, NEW w, WorkAt(S, p, w)
    PROVE  WorkAt(T, p, w)
  BY PrefixGrows DEF WorkAt

LEMMA PosGrows ==
    ASSUME NEW S, NEW T, S \subseteq T, NEW p, NEW w, NEW n, PosAt(S, p, w, n)
    PROVE  PosAt(T, p, w, n)
  BY PrefixGrows DEF PosAt

LEMMA LogTyped ==
    ASSUME NEW p \in Partitions
    PROVE  /\ Len(Log[p]) \in Nat
           /\ \A k \in 1..Len(Log[p]) : Log[p][k] \in Messages
<1>1. Log[p] \in Seq(Messages)
  BY GroupAssumption
<1> QED  BY SMT, <1>1

LEMMA InitInv == Init => GroupInv
<1> SUFFICES ASSUME Init PROVE GroupInv
  OBVIOUS
<1>1. TypeOK
  BY DEF Init, TypeOK, Off, Goroutines, Places
<1>2. Deduplicated
  BY DEF Init, Deduplicated
<1>3. ASSUME NEW p \in Partitions PROVE Prefix(HandledSet, p, 0)
  BY SMT, LogTyped DEF Prefix
<1>4. \A p \in Partitions : Prefix(HandledSet, p, committed[p])
  BY <1>3 DEF Init
<1>5. ASSUME NEW m \in Members, NEW p \in Partitions
      PROVE  /\ WorkAt(HandledSet, p, work[m][p])
             /\ PosAt(HandledSet, p, work[m][p], pos[m][p])
  <2>1. /\ work[m][p].pc = "off" /\ work[m][p].next = work[m][p].from
        /\ pos[m][p] = 0
    BY DEF Init, Off
  <2> QED  BY <1>3, <2>1 DEF WorkAt, PosAt
<1> QED  BY <1>1, <1>2, <1>4, <1>5 DEF GroupInv

-----------------------------------------------------------------------------
(* The steps of a partition goroutine.                                     *)

\* What every such step does to the store.
Stored ==
    /\ inbox' \subseteq Messages /\ dlt' \subseteq Messages
    /\ applied' \in [Messages -> Nat] /\ hooks' \in [Messages -> Nat] /\ faults' \in Nat
    /\ \A i \in Messages : applied[i] <= applied'[i]
    /\ dlt \subseteq dlt'
    /\ Deduplicated'

LEMMA StoredGrows ==
    ASSUME TypeOK, Stored
    PROVE  HandledSet \subseteq HandledSet'
<1> SUFFICES ASSUME NEW i \in Messages, Handled(i) PROVE Handled(i)'
  BY DEF HandledSet
<1>1. applied[i] \in Nat /\ applied'[i] \in Nat /\ applied[i] <= applied'[i] /\ dlt \subseteq dlt'
  BY DEF TypeOK, Stored
<1> QED  BY SMT, <1>1 DEF Handled

LEMMA OnceApplied ==
    ASSUME TypeOK, Deduplicated, NEW ids \in SUBSET Messages, ProcessOnce(ids)
    PROVE  /\ inbox' \subseteq Messages /\ applied' \in [Messages -> Nat]
           /\ \A i \in Messages : applied[i] <= applied'[i]
           /\ \A i \in ids : applied'[i] > 0
           /\ Deduplicated'
  BY SMT DEF TypeOK, Deduplicated, ProcessOnce

\* A goroutine moves to w.
LEMMA WorkerKeeps ==
    ASSUME GroupInv, NEW m \in Members, NEW p \in Partitions, NEW w \in Goroutines,
           Worker(m, p, w), UNCHANGED Context, Stored,
           WorkAt(HandledSet', p, w), w.pc # "off", work[m][p].pc # "off",
           w.to = work[m][p].to
    PROVE  GroupInv'
<1>t. TypeOK
  BY DEF GroupInv
<1>g. HandledSet \subseteq HandledSet'
  BY <1>t, StoredGrows
<1>c. UNCHANGED <<owner, committed, pos, paused, kicked, stopping>>
  BY DEF Context, group
<1>1. work' \in [Members -> [Partitions -> Goroutines]]
  BY <1>t DEF TypeOK, Worker
<1>2. TypeOK'
  BY <1>t, <1>c, <1>1 DEF TypeOK, Stored
<1>3. \A q \in Partitions : Prefix(HandledSet', q, committed[q])
  BY <1>g, PrefixGrows DEF GroupInv
<1>4. ASSUME NEW n \in Members, NEW q \in Partitions
      PROVE  /\ WorkAt(HandledSet', q, work'[n][q])
             /\ owner[q] = n => PosAt(HandledSet', q, work'[n][q], pos[n][q])
  <2>1. CASE n = m /\ q = p
    <3>1. work'[n][q] = w
      BY <1>t, <2>1 DEF TypeOK, Worker
    <3>2. owner[p] = m => pos[m][p] = w.to
      BY DEF GroupInv, PosAt
    <3> QED  BY <2>1, <3>1, <3>2 DEF PosAt
  <2>2. CASE ~(n = m /\ q = p)
    <3>1. work'[n][q] = work[n][q]
      BY <1>t, <2>2 DEF TypeOK, Worker
    <3>2. /\ WorkAt(HandledSet, q, work[n][q])
          /\ owner[q] = n => PosAt(HandledSet, q, work[n][q], pos[n][q])
      BY DEF GroupInv
    <3> QED  BY <1>g, <3>1, <3>2, WorkGrows, PosGrows
  <2> QED  BY <2>1, <2>2
<1> QED  BY <1>2, <1>3, <1>4, <1>c DEF GroupInv, Stored

\* The record the goroutine is at.
LEMMA AtRecord ==
    ASSUME GroupInv, NEW m \in Members, NEW p \in Partitions,
           work[m][p].pc \in {"handle", "hook", "dlt"}
    PROVE  /\ work[m][p] \in Goroutines
           /\ WorkAt(HandledSet, p, work[m][p])
           /\ work[m][p].next \in 1..work[m][p].to
           /\ work[m][p].to <= Len(Log[p])
           /\ Msg(m, p) \in Messages
<1>1. work[m][p] \in Goroutines /\ WorkAt(HandledSet, p, work[m][p])
  BY DEF GroupInv, TypeOK
<1>2. work[m][p].next \in Nat /\ work[m][p].to \in Nat /\ work[m][p].from \in Nat
  BY <1>1 DEF Goroutines
<1>3. work[m][p].next \in 1..work[m][p].to /\ work[m][p].to <= Len(Log[p])
  BY SMT, <1>1, <1>2 DEF WorkAt
<1> QED  BY SMT, <1>1, <1>2, <1>3, LogTyped DEF Msg

\* The goroutine goes on to the next record.
LEMMA AdvancedTo ==
    ASSUME GroupInv, NEW m \in Members, NEW p \in Partitions,
           work[m][p].pc \in {"handle", "hook", "dlt"}, Advance(m, p)
    PROVE  \E v \in Goroutines :
             /\ Worker(m, p, v)
             /\ v.pc = (IF work[m][p].next = work[m][p].to THEN "done" ELSE "handle")
             /\ v.from = work[m][p].from /\ v.to = work[m][p].to
             /\ v.next = work[m][p].next + 1
<1> DEFINE w == work[m][p]
<1>1. w \in Goroutines /\ w.next + 1 \in Nat
  <2>1. w \in Goroutines
    BY AtRecord
  <2> QED  BY SMT, <2>1 DEF Goroutines
<1>2. PICK place \in {"done", "handle"} : place = IF w.next = w.to THEN "done" ELSE "handle"
  OBVIOUS
<1> DEFINE v == [w EXCEPT !.next = w.next + 1, !.tries = 0, !.pc = place]
<1>3. Worker(m, p, v)
  BY <1>2 DEF Advance
<1> HIDE DEF w
<1>4. v \in Goroutines /\ v.pc = place /\ v.from = w.from /\ v.to = w.to /\ v.next = w.next + 1
  BY <1>1 DEF Goroutines, Places
<1> HIDE DEF v
<1> QED  BY <1>2, <1>3, <1>4 DEF w

\* A handled record is behind the goroutine.
LEMMA AdvanceKeeps ==
    ASSUME GroupInv, NEW m \in Members, NEW p \in Partitions,
           work[m][p].pc \in {"handle", "hook", "dlt"},
           Advance(m, p), UNCHANGED Context, Stored, Msg(m, p) \in HandledSet'
    PROVE  GroupInv'
<1> DEFINE w == work[m][p]
<1>1. /\ w \in Goroutines /\ WorkAt(HandledSet, p, w) /\ w.next \in 1..w.to /\ w.to <= Len(Log[p])
  BY AtRecord
<1>2. PICK v \in Goroutines :
        /\ Worker(m, p, v) /\ v.pc = (IF w.next = w.to THEN "done" ELSE "handle")
        /\ v.from = w.from /\ v.to = w.to /\ v.next = w.next + 1
  BY AdvancedTo
<1>3. w.from \in Nat /\ w.next \in Nat /\ w.to \in Nat /\ Len(Log[p]) \in Nat
  BY <1>1, LogTyped DEF Goroutines
<1>4. HandledSet \subseteq HandledSet'
  BY StoredGrows DEF GroupInv
<1>5. Prefix(HandledSet', p, w.next)
  <2>1. Prefix(HandledSet, p, w.next - 1)
    BY <1>1 DEF WorkAt
  <2>2. Log[p][w.next] \in HandledSet'
    BY DEF Msg
  <2> HIDE DEF w
  <2> QED  BY SMT, <1>1, <1>3, <1>4, <2>1, <2>2, PrefixExtends
<1>6. 1 <= w.from /\ w.from <= w.next
  BY <1>1 DEF WorkAt
<1>7. WorkAt(HandledSet', p, v)
  <2> HIDE DEF w
  <2>1. v.next - 1 = w.next
    BY SMT, <1>2, <1>3
  <2>2. Prefix(HandledSet', p, v.next - 1)
    BY <1>5, <2>1
  <2> QED  BY SMT, <1>1, <1>2, <1>3, <1>6, <2>2 DEF WorkAt
<1> QED  BY <1>2, <1>7, WorkerKeeps

\* The goroutine stays at its record.
LEMMA StayKeeps ==
    ASSUME GroupInv, NEW m \in Members, NEW p \in Partitions,
           work[m][p].pc \in {"handle", "dlt", "batch"},
           NEW v \in Goroutines, Worker(m, p, v), UNCHANGED Context, Stored,
           v.from = work[m][p].from, v.next = work[m][p].next, v.to = work[m][p].to,
           v.pc \in {"handle", "hook", "dlt", "failed"},
           v.pc = "hook" => Log[p][v.next] \in HandledSet'
    PROVE  GroupInv'
<1>1. WorkAt(HandledSet, p, work[m][p])
  BY DEF GroupInv
<1>2. HandledSet \subseteq HandledSet'
  BY StoredGrows DEF GroupInv
<1>3. WorkAt(HandledSet', p, work[m][p])
  BY <1>1, <1>2, WorkGrows
<1>4. WorkAt(HandledSet', p, v)
  BY <1>3 DEF WorkAt
<1> QED  BY <1>4, WorkerKeeps

\* A step that leaves the store alone, whether it counts as a fault or not.
LEMMA StoreKept ==
    ASSUME GroupInv, UNCHANGED store, Fault \/ UNCHANGED faults
    PROVE  Stored
  BY SMT DEF GroupInv, TypeOK, Deduplicated, Stored, store, Fault

LEMMA SkipKeeps ==
    ASSUME GroupInv, NEW m \in Members, NEW p \in Partitions, Skip(m, p)
    PROVE  GroupInv'
<1>1. work[m][p].pc = "handle" /\ Advance(m, p) /\ UNCHANGED Context
      /\ UNCHANGED store /\ UNCHANGED faults
  BY DEF Skip, At
<1>2. Stored
  BY <1>1, StoreKept
<1>3. Msg(m, p) \in Messages
  BY <1>1, AtRecord
<1>4. Msg(m, p) \in HandledSet
  BY <1>3 DEF Skip, GroupInv, Deduplicated, HandledSet, Handled
<1>5. Msg(m, p) \in HandledSet'
  BY <1>2, <1>4, StoredGrows DEF GroupInv
<1> QED  BY <1>1, <1>2, <1>5, AdvanceKeeps

LEMMA ProcessRecordKeeps ==
    ASSUME GroupInv, NEW m \in Members, NEW p \in Partitions, ProcessRecord(m, p)
    PROVE  GroupInv'
<1> DEFINE v == [work[m][p] EXCEPT !.pc = "hook"]
<1>1. /\ work[m][p].pc = "handle" /\ ProcessOnce({Msg(m, p)}) /\ Worker(m, p, v)
      /\ UNCHANGED Context /\ UNCHANGED <<hooks, dlt, faults>>
  BY DEF ProcessRecord, Fresh, At
<1>2. Msg(m, p) \in Messages /\ work[m][p] \in Goroutines
  BY <1>1, AtRecord
<1>3. Stored /\ applied'[Msg(m, p)] > 0
  BY SMT, <1>1, <1>2, OnceApplied DEF GroupInv, TypeOK, Stored
<1>4. Log[p][work[m][p].next] \in HandledSet'
  BY <1>2, <1>3 DEF HandledSet, Handled, Msg
<1>5. /\ v \in Goroutines /\ v.pc = "hook" /\ v.from = work[m][p].from
      /\ v.next = work[m][p].next /\ v.to = work[m][p].to
  BY <1>2 DEF Goroutines, Places
<1> HIDE DEF v
<1> QED  BY <1>1, <1>3, <1>4, <1>5, StayKeeps

LEMMA OnCommittedKeeps ==
    ASSUME GroupInv, NEW m \in Members, NEW p \in Partitions, OnCommitted(m, p)
    PROVE  GroupInv'
<1>1. work[m][p].pc = "hook" /\ Advance(m, p) /\ UNCHANGED Context
      /\ UNCHANGED <<inbox, applied, dlt, faults>>
  BY DEF OnCommitted, At
<1>2. Msg(m, p) \in Messages /\ WorkAt(HandledSet, p, work[m][p])
  BY <1>1, AtRecord
<1>3. hooks' \in [Messages -> Nat]
  BY SMT, <1>2 DEF OnCommitted, GroupInv, TypeOK
<1>4. Stored
  BY SMT, <1>1, <1>3 DEF GroupInv, TypeOK, Deduplicated, Stored
<1>5. Msg(m, p) \in HandledSet
  BY <1>1, <1>2 DEF WorkAt, Msg
<1>6. Msg(m, p) \in HandledSet'
  BY <1>4, <1>5, StoredGrows DEF GroupInv
<1> QED  BY <1>1, <1>4, <1>6, AdvanceKeeps

LEMMA ProduceDLTKeeps ==
    ASSUME GroupInv, NEW m \in Members, NEW p \in Partitions, ProduceDLT(m, p)
    PROVE  GroupInv'
<1>1. work[m][p].pc = "dlt" /\ Advance(m, p) /\ UNCHANGED Context
      /\ UNCHANGED <<inbox, applied, hooks, faults>> /\ dlt' = dlt \cup {Msg(m, p)}
  BY DEF ProduceDLT, At
<1>2. Msg(m, p) \in Messages
  BY <1>1, AtRecord
<1>3. Stored
  BY SMT, <1>1, <1>2 DEF GroupInv, TypeOK, Deduplicated, Stored
<1>4. Msg(m, p) \in HandledSet'
  BY <1>1, <1>2 DEF HandledSet, Handled
<1> QED  BY <1>1, <1>3, <1>4, AdvanceKeeps

\* The goroutine's place changes and nothing else.
LEMMA MoveKeeps ==
    ASSUME GroupInv, NEW m \in Members, NEW p \in Partitions,
           work[m][p].pc \in {"handle", "dlt"}, NEW place \in {"dlt", "failed"},
           Worker(m, p, [work[m][p] EXCEPT !.pc = place]), UNCHANGED Context, Stored
    PROVE  GroupInv'
<1> DEFINE v == [work[m][p] EXCEPT !.pc = place]
<1>1. work[m][p] \in Goroutines
  BY AtRecord
<1>2. /\ v \in Goroutines /\ v.pc = place /\ v.from = work[m][p].from
      /\ v.next = work[m][p].next /\ v.to = work[m][p].to
  BY <1>1 DEF Goroutines, Places
<1> HIDE DEF v
<1>3. Worker(m, p, v)
  BY DEF v
<1> QED  BY <1>2, <1>3, StayKeeps

LEMMA PermanentKeeps ==
    ASSUME GroupInv, NEW m \in Members, NEW p \in Partitions, Permanent(m, p)
    PROVE  GroupInv'
<1>1. /\ work[m][p].pc = "handle" /\ Worker(m, p, [work[m][p] EXCEPT !.pc = "dlt"])
      /\ UNCHANGED Context /\ UNCHANGED store /\ UNCHANGED faults
  BY DEF Permanent, Fresh, At
<1> QED  BY <1>1, StoreKept, MoveKeeps

LEMMA CancelledKeeps ==
    ASSUME GroupInv, NEW m \in Members, NEW p \in Partitions, Cancelled(m, p)
    PROVE  GroupInv'
<1>1. /\ work[m][p].pc = "handle" \/ work[m][p].pc = "dlt"
      /\ Worker(m, p, [work[m][p] EXCEPT !.pc = "failed"])
      /\ UNCHANGED Context /\ UNCHANGED store /\ UNCHANGED faults
  BY DEF Cancelled, Fresh, At, Fail
<1> QED  BY <1>1, StoreKept, MoveKeeps

LEMMA ProduceDLTErrorKeeps ==
    ASSUME GroupInv, NEW m \in Members, NEW p \in Partitions, ProduceDLTError(m, p)
    PROVE  GroupInv'
<1>1. /\ work[m][p].pc = "dlt" /\ Worker(m, p, [work[m][p] EXCEPT !.pc = "failed"])
      /\ dlt' \in {dlt, dlt \cup {Msg(m, p)}} /\ Fault
      /\ UNCHANGED Context /\ UNCHANGED <<inbox, applied, hooks>>
  BY DEF ProduceDLTError, At, Fail
<1>2. Msg(m, p) \in Messages
  BY <1>1, AtRecord
<1>3. Stored
  BY SMT, <1>1, <1>2 DEF GroupInv, TypeOK, Deduplicated, Stored, Fault
<1> QED  BY <1>1, <1>3, MoveKeeps

LEMMA RetryAttemptKeeps ==
    ASSUME GroupInv, NEW m \in Members, NEW p \in Partitions, RetryAttempt(m, p)
    PROVE  GroupInv'
<1>1. /\ work[m][p].pc = "handle" /\ Fault
      /\ ProcessOnce({Msg(m, p)}) \/ UNCHANGED <<inbox, applied>>
      /\ UNCHANGED Context /\ UNCHANGED <<hooks, dlt>>
  BY DEF RetryAttempt, Fresh, At
<1>2. Msg(m, p) \in Messages /\ work[m][p] \in Goroutines
  BY <1>1, AtRecord
<1>3. Stored
  <2>1. CASE ProcessOnce({Msg(m, p)})
    BY SMT, <1>1, <1>2, <2>1, OnceApplied DEF GroupInv, TypeOK, Stored, Fault
  <2>2. CASE UNCHANGED <<inbox, applied>>
    BY SMT, <1>1, <2>2 DEF GroupInv, TypeOK, Deduplicated, Stored, Fault
  <2> QED  BY <1>1, <2>1, <2>2
<1>4. CASE work[m][p].tries + 1 < MaxAttempts
  <2> DEFINE v == [work[m][p] EXCEPT !.tries = @ + 1]
  <2>1. Worker(m, p, v)
    BY <1>4 DEF RetryAttempt
  <2>2. /\ v \in Goroutines /\ v.pc = work[m][p].pc /\ v.from = work[m][p].from
        /\ v.next = work[m][p].next /\ v.to = work[m][p].to
    BY SMT, <1>2 DEF Goroutines
  <2> HIDE DEF v
  <2> QED  BY <1>1, <1>3, <2>1, <2>2, StayKeeps
<1>5. CASE ~(work[m][p].tries + 1 < MaxAttempts)
  <2>1. Worker(m, p, [work[m][p] EXCEPT !.pc = "dlt"])
    BY <1>5 DEF RetryAttempt
  <2> QED  BY <1>1, <1>3, <2>1, MoveKeeps
<1> QED  BY <1>4, <1>5

-----------------------------------------------------------------------------
(* The batch pipeline.                                                     *)

LEMMA AtBatch ==
    ASSUME GroupInv, NEW m \in Members, NEW p \in Partitions, work[m][p].pc = "batch"
    PROVE  /\ work[m][p] \in Goroutines
           /\ WorkAt(HandledSet, p, work[m][p])
           /\ \A k \in work[m][p].from..work[m][p].to :
                k \in 1..Len(Log[p]) /\ Log[p][k] \in Messages
           /\ Group(m, p) \subseteq Messages
<1>1. work[m][p] \in Goroutines /\ WorkAt(HandledSet, p, work[m][p])
  BY DEF GroupInv, TypeOK
<1>2. work[m][p].to \in Nat /\ work[m][p].from \in Nat
  BY <1>1 DEF Goroutines
<1>3. \A k \in work[m][p].from..work[m][p].to :
        k \in 1..Len(Log[p]) /\ Log[p][k] \in Messages
  <2>1. 1 <= work[m][p].from /\ work[m][p].to <= Len(Log[p])
    BY <1>1 DEF WorkAt
  <2>2. Len(Log[p]) \in Nat /\ \A k \in 1..Len(Log[p]) : Log[p][k] \in Messages
    BY LogTyped
  <2>3. ASSUME NEW k \in work[m][p].from..work[m][p].to PROVE k \in 1..Len(Log[p])
    BY SMT, <1>2, <2>1, <2>2
  <2> QED  BY <2>2, <2>3
<1>4. PICK s : Group(m, p) =
                 {Log[p][k] : k \in {k \in Live(m, p) : ShardOf[Log[p][k]] = s}}
  BY DEF Group
<1>5. Group(m, p) \subseteq Messages
  BY <1>3, <1>4 DEF Live
<1> QED  BY <1>1, <1>3, <1>5

\* The whole shard group is handled with the batch, its unknown types too.
LEMMA ProcessBatchOnceKeeps ==
    ASSUME GroupInv, NEW m \in Members, NEW p \in Partitions, ProcessBatchOnce(m, p)
    PROVE  GroupInv'
<1> DEFINE w == work[m][p]
           v == [w EXCEPT !.groups = @ \cup {ShardOf[i] : i \in Group(m, p)},
                          !.ran = @ \cup (Group(m, p) \ inbox)]
<1>1. /\ w.pc = "batch" /\ ProcessOnce(Group(m, p)) /\ Worker(m, p, v)
      /\ UNCHANGED Context /\ UNCHANGED <<hooks, dlt, faults>>
  BY DEF ProcessBatchOnce, At
<1>2. /\ w \in Goroutines /\ WorkAt(HandledSet, p, w) /\ Group(m, p) \subseteq Messages
      /\ \A k \in w.from..w.to : k \in 1..Len(Log[p]) /\ Log[p][k] \in Messages
  BY <1>1, AtBatch
<1>3. Stored /\ \A i \in Group(m, p) : applied'[i] > 0
  BY <1>1, <1>2, OnceApplied DEF GroupInv, TypeOK, Stored
<1>4. {ShardOf[i] : i \in Group(m, p)} \subseteq Shards
  BY <1>2, GroupAssumption
<1>5. /\ v \in Goroutines /\ v.pc = w.pc /\ v.from = w.from /\ v.next = w.next
      /\ v.to = w.to /\ v.groups = w.groups \cup {ShardOf[i] : i \in Group(m, p)}
  <2> HIDE DEF w
  <2> QED  BY <1>2, <1>4 DEF Goroutines
<1>6. HandledSet \subseteq HandledSet'
  BY <1>3, StoredGrows DEF GroupInv
<1>7. ASSUME NEW k \in w.from..w.to, ShardOf[Log[p][k]] \in v.groups
      PROVE  Log[p][k] \in HandledSet'
  <2>1. Log[p][k] \in Messages
    BY <1>2
  <2>2. CASE ShardOf[Log[p][k]] \in w.groups
    BY <1>1, <1>2, <1>6, <2>2 DEF WorkAt
  <2>3. CASE \E i \in Group(m, p) : ShardOf[i] = ShardOf[Log[p][k]]
    <3>1. PICK s : Group(m, p) =
                     {Log[p][j] : j \in {j \in Live(m, p) : ShardOf[Log[p][j]] = s}}
      BY DEF Group
    <3>2. ShardOf[Log[p][k]] = s
      BY <2>3, <3>1
    <3>3. CASE Kind[Log[p][k]] = "unknown"
      BY <2>1, <3>3 DEF HandledSet, Handled
    <3>4. CASE Kind[Log[p][k]] # "unknown"
      <4>1. Log[p][k] \in Group(m, p)
        BY <3>1, <3>2, <3>4 DEF Live
      <4> QED  BY <1>3, <2>1, <4>1 DEF HandledSet, Handled
    <3> QED  BY <3>3, <3>4
  <2> HIDE DEF v
  <2> QED  BY SMT, <1>5, <1>7, <2>2, <2>3
<1>8. WorkAt(HandledSet', p, w)
  BY <1>2, <1>6, WorkGrows
<1>9. WorkAt(HandledSet', p, v)
  <2> HIDE DEF v, w
  <2> QED  BY <1>1, <1>5, <1>7, <1>8 DEF WorkAt
<1> HIDE DEF v
<1> QED  BY <1>1, <1>3, <1>5, <1>9, WorkerKeeps

LEMMA BatchErrorKeeps ==
    ASSUME GroupInv, NEW m \in Members, NEW p \in Partitions, BatchError(m, p)
    PROVE  GroupInv'
<1> DEFINE w == work[m][p]
           v == [w EXCEPT !.pc = "handle", !.groups = {}, !.ran = {}]
<1>1. /\ w.pc = "batch" /\ Worker(m, p, v)
      /\ Fault \/ UNCHANGED faults
      /\ ProcessOnce(Group(m, p)) \/ UNCHANGED <<inbox, applied>>
      /\ UNCHANGED Context /\ UNCHANGED <<hooks, dlt>>
  BY DEF BatchError, At, Fallback
<1>2. w \in Goroutines /\ Group(m, p) \subseteq Messages
  BY <1>1, AtBatch
<1>3. Stored
  <2>1. CASE ProcessOnce(Group(m, p))
    BY SMT, <1>1, <1>2, <2>1, OnceApplied DEF GroupInv, TypeOK, Stored, Fault
  <2>2. CASE UNCHANGED <<inbox, applied>>
    BY SMT, <1>1, <2>2 DEF GroupInv, TypeOK, Deduplicated, Stored, Fault
  <2> QED  BY <1>1, <2>1, <2>2
<1>4. v \in Goroutines /\ v.pc = "handle" /\ v.from = w.from /\ v.next = w.next /\ v.to = w.to
  <2> HIDE DEF w
  <2> QED  BY <1>2 DEF Goroutines, Places
<1> HIDE DEF v
<1> QED  BY <1>1, <1>3, <1>4, StayKeeps

\* No record is left: each is of an unknown type or of a group that committed.
LEMMA BatchCommittedKeeps ==
    ASSUME GroupInv, NEW m \in Members, NEW p \in Partitions, BatchCommitted(m, p)
    PROVE  GroupInv'
<1> DEFINE w == work[m][p]
           v == [w EXCEPT !.pc = "done", !.next = w.to + 1]
<1>1. /\ w.pc = "batch" /\ Remaining(m, p) = {} /\ Worker(m, p, v)
      /\ UNCHANGED Context /\ UNCHANGED <<inbox, applied, dlt, faults>>
  BY DEF BatchCommitted, At
<1>2. /\ w \in Goroutines /\ WorkAt(HandledSet, p, w)
      /\ \A k \in w.from..w.to : k \in 1..Len(Log[p]) /\ Log[p][k] \in Messages
  BY <1>1, AtBatch
<1>3. hooks' \in [Messages -> Nat]
  BY SMT DEF BatchCommitted, GroupInv, TypeOK
<1>4. Stored
  BY SMT, <1>1, <1>3 DEF GroupInv, TypeOK, Deduplicated, Stored
<1>5. HandledSet \subseteq HandledSet'
  BY <1>4, StoredGrows DEF GroupInv
<1>6. ASSUME NEW k \in w.from..w.to PROVE Log[p][k] \in HandledSet
  <2>1. Kind[Log[p][k]] = "unknown" \/ ShardOf[Log[p][k]] \in w.groups
    BY <1>1 DEF Remaining, Live
  <2> QED  BY <1>1, <1>2, <2>1 DEF WorkAt, HandledSet, Handled
<1>7. /\ v \in Goroutines /\ v.pc = "done" /\ v.from = w.from /\ v.to = w.to
      /\ v.next = w.to + 1 /\ w.from \in Nat /\ w.to \in Nat
  <2> HIDE DEF w
  <2>1. w.from \in Nat /\ w.to \in Nat
    BY <1>2 DEF Goroutines
  <2>2. PICK n \in Nat : n = w.to + 1
    BY SMT, <2>1
  <2>3. v = [w EXCEPT !.pc = "done", !.next = n]
    BY <2>2
  <2> HIDE DEF v
  <2>4. v \in Goroutines /\ v.pc = "done" /\ v.from = w.from /\ v.to = w.to /\ v.next = n
    BY <1>2, <2>3 DEF Goroutines, Places
  <2> QED  BY <2>1, <2>2, <2>4
<1>8. /\ 1 <= w.from /\ w.from <= w.to /\ w.to <= Len(Log[p])
      /\ Prefix(HandledSet, p, w.from - 1)
  BY <1>1, <1>2 DEF WorkAt
<1>9. Prefix(HandledSet', p, w.to)
  <2> HIDE DEF w
  <2> QED  BY SMT, <1>5, <1>6, <1>7, <1>8 DEF Prefix
<1>10. WorkAt(HandledSet', p, v)
  <2> HIDE DEF v, w
  <2>1. v.next - 1 = w.to
    BY SMT, <1>7
  <2> QED  BY SMT, <1>7, <1>8, <1>9, <2>1 DEF WorkAt
<1> HIDE DEF v
<1> QED  BY <1>1, <1>4, <1>7, <1>10, WorkerKeeps

-----------------------------------------------------------------------------
(* The group and the poll loop.                                            *)

\* What holds of one member's partition.
Place(S, p, m, o, w, n) == WorkAt(S, p, w) /\ (o = m => PosAt(S, p, w, n))

LEMMA SameHandled ==
    ASSUME UNCHANGED store
    PROVE  HandledSet' = HandledSet /\ Deduplicated' = Deduplicated
  BY DEF store, HandledSet, Handled, Deduplicated

\* A step of the group leaves the store alone.
LEMMA GroupKeeps ==
    ASSUME GroupInv, UNCHANGED store, Fault \/ UNCHANGED faults,
           owner' \in [Partitions -> Members \cup {None}],
           committed' \in [Partitions -> Nat],
           pos' \in [Members -> [Partitions -> Nat]],
           paused' \in [Members -> SUBSET Partitions],
           work' \in [Members -> [Partitions -> Goroutines]],
           kicked' \subseteq Members, stopping' \subseteq Members,
           \A p \in Partitions : Prefix(HandledSet, p, committed'[p]),
           \A m \in Members, p \in Partitions :
             Place(HandledSet, p, m, owner'[p], work'[m][p], pos'[m][p])
    PROVE  GroupInv'
<1>1. faults' \in Nat
  BY SMT DEF GroupInv, TypeOK, Fault
<1>2. TypeOK'
  BY <1>1 DEF GroupInv, TypeOK, store
<1> QED  BY <1>2, SameHandled DEF GroupInv, Place

LEMMA Placed ==
    ASSUME GroupInv, NEW m \in Members, NEW p \in Partitions
    PROVE  Place(HandledSet, p, m, owner[p], work[m][p], pos[m][p])
  BY DEF GroupInv, Place

\* A partition is lost: nothing is asked of the position of its last owner.
LEMMA PlaceLost ==
    ASSUME NEW S, NEW p, NEW m \in Members, NEW o, NEW w, NEW n, Place(S, p, m, o, w, n)
    PROVE  Place(S, p, m, None, w, n)
<1>1. None # m
  BY GroupAssumption
<1> QED  BY <1>1 DEF Place

LEMMA AssignKeeps ==
    ASSUME GroupInv, NEW m \in Members, NEW p \in Partitions, Assign(p, m)
    PROVE  GroupInv'
<1>t. TypeOK
  BY DEF GroupInv
<1>1. /\ owner' = [owner EXCEPT ![p] = m] /\ pos' = [pos EXCEPT ![m][p] = committed[p]]
      /\ Idle(m) /\ UNCHANGED <<committed, paused, work, kicked, stopping, faults>>
      /\ UNCHANGED store
  BY DEF Assign
<1>2. /\ owner' \in [Partitions -> Members \cup {None}]
      /\ pos' \in [Members -> [Partitions -> Nat]]
  BY <1>t, <1>1 DEF TypeOK
<1>3. ASSUME NEW n \in Members, NEW q \in Partitions
      PROVE  Place(HandledSet, q, n, owner'[q], work'[n][q], pos'[n][q])
  <2>1. Place(HandledSet, q, n, owner[q], work[n][q], pos[n][q])
    BY Placed
  <2>2. CASE q # p
    <3>1. owner'[q] = owner[q] /\ pos'[n][q] = pos[n][q]
      BY <1>t, <1>1, <2>2 DEF TypeOK
    <3> QED  BY <1>1, <2>1, <3>1
  <2>3. CASE q = p /\ n # m
    <3>1. owner'[q] = m
      BY <1>t, <1>1, <2>3 DEF TypeOK
    <3> QED  BY <1>1, <2>1, <2>3, <3>1 DEF Place
  <2>4. CASE q = p /\ n = m
    <3>1. pos'[n][q] = committed[p] /\ work[m][p].pc = "off"
      BY <1>t, <1>1, <2>4 DEF TypeOK, Idle
    <3>2. Prefix(HandledSet, p, committed[p])
      BY DEF GroupInv
    <3> QED  BY <1>1, <2>1, <2>4, <3>1, <3>2 DEF Place, PosAt
  <2> QED  BY <2>2, <2>3, <2>4
<1> QED  BY <1>t, <1>1, <1>2, <1>3, GroupKeeps DEF GroupInv, TypeOK

LEMMA RevokeKeeps ==
    ASSUME GroupInv, NEW p \in Partitions, Revoke(p)
    PROVE  GroupInv'
<1>t. TypeOK
  BY DEF GroupInv
<1>1. /\ owner' = [owner EXCEPT ![p] = None] /\ Fault
      /\ UNCHANGED <<committed, pos, paused, work, kicked, stopping>> /\ UNCHANGED store
  BY DEF Revoke
<1>2. owner' \in [Partitions -> Members \cup {None}]
  BY <1>t, <1>1 DEF TypeOK
<1>3. ASSUME NEW n \in Members, NEW q \in Partitions
      PROVE  Place(HandledSet, q, n, owner'[q], work'[n][q], pos'[n][q])
  <2>1. Place(HandledSet, q, n, owner[q], work[n][q], pos[n][q])
    BY Placed
  <2>2. owner'[q] \in {owner[q], None}
    BY <1>t, <1>1 DEF TypeOK
  <2> QED  BY SMT, <1>1, <2>1, <2>2, PlaceLost
<1> QED  BY <1>t, <1>1, <1>2, <1>3, GroupKeeps DEF GroupInv, TypeOK

LEMMA LeaveIs ==
    ASSUME TypeOK, NEW m \in Members, Leave(m)
    PROVE  /\ owner' \in [Partitions -> Members \cup {None}]
           /\ \A q \in Partitions : owner'[q] \in {owner[q], None} /\ owner'[q] # m
<1>1. None # m
  BY GroupAssumption
<1> QED  BY <1>1 DEF TypeOK, Leave

LEMMA KickKeeps ==
    ASSUME GroupInv, NEW m \in Members, Kick(m)
    PROVE  GroupInv'
<1>t. TypeOK
  BY DEF GroupInv
<1>1. /\ Leave(m) /\ kicked' = kicked \cup {m} /\ Fault
      /\ UNCHANGED <<committed, pos, paused, work, stopping>> /\ UNCHANGED store
  BY DEF Kick
<1>2. /\ owner' \in [Partitions -> Members \cup {None}]
      /\ \A q \in Partitions : owner'[q] \in {owner[q], None}
  BY <1>t, <1>1, LeaveIs
<1>3. ASSUME NEW n \in Members, NEW q \in Partitions
      PROVE  Place(HandledSet, q, n, owner'[q], work'[n][q], pos'[n][q])
  BY <1>1, <1>2, Placed, PlaceLost
<1> QED  BY <1>t, <1>1, <1>2, <1>3, GroupKeeps DEF GroupInv, TypeOK

\* A member with no goroutines left, that owns nothing.
LEMMA OffTyped ==
    Off \in Goroutines /\ Off.pc = "off" /\ Off.next = Off.from
  BY DEF Off, Goroutines, Places

LEMMA CrashKeeps ==
    ASSUME GroupInv, NEW m \in Members, Crash(m)
    PROVE  GroupInv'
<1>t. TypeOK
  BY DEF GroupInv
<1>1. /\ Leave(m) /\ kicked' = kicked \ {m} /\ stopping' = stopping \ {m} /\ Fault
      /\ paused' = [paused EXCEPT ![m] = {}]
      /\ work' = [work EXCEPT ![m] = [p \in Partitions |-> Off]]
      /\ UNCHANGED <<committed, pos>> /\ UNCHANGED store
  BY DEF Crash
<1>2. /\ owner' \in [Partitions -> Members \cup {None}]
      /\ \A q \in Partitions : owner'[q] \in {owner[q], None} /\ owner'[q] # m
  BY <1>t, <1>1, LeaveIs
<1>3. /\ work' \in [Members -> [Partitions -> Goroutines]]
      /\ paused' \in [Members -> SUBSET Partitions]
      /\ kicked' \subseteq Members /\ stopping' \subseteq Members
  BY <1>t, <1>1, OffTyped DEF TypeOK
<1>4. ASSUME NEW n \in Members, NEW q \in Partitions
      PROVE  Place(HandledSet, q, n, owner'[q], work'[n][q], pos'[n][q])
  <2>1. CASE n = m
    <3>1. work'[n][q] = Off
      BY <1>t, <1>1, <2>1 DEF TypeOK
    <3> QED  BY <1>2, <2>1, <3>1, OffTyped DEF Place, WorkAt
  <2>2. CASE n # m
    <3>1. work'[n][q] = work[n][q]
      BY <1>t, <1>1, <2>2 DEF TypeOK
    <3> QED  BY SMT, <1>1, <1>2, <3>1, Placed, PlaceLost
  <2> QED  BY <2>1, <2>2
<1> QED  BY <1>t, <1>1, <1>2, <1>3, <1>4, GroupKeeps DEF GroupInv, TypeOK

LEMMA CloseKeeps ==
    ASSUME GroupInv, NEW m \in Members, Close(m)
    PROVE  GroupInv'
<1>t. TypeOK
  BY DEF GroupInv
<1>1. /\ Leave(m) /\ stopping' = stopping \ {m} /\ paused' = [paused EXCEPT ![m] = {}]
      /\ UNCHANGED <<committed, pos, work, kicked, faults>> /\ UNCHANGED store
  BY DEF Close
<1>2. /\ owner' \in [Partitions -> Members \cup {None}]
      /\ \A q \in Partitions : owner'[q] \in {owner[q], None}
  BY <1>t, <1>1, LeaveIs
<1>3. paused' \in [Members -> SUBSET Partitions] /\ stopping' \subseteq Members
  BY <1>t, <1>1 DEF TypeOK
<1>4. ASSUME NEW n \in Members, NEW q \in Partitions
      PROVE  Place(HandledSet, q, n, owner'[q], work'[n][q], pos'[n][q])
  BY <1>1, <1>2, Placed, PlaceLost
<1> QED  BY <1>t, <1>1, <1>2, <1>3, <1>4, GroupKeeps DEF GroupInv, TypeOK

\* The context of a member is cancelled, or a back-off ends.
LEMMA FlagsKeep ==
    ASSUME GroupInv, NEW m \in Members,
           Cancel(m) \/ \E p \in Partitions : Resume(m, p)
    PROVE  GroupInv'
<1>t. TypeOK
  BY DEF GroupInv
<1>1. /\ UNCHANGED <<owner, committed, pos, work, kicked>> /\ UNCHANGED store
      /\ Fault \/ UNCHANGED faults
      /\ stopping' \in {stopping, stopping \cup {m}}
      /\ \/ UNCHANGED paused
         \/ \E p \in Partitions : paused' = [paused EXCEPT ![m] = @ \ {p}]
  BY DEF Cancel, Resume, group
<1>2. paused' \in [Members -> SUBSET Partitions] /\ stopping' \subseteq Members
  BY SMT, <1>t, <1>1 DEF TypeOK
<1>3. ASSUME NEW n \in Members, NEW q \in Partitions
      PROVE  Place(HandledSet, q, n, owner'[q], work'[n][q], pos'[n][q])
  BY <1>1, Placed
<1> QED  BY <1>t, <1>1, <1>2, <1>3, GroupKeeps DEF GroupInv, TypeOK

\* A poll of n records from a position where everything before is handled.
LEMMA PolledAt ==
    ASSUME NEW S, NEW p \in Partitions, NEW a \in Nat, NEW n \in 1..MaxPoll,
           a + n <= Len(Log[p]), Prefix(S, p, a)
    PROVE  /\ Goroutine(a + 1, a + n) \in Goroutines /\ a + n \in Nat
           /\ WorkAt(S, p, Goroutine(a + 1, a + n))
           /\ PosAt(S, p, Goroutine(a + 1, a + n), a + n)
<1>1. n \in Nat /\ 1 <= n
  BY SMT, GroupAssumption
<1>2. PICK b \in Nat, c \in Nat : b = a + 1 /\ c = a + n
  BY SMT, <1>1
<1>3. PICK place \in {"batch", "handle"} : place = IF Batch THEN "batch" ELSE "handle"
  OBVIOUS
<1> DEFINE v == [pc |-> place, from |-> b, next |-> b, to |-> c,
                 tries |-> 0, groups |-> {}, ran |-> {}]
<1>4. Goroutine(a + 1, a + n) = v
  BY <1>2, <1>3 DEF Goroutine
<1>5. /\ v \in Goroutines /\ v.pc = place /\ v.from = b /\ v.next = b /\ v.to = c
      /\ v.groups = {}
  BY DEF Goroutines, Places
<1> HIDE DEF v
<1>6. v.next - 1 = a /\ 1 <= b /\ b <= c
  BY SMT, <1>1, <1>2, <1>5
<1>7. WorkAt(S, p, v)
  BY SMT, <1>2, <1>5, <1>6 DEF WorkAt
<1> QED  BY <1>2, <1>4, <1>5, <1>7 DEF PosAt

LEMMA PollFetchesKeeps ==
    ASSUME GroupInv, NEW m \in Members, PollFetches(m)
    PROVE  GroupInv'
<1>t. TypeOK
  BY DEF GroupInv
<1>1. /\ Idle(m) /\ UNCHANGED <<owner, kicked, committed, paused, stopping, faults>>
      /\ UNCHANGED store
  BY DEF PollFetches, group
<1>2. PICK S \in SUBSET Fetchable(m) : \E n \in [S -> 1..MaxPoll] :
         /\ \A p \in S : pos[m][p] + n[p] <= Len(Log[p])
         /\ work' = [work EXCEPT ![m] = [p \in Partitions |->
                        IF p \in S THEN Goroutine(pos[m][p] + 1, pos[m][p] + n[p])
                                   ELSE Off]]
         /\ pos' = [pos EXCEPT ![m] = [p \in Partitions |->
                        IF p \in S THEN @[p] + n[p] ELSE @[p]]]
  BY DEF PollFetches
<1>n. PICK n \in [S -> 1..MaxPoll] :
         /\ \A p \in S : pos[m][p] + n[p] <= Len(Log[p])
         /\ work' = [work EXCEPT ![m] = [p \in Partitions |->
                        IF p \in S THEN Goroutine(pos[m][p] + 1, pos[m][p] + n[p])
                                   ELSE Off]]
         /\ pos' = [pos EXCEPT ![m] = [p \in Partitions |->
                        IF p \in S THEN @[p] + n[p] ELSE @[p]]]
  BY <1>2
<1>3. ASSUME NEW p \in S
      PROVE  /\ p \in Partitions /\ owner[p] = m /\ n[p] \in 1..MaxPoll
             /\ pos[m][p] \in Nat /\ Prefix(HandledSet, p, pos[m][p])
  <2>1. p \in Partitions /\ owner[p] = m /\ n[p] \in 1..MaxPoll
    BY DEF Fetchable
  <2>2. work[m][p].pc = "off" /\ pos[m][p] \in Nat
    BY <1>t, <1>1, <2>1 DEF TypeOK, Idle
  <2> QED  BY <2>1, <2>2 DEF GroupInv, PosAt
<1>4. ASSUME NEW p \in S
      PROVE  /\ Goroutine(pos[m][p] + 1, pos[m][p] + n[p]) \in Goroutines
             /\ pos[m][p] + n[p] \in Nat
             /\ WorkAt(HandledSet, p, Goroutine(pos[m][p] + 1, pos[m][p] + n[p]))
             /\ PosAt(HandledSet, p, Goroutine(pos[m][p] + 1, pos[m][p] + n[p]),
                      pos[m][p] + n[p])
  BY <1>n, <1>3, PolledAt
<1>5. work' \in [Members -> [Partitions -> Goroutines]]
  BY <1>t, <1>n, <1>4, OffTyped DEF TypeOK
<1>6. pos' \in [Members -> [Partitions -> Nat]]
  BY <1>t, <1>n, <1>4 DEF TypeOK
<1>7. ASSUME NEW k \in Members, NEW q \in Partitions
      PROVE  Place(HandledSet, q, k, owner'[q], work'[k][q], pos'[k][q])
  <2>1. Place(HandledSet, q, k, owner[q], work[k][q], pos[k][q])
    BY Placed
  <2>2. CASE k # m
    <3>1. work'[k][q] = work[k][q] /\ pos'[k][q] = pos[k][q]
      BY <1>t, <1>n, <2>2 DEF TypeOK
    <3> QED  BY <1>1, <2>1, <3>1
  <2>3. CASE k = m /\ q \in S
    <3>1. /\ work'[k][q] = Goroutine(pos[m][q] + 1, pos[m][q] + n[q])
          /\ pos'[k][q] = pos[m][q] + n[q]
      BY <1>t, <1>n, <2>3 DEF TypeOK
    <3> QED  BY <1>4, <2>3, <3>1 DEF Place
  <2>4. CASE k = m /\ q \notin S
    <3>1. work'[k][q] = Off /\ pos'[k][q] = pos[k][q] /\ work[k][q].pc = "off"
      BY <1>t, <1>1, <1>n, <2>4 DEF TypeOK, Idle
    <3> QED  BY <1>1, <2>1, <3>1, OffTyped DEF Place, PosAt, WorkAt
  <2> QED  BY <2>2, <2>3, <2>4
<1> QED  BY <1>t, <1>1, <1>5, <1>6, <1>7, GroupKeeps DEF GroupInv, TypeOK

\* A goroutine that is through: what the poll loop commits and seeks back to.
LEMMA ThroughAt ==
    ASSUME GroupInv, NEW m \in Members, NEW p \in Partitions,
           work[m][p].pc \in {"done", "failed"}
    PROVE  /\ work[m][p].next - 1 \in Nat /\ Prefix(HandledSet, p, work[m][p].next - 1)
           /\ work[m][p].pc = "done" => work[m][p].to = work[m][p].next - 1
<1>1. work[m][p] \in Goroutines /\ WorkAt(HandledSet, p, work[m][p])
  BY DEF GroupInv, TypeOK
<1>2. work[m][p].next \in Nat /\ work[m][p].to \in Nat /\ work[m][p].from \in Nat
  BY <1>1 DEF Goroutines
<1>3. /\ 1 <= work[m][p].from /\ work[m][p].from <= work[m][p].next
      /\ Prefix(HandledSet, p, work[m][p].next - 1)
      /\ work[m][p].pc = "done" => work[m][p].next = work[m][p].to + 1
  BY <1>1 DEF WorkAt
<1> QED  BY SMT, <1>2, <1>3

LEMMA AllowRebalanceKeeps ==
    ASSUME GroupInv, NEW m \in Members, AllowRebalance(m)
    PROVE  GroupInv'
<1>t. TypeOK
  BY DEF GroupInv
<1>1. /\ \A p \in Partitions : work[m][p].pc \in {"off", "done", "failed"}
      /\ CommitRecords(m) \/ UNCHANGED committed
      /\ Fault \/ UNCHANGED faults
      /\ SetOffsets(m)
      /\ paused' = [paused EXCEPT ![m] = @ \cup
                      {p \in Partitions : work[m][p].pc = "failed"}]
      /\ kicked' = kicked \ {m}
      /\ work' = [work EXCEPT ![m] = [p \in Partitions |-> Off]]
      /\ UNCHANGED <<owner, stopping>> /\ UNCHANGED store
  BY ZenonT(30) DEF AllowRebalance
<1>2. ASSUME NEW p \in Partitions
      PROVE  committed'[p] \in Nat /\ Prefix(HandledSet, p, committed'[p])
  <2>1. committed[p] \in Nat /\ Prefix(HandledSet, p, committed[p])
    BY DEF GroupInv, TypeOK
  <2>2. CASE committed'[p] = committed[p]
    BY <2>1, <2>2
  <2>3. CASE committed'[p] = work[m][p].next - 1 /\ work[m][p].next > work[m][p].from
    <3>1. work[m][p] \in Goroutines /\ WorkAt(HandledSet, p, work[m][p])
      BY DEF GroupInv, TypeOK
    <3>2. work[m][p].pc # "off"
      <4>1. work[m][p].pc = "off" => work[m][p].next = work[m][p].from
        BY <3>1 DEF WorkAt
      <4>2. work[m][p].next \in Nat /\ work[m][p].from \in Nat
        BY <3>1 DEF Goroutines
      <4> QED  BY SMT, <2>3, <4>1, <4>2
    <3> QED  BY <1>1, <2>3, <3>2, ThroughAt
  <2> QED  BY <1>1, <2>2, <2>3 DEF CommitRecords
<1>3. committed' \in [Partitions -> Nat]
  <2>1. committed' = [p \in Partitions |-> committed'[p]]
    BY <1>t, <1>1 DEF CommitRecords, TypeOK
  <2> QED  BY <1>2, <2>1
<1>4. ASSUME NEW p \in Partitions, work[m][p].pc = "failed"
      PROVE  work[m][p].next - 1 \in Nat /\ Prefix(HandledSet, p, work[m][p].next - 1)
  BY <1>4, ThroughAt
<1>5. pos' \in [Members -> [Partitions -> Nat]]
  BY <1>t, <1>1, <1>4 DEF SetOffsets, TypeOK
<1>6. /\ work' \in [Members -> [Partitions -> Goroutines]]
      /\ paused' \in [Members -> SUBSET Partitions] /\ kicked' \subseteq Members
  BY <1>t, <1>1, OffTyped DEF TypeOK
<1>7. ASSUME NEW n \in Members, NEW q \in Partitions
      PROVE  Place(HandledSet, q, n, owner'[q], work'[n][q], pos'[n][q])
  <2>1. Place(HandledSet, q, n, owner[q], work[n][q], pos[n][q])
    BY Placed
  <2>2. CASE n # m
    <3>1. work'[n][q] = work[n][q] /\ pos'[n][q] = pos[n][q]
      BY <1>t, <1>1, <2>2 DEF SetOffsets, TypeOK
    <3> QED  BY <1>1, <2>1, <3>1
  <2>3. CASE n = m
    <3>1. work'[n][q] = Off
      BY <1>t, <1>1, <2>3 DEF TypeOK
    <3>2. pos'[n][q] = IF work[m][q].pc = "failed" THEN work[m][q].next - 1 ELSE pos[m][q]
      BY <1>t, <1>1, <2>3 DEF SetOffsets, TypeOK
    <3>3. owner[q] = m => Prefix(HandledSet, q, pos'[n][q])
      <4>1. CASE work[m][q].pc = "off"
        BY <2>1, <2>3, <3>2, <4>1 DEF Place, PosAt
      <4>2. CASE work[m][q].pc = "done"
        BY <2>1, <2>3, <3>2, <4>2, ThroughAt DEF Place, PosAt
      <4>3. CASE work[m][q].pc = "failed"
        BY <1>4, <3>2, <4>3
      <4> QED  BY <1>1, <4>1, <4>2, <4>3
    <3> QED  BY <1>1, <2>3, <3>1, <3>3, OffTyped DEF Place, WorkAt, PosAt
  <2> QED  BY <2>2, <2>3
<1> QED  BY <1>t, <1>1, <1>2, <1>3, <1>5, <1>6, <1>7, GroupKeeps DEF TypeOK

\* Retention forgets a message's dedup row, never that it was applied.
LEMMA CleanupKeeps ==
    ASSUME GroupInv, NEW i \in Messages, Cleanup(i)
    PROVE  GroupInv'
<1>1. /\ inbox' = inbox \ {i} /\ UNCHANGED <<work, applied, hooks, dlt, faults>>
      /\ UNCHANGED <<owner, kicked, committed, pos, paused, stopping>>
  BY DEF Cleanup, Context, group
<1>2. TypeOK'
  BY <1>1 DEF GroupInv, TypeOK
<1>3. Deduplicated' /\ HandledSet' = HandledSet
  BY <1>1 DEF GroupInv, Deduplicated, HandledSet, Handled
<1> QED  BY <1>1, <1>2, <1>3 DEF GroupInv

-----------------------------------------------------------------------------
LEMMA PartitionKeeps ==
    ASSUME GroupInv, NEW m \in Members, NEW p \in Partitions, Partition(m, p)
    PROVE  GroupInv'
  BY SkipKeeps, ProcessRecordKeeps, OnCommittedKeeps, PermanentKeeps, RetryAttemptKeeps,
     CancelledKeeps, ProduceDLTKeeps, ProduceDLTErrorKeeps, ProcessBatchOnceKeeps,
     BatchErrorKeeps, BatchCommittedKeeps DEF Partition

LEMMA StutterKeeps == GroupInv /\ UNCHANGED vars => GroupInv'
<1> SUFFICES ASSUME GroupInv, UNCHANGED vars PROVE GroupInv'
  OBVIOUS
<1>1. UNCHANGED store /\ UNCHANGED <<owner, kicked, committed, pos, paused, work, stopping, faults>>
  BY DEF vars, group
<1> QED  BY <1>1, Placed, GroupKeeps DEF GroupInv, TypeOK

LEMMA StepInv == GroupInv /\ [Next]_vars => GroupInv'
<1> SUFFICES ASSUME GroupInv, [Next]_vars PROVE GroupInv'
  OBVIOUS
<1>1. ASSUME NEW p \in Partitions, Revoke(p) PROVE GroupInv'
  BY <1>1, RevokeKeeps
<1>2. ASSUME NEW m \in Members, Kick(m) \/ Crash(m) \/ Cancel(m) \/ Close(m)
                                \/ PollFetches(m) \/ AllowRebalance(m)
      PROVE  GroupInv'
  BY <1>2, KickKeeps, CrashKeeps, FlagsKeep, CloseKeeps, PollFetchesKeeps,
     AllowRebalanceKeeps
<1>3. ASSUME NEW m \in Members, NEW p \in Partitions,
             Assign(p, m) \/ Resume(m, p) \/ Partition(m, p)
      PROVE  GroupInv'
  BY <1>3, AssignKeeps, FlagsKeep, PartitionKeeps
<1>4. ASSUME NEW i \in Messages, Cleanup(i) PROVE GroupInv'
  BY <1>4, CleanupKeeps
<1> QED  BY <1>1, <1>2, <1>3, <1>4, StutterKeeps DEF Next

\* No silent loss, for every group, log, poll size and retry budget and any
\* number of crashes, evictions, failed commits and redeliveries: a record
\* below the committed offset was applied, dead-lettered or of an unknown type
\* (kafka.Consumer.run commits the record before the first unhandled one).
THEOREM NoSilentLoss == Spec => []NoSkip
<1>1. GroupInv => NoSkip
  BY DEF GroupInv, NoSkip, Prefix, HandledSet
<1> QED  BY InitInv, StepInv, <1>1, PTL DEF Spec

-----------------------------------------------------------------------------
(* Who still owes what.                                                    *)

\* Goroutine w of partition p still owes message i its OnCommitted hook.
DueAt(p, w, i) ==
    \/ w.pc = "hook" /\ Log[p][w.next] = i
    \/ w.pc = "batch" /\ i \in w.ran

Due(m, p, i) == DueAt(p, work[m][p], i)

\* A member that was not evicted owns what it works on.
Held == \A m \in Members, p \in Partitions :
            work[m][p].pc # "off" /\ m \notin kicked => owner[p] = m

\* An owner fetches and works above the committed offset only.
AheadAt(w, n, c) == IF w.pc = "off" THEN c <= n ELSE c < w.from

Ahead == \A m \in Members, p \in Partitions :
            owner[p] = m => AheadAt(work[m][p], pos[m][p], committed[p])

\* No copy of message i will be handed to a handler again.
Gone(i) ==
    \A p \in Partitions : \A k \in 1..Len(Log[p]) : Log[p][k] = i =>
        /\ k <= committed[p]
        /\ \A m \in Members : k \notin work[m][p].next .. work[m][p].to

\* An applied message has its dedup row for as long as a copy may be handled.
Retired == \A i \in Messages : applied[i] > 0 /\ i \notin inbox => Gone(i)

\* A hook that is due belongs to the one goroutine that applied the message.
HookDue ==
    \A m \in Members, p \in Partitions, i \in Messages : Due(m, p, i) =>
        /\ applied[i] = 1 /\ hooks[i] = 0
        /\ \A n \in Members, q \in Partitions : Due(n, q, i) => n = m /\ q = p

OnceInv == Held /\ Ahead /\ Retired /\ HookDue /\ EffectOnce

-----------------------------------------------------------------------------
(* A step of a partition goroutine: it applies the messages A and runs the *)
(* hooks of B.                                                             *)

LEMMA ReachShrinks ==
    ASSUME NEW w \in Goroutines, NEW v \in Goroutines, v.to = w.to, v.next >= w.next,
           NEW k \in Nat, k \notin w.next..w.to
    PROVE  k \notin v.next..v.to
<1>1. w.next \in Nat /\ v.next \in Nat /\ w.to \in Nat
  BY DEF Goroutines
<1> QED  BY SMT, <1>1

\* The record a goroutine is about to handle was not applied before, or its
\* dedup row is there.
LEMMA FreshIsNew ==
    ASSUME GroupInv, OnceInv, NEW m \in Members, NEW p \in Partitions,
           NEW k \in Nat, k \in work[m][p].next..work[m][p].to, k \in 1..Len(Log[p]),
           Log[p][k] \in Messages \ inbox
    PROVE  applied[Log[p][k]] = 0 /\ hooks[Log[p][k]] = 0
<1>1. ~Gone(Log[p][k])
  BY DEF Gone
<1>2. applied[Log[p][k]] \in Nat /\ hooks[Log[p][k]] \in Nat
  BY DEF GroupInv, TypeOK
<1>3. ~(applied[Log[p][k]] > 0)
  BY <1>1 DEF OnceInv, Retired
<1>4. hooks[Log[p][k]] <= applied[Log[p][k]]
  BY DEF OnceInv, EffectOnce
<1> QED  BY SMT, <1>2, <1>3, <1>4

\* The messages A are applied for the first time, with their dedup rows.
Applying(A) ==
    /\ A \subseteq Messages /\ inbox' = inbox \cup A
    /\ \A i \in A : applied[i] = 0 /\ hooks[i] = 0 /\ applied'[i] = 1
    /\ \A i \in Messages \ A : applied'[i] = applied[i]

\* The goroutine runs the hooks of B and goes on as v.
Hooking(m, p, v, A, B) ==
    /\ B \subseteq Messages
    /\ \A i \in B : Due(m, p, i) /\ hooks'[i] = hooks[i] + 1
    /\ \A i \in Messages \ B : hooks'[i] = hooks[i]
    /\ \A i \in Messages : DueAt(p, v, i) => i \in A \/ (Due(m, p, i) /\ i \notin B)

LEMMA OnceWorker ==
    ASSUME GroupInv, OnceInv, NEW m \in Members, NEW p \in Partitions,
           NEW v \in Goroutines, Worker(m, p, v), UNCHANGED Context,
           work[m][p].pc # "off", v.pc # "off",
           v.from = work[m][p].from, v.to = work[m][p].to, v.next >= work[m][p].next,
           NEW A, NEW B, Applying(A), Hooking(m, p, v, A, B)
    PROVE  OnceInv'
<1> USE DEF Applying, Hooking
<1>t. TypeOK
  BY DEF GroupInv
<1>c. UNCHANGED <<owner, committed, pos, paused, kicked, stopping>>
  BY DEF Context, group
<1>w. \A n \in Members, q \in Partitions :
        work'[n][q] = IF n = m /\ q = p THEN v ELSE work[n][q]
  BY <1>t DEF TypeOK, Worker
<1>o. work[m][p] \in Goroutines
  BY <1>t DEF TypeOK
<1>1. Held'
  BY SMT, <1>c, <1>w DEF OnceInv, Held
<1>2. Ahead'
  <2> SUFFICES ASSUME NEW n \in Members, NEW q \in Partitions, owner[q] = n
               PROVE  AheadAt(work'[n][q], pos[n][q], committed[q])
    BY <1>c DEF Ahead
  <2>1. AheadAt(work[n][q], pos[n][q], committed[q])
    BY DEF OnceInv, Ahead
  <2>2. CASE n = m /\ q = p
    BY <1>w, <2>1, <2>2 DEF AheadAt
  <2>3. CASE ~(n = m /\ q = p)
    BY <1>w, <2>1, <2>3
  <2> QED  BY <2>2, <2>3
<1>b. \A i \in B : i \notin A /\ applied[i] = 1 /\ hooks[i] = 0
  BY SMT DEF OnceInv, HookDue
<1>3. EffectOnce'
  <2> SUFFICES ASSUME NEW i \in Messages PROVE applied'[i] <= 1 /\ hooks'[i] <= applied'[i]
    BY DEF EffectOnce
  <2>1. /\ applied[i] \in Nat /\ hooks[i] \in Nat /\ applied[i] <= 1 /\ hooks[i] <= applied[i]
    BY <1>t DEF TypeOK, OnceInv, EffectOnce
  <2>2. CASE i \in A
    BY SMT, <1>b, <2>2
  <2>3. CASE i \in B
    BY SMT, <1>b, <2>3
  <2> QED  BY <2>1, <2>2, <2>3
<1>4. Retired'
  <2> SUFFICES ASSUME NEW i \in Messages, applied'[i] > 0, i \notin inbox'
               PROVE  Gone(i)'
    BY DEF Retired
  <2>1. i \notin A /\ i \notin inbox /\ applied[i] > 0
    OBVIOUS
  <2>2. Gone(i)
    BY <2>1 DEF OnceInv, Retired
  <2> SUFFICES ASSUME NEW q \in Partitions, NEW k \in 1..Len(Log[q]), Log[q][k] = i,
                      NEW n \in Members
               PROVE  k \notin work'[n][q].next .. work'[n][q].to
    BY <1>c, <2>2 DEF Gone
  <2>3. k \notin work[n][q].next .. work[n][q].to /\ k \in Nat
    BY SMT, <2>2, LogTyped DEF Gone
  <2>4. CASE n = m /\ q = p
    BY <1>o, <1>w, <2>3, <2>4, ReachShrinks
  <2>5. CASE ~(n = m /\ q = p)
    BY <1>w, <2>3, <2>5
  <2> QED  BY <2>4, <2>5
<1>5. HookDue'
  <2>1. ASSUME NEW n \in Members, NEW q \in Partitions, NEW i \in Messages, Due(n, q, i)'
        PROVE  (i \in A /\ n = m /\ q = p) \/ (i \notin A /\ i \notin B /\ Due(n, q, i))
    <3>1. DueAt(q, work'[n][q], i)
      BY <2>1 DEF Due, DueAt
    <3>2. CASE n = m /\ q = p
      <4>1. DueAt(p, v, i)
        BY <1>w, <3>1, <3>2
      <4>2. Due(m, p, i) => applied[i] = 1
        BY DEF OnceInv, HookDue
      <4> QED  BY <3>2, <4>1, <4>2
    <3>3. CASE ~(n = m /\ q = p)
      <4>1. Due(n, q, i)
        BY <1>w, <3>1, <3>3 DEF Due
      <4>2. applied[i] = 1 /\ ~Due(m, p, i)
        BY SMT, <3>3, <4>1 DEF OnceInv, HookDue
      <4> QED  BY SMT, <4>1, <4>2
    <3> QED  BY <3>2, <3>3
  <2>2. ASSUME NEW n \in Members, NEW q \in Partitions, NEW i \in Messages, Due(n, q, i)'
        PROVE  applied'[i] = 1 /\ hooks'[i] = 0
    <3>1. CASE i \in A
      BY <1>b, <3>1
    <3>2. CASE i \notin A /\ i \notin B /\ Due(n, q, i)
      BY <3>2 DEF OnceInv, HookDue
    <3> QED  BY <2>1, <2>2, <3>1, <3>2
  <2>3. ASSUME NEW n \in Members, NEW q \in Partitions, NEW i \in Messages, Due(n, q, i)',
               NEW k \in Members, NEW r \in Partitions, Due(k, r, i)'
        PROVE  k = n /\ r = q
    <3>1. CASE i \in A
      BY <2>1, <2>3, <3>1
    <3>2. CASE i \notin A
      BY SMT, <2>1, <2>3, <3>2 DEF OnceInv, HookDue
    <3> QED  BY <3>1, <3>2
  <2> QED  BY SMT, <2>2, <2>3 DEF HookDue
<1> QED  BY <1>1, <1>2, <1>3, <1>4, <1>5 DEF OnceInv

\* A step that applies nothing and goes on to the next record.
LEMMA OnceAdvance ==
    ASSUME GroupInv, OnceInv, NEW m \in Members, NEW p \in Partitions,
           work[m][p].pc \in {"handle", "hook", "dlt"}, Advance(m, p),
           UNCHANGED Context, UNCHANGED <<inbox, applied>>,
           NEW B \in SUBSET Messages,
           \A i \in B : Due(m, p, i) /\ hooks'[i] = hooks[i] + 1,
           \A i \in Messages \ B : hooks'[i] = hooks[i]
    PROVE  OnceInv'
<1>1. PICK v \in Goroutines :
        /\ Worker(m, p, v)
        /\ v.pc = (IF work[m][p].next = work[m][p].to THEN "done" ELSE "handle")
        /\ v.from = work[m][p].from /\ v.to = work[m][p].to
        /\ v.next = work[m][p].next + 1
  BY AdvancedTo
<1>2. v.pc \in {"done", "handle"}
  BY <1>1
<1>3. v.next >= work[m][p].next
  <2>1. work[m][p].next \in Nat
    BY AtRecord DEF Goroutines
  <2> QED  BY SMT, <1>1, <2>1
<1>4. Applying({})
  BY DEF Applying
<1>5. Hooking(m, p, v, {}, B)
  BY <1>2 DEF Hooking, DueAt
<1>6. v.pc # "off" /\ work[m][p].pc # "off"
  BY <1>2
<1> QED  BY <1>1, <1>3, <1>4, <1>5, <1>6, OnceWorker

\* A step that runs no hook and stays at its record.
LEMMA OnceStay ==
    ASSUME GroupInv, OnceInv, NEW m \in Members, NEW p \in Partitions,
           work[m][p].pc # "off", NEW v \in Goroutines, Worker(m, p, v),
           v.from = work[m][p].from, v.next = work[m][p].next, v.to = work[m][p].to,
           v.pc \in {"handle", "dlt", "failed"},
           UNCHANGED Context, UNCHANGED hooks, NEW A, Applying(A)
    PROVE  OnceInv'
<1>1. v.next >= work[m][p].next /\ v.pc # "off"
  <2>1. v.next \in Nat
    BY DEF Goroutines
  <2> QED  BY SMT, <2>1
<1>2. Hooking(m, p, v, A, {})
  BY DEF Hooking, DueAt
<1> QED  BY <1>1, <1>2, OnceWorker

\* The inbox transaction applies the messages that have no dedup row.
LEMMA OnceApplying ==
    ASSUME NEW ids \in SUBSET Messages, ProcessOnce(ids),
           \A i \in ids \ inbox : applied[i] = 0 /\ hooks[i] = 0
    PROVE  Applying(ids \ inbox)
  BY SMT DEF ProcessOnce, Applying

LEMMA NoneApplying ==
    ASSUME UNCHANGED <<inbox, applied>>
    PROVE  Applying({})
  BY DEF Applying

\* The record at hand, if it is not in the inbox, was never applied.
LEMMA FreshMsg ==
    ASSUME GroupInv, OnceInv, NEW m \in Members, NEW p \in Partitions,
           work[m][p].pc = "handle", Msg(m, p) \notin inbox
    PROVE  applied[Msg(m, p)] = 0 /\ hooks[Msg(m, p)] = 0
<1>1. /\ work[m][p] \in Goroutines /\ work[m][p].next \in 1..work[m][p].to
      /\ work[m][p].to <= Len(Log[p]) /\ Msg(m, p) \in Messages
  BY AtRecord
<1>2. work[m][p].next \in Nat /\ work[m][p].to \in Nat /\ Len(Log[p]) \in Nat
  BY <1>1, LogTyped DEF Goroutines
<1>3. work[m][p].next \in 1..Len(Log[p])
  BY SMT, <1>1, <1>2
<1>4. work[m][p].next \in work[m][p].next..work[m][p].to
  BY SMT, <1>1, <1>2
<1> QED  BY <1>1, <1>2, <1>3, <1>4, FreshIsNew DEF Msg

LEMMA FreshGroup ==
    ASSUME GroupInv, OnceInv, NEW m \in Members, NEW p \in Partitions,
           work[m][p].pc = "batch", NEW i \in Group(m, p) \ inbox
    PROVE  applied[i] = 0 /\ hooks[i] = 0
<1>1. /\ work[m][p] \in Goroutines /\ WorkAt(HandledSet, p, work[m][p])
      /\ \A k \in work[m][p].from..work[m][p].to :
           k \in 1..Len(Log[p]) /\ Log[p][k] \in Messages
  BY AtBatch
<1>2. PICK k \in Live(m, p) : i = Log[p][k]
  BY DEF Group
<1>3. k \in work[m][p].from..work[m][p].to
  BY <1>2 DEF Live
<1>4. work[m][p].next = work[m][p].from
  BY <1>1 DEF WorkAt
<1>5. k \in Nat /\ k \in 1..Len(Log[p]) /\ Log[p][k] \in Messages
  BY SMT, <1>1, <1>3, LogTyped
<1> QED  BY <1>2, <1>3, <1>4, <1>5, FreshIsNew

-----------------------------------------------------------------------------
(* The actions of a goroutine.                                             *)

LEMMA SkipOnce ==
    ASSUME GroupInv, OnceInv, NEW m \in Members, NEW p \in Partitions,
           Skip(m, p) \/ ProduceDLT(m, p)
    PROVE  OnceInv'
<1>1. /\ work[m][p].pc \in {"handle", "dlt"} /\ Advance(m, p) /\ UNCHANGED Context
      /\ UNCHANGED <<inbox, applied, hooks>>
  BY DEF Skip, ProduceDLT, At, store
<1> DEFINE B == {}
<1>2. /\ B \in SUBSET Messages
      /\ \A i \in B : Due(m, p, i) /\ hooks'[i] = hooks[i] + 1
      /\ \A i \in Messages \ B : hooks'[i] = hooks[i]
  BY <1>1
<1> HIDE DEF B
<1> QED  BY <1>1, <1>2, OnceAdvance

LEMMA OnCommittedOnce ==
    ASSUME GroupInv, OnceInv, NEW m \in Members, NEW p \in Partitions, OnCommitted(m, p)
    PROVE  OnceInv'
<1>1. /\ work[m][p].pc = "hook" /\ Advance(m, p) /\ UNCHANGED Context
      /\ UNCHANGED <<inbox, applied>> /\ hooks' = [hooks EXCEPT ![Msg(m, p)] = @ + 1]
  BY DEF OnCommitted, At
<1>2. Msg(m, p) \in Messages /\ hooks \in [Messages -> Nat]
  BY <1>1, AtRecord DEF GroupInv, TypeOK
<1>3. Due(m, p, Msg(m, p))
  BY <1>1 DEF Due, DueAt, Msg
<1> DEFINE B == {Msg(m, p)}
<1>4. /\ B \in SUBSET Messages
      /\ \A i \in B : Due(m, p, i) /\ hooks'[i] = hooks[i] + 1
      /\ \A i \in Messages \ B : hooks'[i] = hooks[i]
  BY <1>1, <1>2, <1>3
<1> HIDE DEF B
<1> QED  BY <1>1, <1>4, OnceAdvance

LEMMA ProcessRecordOnce ==
    ASSUME GroupInv, OnceInv, NEW m \in Members, NEW p \in Partitions, ProcessRecord(m, p)
    PROVE  OnceInv'
<1> DEFINE v == [work[m][p] EXCEPT !.pc = "hook"]
           i == Msg(m, p)
<1>1. /\ work[m][p].pc = "handle" /\ ProcessOnce({i}) /\ Worker(m, p, v) /\ i \notin inbox
      /\ UNCHANGED Context /\ UNCHANGED hooks
  BY DEF ProcessRecord, Fresh, At
<1>2. i \in Messages /\ work[m][p] \in Goroutines
  BY <1>1, AtRecord
<1>3. applied[i] = 0 /\ hooks[i] = 0
  BY <1>1, FreshMsg
<1>4. Applying({i} \ inbox) /\ {i} \ inbox = {i}
  BY <1>1, <1>2, <1>3, OnceApplying
<1>5. /\ v \in Goroutines /\ v.pc = "hook" /\ v.from = work[m][p].from
      /\ v.next = work[m][p].next /\ v.to = work[m][p].to /\ v.next \in Nat
  BY <1>2 DEF Goroutines, Places
<1>6. i = Log[p][v.next]
  BY <1>5 DEF Msg
<1> HIDE DEF v, i
<1>7. Hooking(m, p, v, {i}, {})
  BY <1>1, <1>5, <1>6 DEF Hooking, DueAt
<1>8. v.next >= work[m][p].next /\ v.pc # "off" /\ work[m][p].pc # "off"
  BY SMT, <1>1, <1>5
<1> QED  BY <1>1, <1>4, <1>5, <1>7, <1>8, OnceWorker

LEMMA MoveOnce ==
    ASSUME GroupInv, OnceInv, NEW m \in Members, NEW p \in Partitions,
           Permanent(m, p) \/ Cancelled(m, p) \/ ProduceDLTError(m, p)
    PROVE  OnceInv'
<1>1. PICK place \in {"dlt", "failed"} :
        /\ work[m][p].pc \in {"handle", "dlt"}
        /\ Worker(m, p, [work[m][p] EXCEPT !.pc = place])
        /\ UNCHANGED Context /\ UNCHANGED <<inbox, applied, hooks>>
  BY DEF Permanent, Cancelled, ProduceDLTError, Fresh, Fail, At, store
<1> DEFINE v == [work[m][p] EXCEPT !.pc = place]
<1>2. work[m][p] \in Goroutines
  BY <1>1, AtRecord
<1>3. /\ v \in Goroutines /\ v.pc = place /\ v.from = work[m][p].from
      /\ v.next = work[m][p].next /\ v.to = work[m][p].to
  BY <1>2 DEF Goroutines, Places
<1>4. Worker(m, p, v)
  BY <1>1
<1> HIDE DEF v
<1>5. Applying({}) /\ work[m][p].pc # "off"
  BY <1>1, NoneApplying
<1> QED  BY <1>1, <1>3, <1>4, <1>5, OnceStay

LEMMA RetryAttemptOnce ==
    ASSUME GroupInv, OnceInv, NEW m \in Members, NEW p \in Partitions, RetryAttempt(m, p)
    PROVE  OnceInv'
<1>1. /\ work[m][p].pc = "handle" /\ Msg(m, p) \notin inbox
      /\ ProcessOnce({Msg(m, p)}) \/ UNCHANGED <<inbox, applied>>
      /\ UNCHANGED Context /\ UNCHANGED hooks
  BY DEF RetryAttempt, Fresh, At
<1>2. Msg(m, p) \in Messages /\ work[m][p] \in Goroutines
  BY <1>1, AtRecord
<1>3. applied[Msg(m, p)] = 0 /\ hooks[Msg(m, p)] = 0
  BY <1>1, FreshMsg
<1>4. PICK A : Applying(A)
  BY <1>1, <1>2, <1>3, OnceApplying, NoneApplying
<1>5. PICK v \in Goroutines :
        /\ Worker(m, p, v) /\ v.pc \in {"handle", "dlt"} /\ v.from = work[m][p].from
        /\ v.next = work[m][p].next /\ v.to = work[m][p].to
  <2>1. CASE work[m][p].tries + 1 < MaxAttempts
    <3> DEFINE v == [work[m][p] EXCEPT !.tries = @ + 1]
    <3>1. Worker(m, p, v)
      BY <2>1 DEF RetryAttempt
    <3>2. /\ v \in Goroutines /\ v.pc = work[m][p].pc /\ v.from = work[m][p].from
          /\ v.next = work[m][p].next /\ v.to = work[m][p].to
      BY SMT, <1>2 DEF Goroutines
    <3> HIDE DEF v
    <3> QED  BY <1>1, <3>1, <3>2
  <2>2. CASE ~(work[m][p].tries + 1 < MaxAttempts)
    <3> DEFINE v == [work[m][p] EXCEPT !.pc = "dlt"]
    <3>1. Worker(m, p, v)
      BY <2>2 DEF RetryAttempt
    <3>2. /\ v \in Goroutines /\ v.pc = "dlt" /\ v.from = work[m][p].from
          /\ v.next = work[m][p].next /\ v.to = work[m][p].to
      BY <1>2 DEF Goroutines, Places
    <3> HIDE DEF v
    <3> QED  BY <3>1, <3>2
  <2> QED  BY <2>1, <2>2
<1> QED  BY <1>1, <1>4, <1>5, OnceStay

LEMMA ProcessBatchOnceOnce ==
    ASSUME GroupInv, OnceInv, NEW m \in Members, NEW p \in Partitions, ProcessBatchOnce(m, p)
    PROVE  OnceInv'
<1> DEFINE w == work[m][p]
           A == Group(m, p) \ inbox
           v == [w EXCEPT !.groups = @ \cup {ShardOf[i] : i \in Group(m, p)}, !.ran = @ \cup A]
<1>1. /\ w.pc = "batch" /\ ProcessOnce(Group(m, p)) /\ Worker(m, p, v)
      /\ UNCHANGED Context /\ UNCHANGED hooks
  BY DEF ProcessBatchOnce, At
<1>2. w \in Goroutines /\ Group(m, p) \subseteq Messages
  BY <1>1, AtBatch
<1>3. \A i \in A : applied[i] = 0 /\ hooks[i] = 0
  BY <1>1, FreshGroup
<1>4. Applying(A)
  BY <1>1, <1>2, <1>3, OnceApplying
<1>5. {ShardOf[i] : i \in Group(m, p)} \subseteq Shards /\ A \subseteq Messages
  BY <1>2, GroupAssumption
<1>6. /\ v \in Goroutines /\ v.pc = w.pc /\ v.from = w.from /\ v.next = w.next
      /\ v.to = w.to /\ v.ran = w.ran \cup A /\ v.next \in Nat
  <2> HIDE DEF w, A
  <2> QED  BY <1>2, <1>5 DEF Goroutines
<1>7. Hooking(m, p, v, A, {})
  <2> HIDE DEF v, A
  <2> QED  BY <1>1, <1>6 DEF Hooking, Due, DueAt
<1> HIDE DEF v, A
<1>8. v.next >= w.next /\ v.pc # "off" /\ w.pc # "off"
  BY SMT, <1>1, <1>6
<1> QED  BY <1>1, <1>4, <1>6, <1>7, <1>8, OnceWorker

LEMMA BatchErrorOnce ==
    ASSUME GroupInv, OnceInv, NEW m \in Members, NEW p \in Partitions, BatchError(m, p)
    PROVE  OnceInv'
<1> DEFINE w == work[m][p]
           v == [w EXCEPT !.pc = "handle", !.groups = {}, !.ran = {}]
<1>1. /\ w.pc = "batch" /\ Worker(m, p, v)
      /\ ProcessOnce(Group(m, p)) \/ UNCHANGED <<inbox, applied>>
      /\ UNCHANGED Context /\ UNCHANGED hooks
  BY DEF BatchError, At, Fallback
<1>2. w \in Goroutines /\ Group(m, p) \subseteq Messages
  BY <1>1, AtBatch
<1>3. \A i \in Group(m, p) \ inbox : applied[i] = 0 /\ hooks[i] = 0
  BY <1>1, FreshGroup
<1>4. PICK A : Applying(A)
  BY <1>1, <1>2, <1>3, OnceApplying, NoneApplying
<1>5. v \in Goroutines /\ v.pc = "handle" /\ v.from = w.from /\ v.next = w.next /\ v.to = w.to
  <2> HIDE DEF w
  <2> QED  BY <1>2 DEF Goroutines, Places
<1> HIDE DEF v
<1> QED  BY <1>1, <1>4, <1>5, OnceStay

LEMMA BatchCommittedOnce ==
    ASSUME GroupInv, OnceInv, NEW m \in Members, NEW p \in Partitions, BatchCommitted(m, p)
    PROVE  OnceInv'
<1> DEFINE w == work[m][p]
           v == [w EXCEPT !.pc = "done", !.next = w.to + 1]
<1>1. /\ w.pc = "batch" /\ Worker(m, p, v) /\ UNCHANGED Context
      /\ UNCHANGED <<inbox, applied>>
      /\ hooks' = [i \in Messages |-> IF i \in w.ran THEN hooks[i] + 1 ELSE hooks[i]]
  BY DEF BatchCommitted, At
<1>2. w \in Goroutines /\ WorkAt(HandledSet, p, w)
  BY <1>1, AtBatch
<1>3. /\ w.ran \subseteq Messages /\ w.next \in Nat /\ w.to \in Nat /\ w.from \in Nat
  BY <1>2 DEF Goroutines
<1>4. w.next <= w.to
  BY <1>1, <1>2 DEF WorkAt
<1>5. /\ v \in Goroutines /\ v.pc = "done" /\ v.from = w.from /\ v.to = w.to /\ v.next = w.to + 1
  <2> HIDE DEF w
  <2>1. PICK n \in Nat : n = w.to + 1
    BY SMT, <1>3
  <2>2. v = [w EXCEPT !.pc = "done", !.next = n]
    BY <2>1
  <2> HIDE DEF v
  <2>3. v \in Goroutines /\ v.pc = "done" /\ v.from = w.from /\ v.to = w.to /\ v.next = n
    BY <1>2, <2>2 DEF Goroutines, Places
  <2> QED  BY <2>1, <2>3
<1> HIDE DEF v
<1>6. Hooking(m, p, v, {}, w.ran)
  BY <1>1, <1>3, <1>5 DEF Hooking, Due, DueAt
<1>7. v.next >= w.next /\ v.pc # "off" /\ w.pc # "off"
  BY SMT, <1>1, <1>3, <1>4, <1>5
<1>8. Applying({})
  BY <1>1, NoneApplying
<1> QED  BY <1>1, <1>5, <1>6, <1>7, <1>8, OnceWorker

LEMMA PartitionOnce ==
    ASSUME GroupInv, OnceInv, NEW m \in Members, NEW p \in Partitions, Partition(m, p)
    PROVE  OnceInv'
  BY SkipOnce, ProcessRecordOnce, OnCommittedOnce, MoveOnce, RetryAttemptOnce,
     ProcessBatchOnceOnce, BatchErrorOnce, BatchCommittedOnce DEF Partition

-----------------------------------------------------------------------------
(* The group and the poll loop.                                            *)

\* A goroutine is left alone, ends, or is started above the committed offset.
Replaced(w, v, c) ==
    \/ v = w
    \/ v = Off
    \/ v.pc \in {"handle", "batch"} /\ v.ran = {} /\ c < v.next

LEMMA OnceGroup ==
    ASSUME GroupInv, OnceInv, GroupInv', UNCHANGED store, Held', Ahead',
           \A q \in Partitions : committed[q] <= committed'[q],
           \A n \in Members, q \in Partitions :
             Replaced(work[n][q], work'[n][q], committed[q])
    PROVE  OnceInv'
<1>s. UNCHANGED <<inbox, applied, hooks>>
  BY DEF store
<1>1. EffectOnce'
  BY <1>s DEF OnceInv, EffectOnce
<1>2. HookDue'
  <2>1. ASSUME NEW n \in Members, NEW q \in Partitions, NEW i \in Messages, Due(n, q, i)'
        PROVE  Due(n, q, i)
    <3>1. DueAt(q, work'[n][q], i)
      BY <2>1 DEF Due, DueAt
    <3>2. CASE work'[n][q] = work[n][q]
      BY <3>1, <3>2 DEF Due
    <3>3. CASE work'[n][q] = Off
      BY SMT, <3>1, <3>3 DEF DueAt, Off
    <3>4. CASE work'[n][q].pc \in {"handle", "batch"} /\ work'[n][q].ran = {}
      BY <3>1, <3>4 DEF DueAt
    <3> QED  BY <3>2, <3>3, <3>4 DEF Replaced
  <2>2. \A i \in Messages : applied'[i] = applied[i] /\ hooks'[i] = hooks[i]
    BY <1>s
  <2>3. ASSUME NEW n \in Members, NEW q \in Partitions, NEW i \in Messages, Due(n, q, i)'
        PROVE  /\ applied'[i] = 1 /\ hooks'[i] = 0
               /\ \A k \in Members, r \in Partitions : Due(k, r, i)' => k = n /\ r = q
    <3>1. Due(n, q, i)
      BY <2>1, <2>3
    <3>2. /\ applied[i] = 1 /\ hooks[i] = 0
          /\ \A k \in Members, r \in Partitions : Due(k, r, i) => k = n /\ r = q
      BY <3>1 DEF OnceInv, HookDue
    <3> QED  BY <2>1, <2>2, <3>2
  <2> QED  BY <2>3 DEF HookDue
<1>3. Retired'
  <2> SUFFICES ASSUME NEW i \in Messages, applied'[i] > 0, i \notin inbox'
               PROVE  Gone(i)'
    BY DEF Retired
  <2>1. Gone(i)
    BY <1>s DEF OnceInv, Retired
  <2> SUFFICES ASSUME NEW q \in Partitions, NEW k \in 1..Len(Log[q]), Log[q][k] = i
               PROVE  /\ k <= committed'[q]
                      /\ \A n \in Members : k \notin work'[n][q].next .. work'[n][q].to
    BY DEF Gone
  <2>2. k \in Nat /\ committed[q] \in Nat /\ committed'[q] \in Nat /\ 1 <= k
    BY SMT, LogTyped DEF GroupInv, TypeOK
  <2>3. k <= committed[q]
    BY <2>1 DEF Gone
  <2>4. k <= committed'[q]
    BY SMT, <2>2, <2>3
  <2>5. ASSUME NEW n \in Members PROVE k \notin work'[n][q].next .. work'[n][q].to
    <3>1. work'[n][q].next \in Nat /\ work'[n][q].to \in Nat
      <4>1. work'[n][q] \in Goroutines
        BY SMT DEF GroupInv, TypeOK
      <4> QED  BY <4>1 DEF Goroutines
    <3>2. CASE work'[n][q] = work[n][q]
      BY <2>1, <3>2 DEF Gone
    <3>3. CASE work'[n][q] = Off
      BY SMT, <2>2, <3>3 DEF Off
    <3>4. CASE committed[q] < work'[n][q].next
      BY SMT, <2>2, <2>3, <3>1, <3>4
    <3> QED  BY <3>2, <3>3, <3>4 DEF Replaced
  <2> QED  BY <2>4, <2>5
<1> QED  BY <1>1, <1>2, <1>3 DEF OnceInv

\* The committed offsets stay and no goroutine starts.
LEMMA OnceQuiet ==
    ASSUME GroupInv, OnceInv, GroupInv', UNCHANGED store, UNCHANGED committed, Held', Ahead',
           \A n \in Members, q \in Partitions : work'[n][q] \in {work[n][q], Off}
    PROVE  OnceInv'
<1>1. \A q \in Partitions : committed[q] <= committed'[q]
  BY SMT DEF GroupInv, TypeOK
<1>2. \A n \in Members, q \in Partitions : Replaced(work[n][q], work'[n][q], committed[q])
  BY DEF Replaced
<1> QED  BY <1>1, <1>2, OnceGroup

LEMMA AssignOnce ==
    ASSUME GroupInv, OnceInv, GroupInv', NEW m \in Members, NEW p \in Partitions, Assign(p, m)
    PROVE  OnceInv'
<1>1. /\ owner[p] = None
      /\ owner' = [owner EXCEPT ![p] = m] /\ pos' = [pos EXCEPT ![m][p] = committed[p]]
      /\ Idle(m) /\ UNCHANGED <<committed, work, kicked>> /\ UNCHANGED store
  BY DEF Assign
<1>t. TypeOK
  BY DEF GroupInv
<1>2. Held'
  <2> SUFFICES ASSUME NEW n \in Members, NEW q \in Partitions,
                      work[n][q].pc # "off", n \notin kicked
               PROVE  owner'[q] = n
    BY <1>1 DEF Held
  <2>1. owner[q] = n
    BY DEF OnceInv, Held
  <2>2. q # p
    BY <1>1, <2>1, GroupAssumption
  <2> QED  BY <1>t, <1>1, <2>1, <2>2 DEF TypeOK
<1>3. Ahead'
  <2> SUFFICES ASSUME NEW n \in Members, NEW q \in Partitions, owner'[q] = n
               PROVE  AheadAt(work[n][q], pos'[n][q], committed[q])
    BY <1>1 DEF Ahead
  <2>1. CASE q = p
    <3>1. n = m /\ pos'[n][q] = committed[q] /\ work[m][p].pc = "off" /\ committed[q] \in Nat
      BY <1>t, <1>1, <2>1 DEF TypeOK, Idle
    <3> QED  BY SMT, <2>1, <3>1 DEF AheadAt
  <2>2. CASE q # p
    <3>1. owner[q] = n /\ pos'[n][q] = pos[n][q]
      BY <1>t, <1>1, <2>2 DEF TypeOK
    <3> QED  BY <3>1 DEF OnceInv, Ahead
  <2> QED  BY <2>1, <2>2
<1> QED  BY <1>1, <1>2, <1>3, OnceQuiet

\* Partitions are lost by a member that is idle, evicted or gone.
LEMMA LostOnce ==
    ASSUME GroupInv, OnceInv, GroupInv', UNCHANGED store, UNCHANGED <<committed, pos>>,
           \A q \in Partitions : owner'[q] \in {owner[q], None},
           \A n \in Members, q \in Partitions :
             work'[n][q] = work[n][q] \/ (work'[n][q] = Off /\ owner'[q] # n),
           Held'
    PROVE  OnceInv'
<1>1. Ahead'
  <2> SUFFICES ASSUME NEW n \in Members, NEW q \in Partitions, owner'[q] = n
               PROVE  AheadAt(work'[n][q], pos[n][q], committed[q])
    BY DEF Ahead
  <2>1. owner[q] = n /\ work'[n][q] = work[n][q]
    BY GroupAssumption
  <2> QED  BY <2>1 DEF OnceInv, Ahead
<1> QED  BY <1>1, OnceQuiet

LEMMA RevokeOnce ==
    ASSUME GroupInv, OnceInv, GroupInv', NEW p \in Partitions, Revoke(p)
    PROVE  OnceInv'
<1>1. /\ owner' = [owner EXCEPT ![p] = None] /\ owner[p] # None /\ Idle(owner[p])
      /\ UNCHANGED <<committed, pos, work, kicked>> /\ UNCHANGED store
  BY DEF Revoke
<1>2. \A q \in Partitions : owner'[q] = IF q = p THEN None ELSE owner[q]
  BY <1>1 DEF GroupInv, TypeOK
<1>3. Held'
  BY <1>1, <1>2 DEF OnceInv, Held, Idle
<1> QED  BY <1>1, <1>2, <1>3, LostOnce

LEMMA LeaveOnce ==
    ASSUME GroupInv, OnceInv, GroupInv', NEW m \in Members, Kick(m) \/ Close(m)
    PROVE  OnceInv'
<1>1. /\ Leave(m) /\ UNCHANGED <<committed, pos, work>> /\ UNCHANGED store
      /\ kicked' = kicked \cup {m} \/ (kicked' = kicked /\ Idle(m))
  BY DEF Kick, Close
<1>2. \A q \in Partitions : owner'[q] = IF owner[q] = m THEN None ELSE owner[q]
  BY <1>1 DEF Leave
<1>3. Held'
  BY <1>1, <1>2 DEF OnceInv, Held, Idle
<1> QED  BY <1>1, <1>2, <1>3, LostOnce

LEMMA CrashOnce ==
    ASSUME GroupInv, OnceInv, GroupInv', NEW m \in Members, Crash(m)
    PROVE  OnceInv'
<1>1. /\ Leave(m) /\ kicked' = kicked \ {m} /\ UNCHANGED <<committed, pos>> /\ UNCHANGED store
      /\ work' = [work EXCEPT ![m] = [p \in Partitions |-> Off]]
  BY DEF Crash
<1>2. \A q \in Partitions : owner'[q] = IF owner[q] = m THEN None ELSE owner[q]
  BY <1>1 DEF Leave
<1>3. \A n \in Members, q \in Partitions :
        work'[n][q] = IF n = m THEN Off ELSE work[n][q]
  BY <1>1 DEF GroupInv, TypeOK
<1>4. Held'
  BY SMT, <1>1, <1>2, <1>3, OffTyped DEF OnceInv, Held
<1>5. \A q \in Partitions : owner'[q] # m
  BY <1>2, GroupAssumption
<1> QED  BY SMT, <1>1, <1>2, <1>3, <1>4, <1>5, LostOnce

LEMMA FlagsOnce ==
    ASSUME GroupInv, OnceInv, GroupInv', NEW m \in Members,
           Cancel(m) \/ \E p \in Partitions : Resume(m, p)
    PROVE  OnceInv'
<1>1. UNCHANGED <<owner, committed, pos, work, kicked>> /\ UNCHANGED store
  BY DEF Cancel, Resume, group
<1>2. Held' /\ \A q \in Partitions : owner'[q] \in {owner[q], None}
  BY <1>1 DEF OnceInv, Held
<1>3. \A n \in Members, q \in Partitions : work'[n][q] = work[n][q]
  BY <1>1
<1> QED  BY <1>1, <1>2, <1>3, LostOnce

\* A poll starts its goroutines at the position, above the committed offset.
LEMMA PollFetchesOnce ==
    ASSUME GroupInv, OnceInv, GroupInv', NEW m \in Members, PollFetches(m)
    PROVE  OnceInv'
<1>t. TypeOK
  BY DEF GroupInv
<1>1. Idle(m) /\ UNCHANGED <<owner, kicked, committed>> /\ UNCHANGED store
  BY DEF PollFetches, group
<1>s. PICK S \in SUBSET Fetchable(m) : \E n \in [S -> 1..MaxPoll] :
         /\ \A p \in S : pos[m][p] + n[p] <= Len(Log[p])
         /\ work' = [work EXCEPT ![m] = [p \in Partitions |->
                        IF p \in S THEN Goroutine(pos[m][p] + 1, pos[m][p] + n[p])
                                   ELSE Off]]
         /\ pos' = [pos EXCEPT ![m] = [p \in Partitions |->
                        IF p \in S THEN @[p] + n[p] ELSE @[p]]]
  BY DEF PollFetches
<1>2. PICK n \in [S -> 1..MaxPoll] :
         /\ work' = [work EXCEPT ![m] = [p \in Partitions |->
                        IF p \in S THEN Goroutine(pos[m][p] + 1, pos[m][p] + n[p])
                                   ELSE Off]]
         /\ pos' = [pos EXCEPT ![m] = [p \in Partitions |->
                        IF p \in S THEN @[p] + n[p] ELSE @[p]]]
  BY <1>s
<1>3. ASSUME NEW k \in Members, NEW q \in Partitions, k # m
      PROVE  work'[k][q] = work[k][q] /\ pos'[k][q] = pos[k][q]
  BY <1>t, <1>2, <1>3 DEF TypeOK
<1>4. ASSUME NEW q \in Partitions \ S
      PROVE  work'[m][q] = Off /\ pos'[m][q] = pos[m][q] /\ work[m][q].pc = "off"
  BY <1>t, <1>1, <1>2 DEF TypeOK, Idle
<1>5. ASSUME NEW q \in S
      PROVE  /\ q \in Partitions /\ owner[q] = m
             /\ work'[m][q].pc \in {"handle", "batch"} /\ work'[m][q].ran = {}
             /\ committed[q] < work'[m][q].next /\ committed[q] < work'[m][q].from
  <2>1. q \in Partitions /\ owner[q] = m
    BY DEF Fetchable
  <2>2. work'[m][q] = Goroutine(pos[m][q] + 1, pos[m][q] + n[q])
    BY <1>t, <1>2, <2>1 DEF TypeOK
  <2>3. /\ work'[m][q].pc \in {"handle", "batch"} /\ work'[m][q].ran = {}
        /\ work'[m][q].next = pos[m][q] + 1 /\ work'[m][q].from = pos[m][q] + 1
    BY SMT, <2>2 DEF Goroutine
  <2>4. committed[q] \in Nat /\ pos[m][q] \in Nat /\ committed[q] <= pos[m][q]
    BY SMT, <1>t, <1>1, <2>1 DEF TypeOK, OnceInv, Ahead, AheadAt, Idle
  <2> QED  BY SMT, <2>1, <2>3, <2>4
<1>6. Held'
  <2> SUFFICES ASSUME NEW k \in Members, NEW q \in Partitions,
                      work'[k][q].pc # "off", k \notin kicked
               PROVE  owner[q] = k
    BY <1>1 DEF Held
  <2>1. CASE k # m
    BY <1>3, <2>1 DEF OnceInv, Held
  <2>2. CASE k = m
    BY <1>4, <1>5, <2>2, OffTyped
  <2> QED  BY <2>1, <2>2
<1>7. Ahead'
  <2> SUFFICES ASSUME NEW k \in Members, NEW q \in Partitions, owner[q] = k
               PROVE  AheadAt(work'[k][q], pos'[k][q], committed[q])
    BY <1>1 DEF Ahead
  <2>1. AheadAt(work[k][q], pos[k][q], committed[q])
    BY DEF OnceInv, Ahead
  <2>2. CASE k # m
    BY <1>3, <2>1, <2>2
  <2>3. CASE k = m /\ q \notin S
    BY <1>4, <2>1, <2>3, OffTyped DEF AheadAt
  <2>4. CASE k = m /\ q \in S
    BY <1>5, <2>4 DEF AheadAt
  <2> QED  BY <2>2, <2>3, <2>4
<1>8. \A k \in Members, q \in Partitions : Replaced(work[k][q], work'[k][q], committed[q])
  BY SMT, <1>3, <1>4, <1>5 DEF Replaced
<1>9. \A q \in Partitions : committed[q] <= committed'[q]
  BY SMT, <1>t, <1>1 DEF TypeOK
<1> QED  BY <1>1, <1>6, <1>7, <1>8, <1>9, OnceGroup

\* What the poll loop commits is above the committed offset, and where it seeks
\* back to is not below it.
LEMMA AllowRebalanceOnce ==
    ASSUME GroupInv, OnceInv, GroupInv', NEW m \in Members, AllowRebalance(m)
    PROVE  OnceInv'
<1>t. TypeOK
  BY DEF GroupInv
<1>1. /\ \A p \in Partitions : work[m][p].pc \in {"off", "done", "failed"}
      /\ (CommitRecords(m) /\ m \notin kicked) \/ UNCHANGED committed
      /\ SetOffsets(m)
      /\ kicked' = kicked \ {m}
      /\ work' = [work EXCEPT ![m] = [p \in Partitions |-> Off]]
      /\ UNCHANGED owner /\ UNCHANGED store
  BY ZenonT(30) DEF AllowRebalance
<1>2. \A n \in Members, q \in Partitions : work'[n][q] = IF n = m THEN Off ELSE work[n][q]
  BY <1>t, <1>1 DEF TypeOK
<1>3. \A n \in Members, q \in Partitions :
        pos'[n][q] = IF n = m /\ work[m][q].pc = "failed" THEN work[m][q].next - 1
                                                          ELSE pos[n][q]
  BY <1>t, <1>1 DEF SetOffsets, TypeOK
<1>4. ASSUME NEW q \in Partitions
      PROVE  /\ committed[q] \in Nat /\ work[m][q].next \in Nat /\ work[m][q].from \in Nat
             /\ pos[m][q] \in Nat /\ work[m][q].to \in Nat
  <2>1. work[m][q] \in Goroutines /\ committed[q] \in Nat /\ pos[m][q] \in Nat
    BY <1>t DEF TypeOK
  <2> QED  BY <2>1 DEF Goroutines
<1>5. ASSUME NEW q \in Partitions
      PROVE  \/ committed'[q] = committed[q]
             \/ /\ committed'[q] = work[m][q].next - 1 /\ work[m][q].next > work[m][q].from
                /\ work[m][q].pc # "off" /\ owner[q] = m
  <2>1. \/ committed'[q] = committed[q]
        \/ committed'[q] = work[m][q].next - 1 /\ work[m][q].next > work[m][q].from /\ m \notin kicked
    BY <1>1 DEF CommitRecords
  <2>2. work[m][q].pc = "off" => work[m][q].next = work[m][q].from
    BY DEF GroupInv, WorkAt
  <2>3. work[m][q].next > work[m][q].from => work[m][q].pc # "off"
    BY SMT, <1>4, <2>2
  <2>4. work[m][q].pc # "off" /\ m \notin kicked => owner[q] = m
    BY DEF OnceInv, Held
  <2> QED  BY <2>1, <2>3, <2>4
<1>6. ASSUME NEW q \in Partitions PROVE committed[q] <= committed'[q]
  <2>1. owner[q] = m /\ work[m][q].pc # "off" => committed[q] < work[m][q].from
    BY DEF OnceInv, Ahead, AheadAt
  <2> QED  BY SMT, <1>4, <1>5, <2>1
<1>7. Held'
  BY SMT, <1>1, <1>2, OffTyped DEF OnceInv, Held
<1>8. Ahead'
  <2> SUFFICES ASSUME NEW n \in Members, NEW q \in Partitions, owner[q] = n
               PROVE  AheadAt(work'[n][q], pos'[n][q], committed'[q])
    BY <1>1 DEF Ahead
  <2>1. AheadAt(work[n][q], pos[n][q], committed[q])
    BY DEF OnceInv, Ahead
  <2>2. CASE n # m
    <3>1. committed'[q] = committed[q]
      BY <1>5, <2>2
    <3> QED  BY <1>2, <1>3, <2>1, <2>2, <3>1
  <2>3. CASE n = m
    <3> SUFFICES committed'[q] <= pos'[m][q]
      BY <1>2, <2>3, OffTyped DEF AheadAt
    <3>1. CASE work[m][q].pc = "off"
      <4>1. pos'[m][q] = pos[m][q] /\ committed'[q] = committed[q]
        BY <1>3, <1>5, <3>1
      <4> QED  BY <2>1, <2>3, <3>1, <4>1 DEF AheadAt
    <3>2. CASE work[m][q].pc # "off"
      <4>1. committed[q] < work[m][q].from
        BY <2>1, <2>3, <3>2 DEF AheadAt
      <4>2. work[m][q].from <= work[m][q].next
        BY <3>2 DEF GroupInv, WorkAt
      <4>3. pos'[m][q] = work[m][q].next - 1
        <5>1. CASE work[m][q].pc = "failed"
          BY <1>3, <5>1
        <5>2. CASE work[m][q].pc = "done"
          <6>1. pos[m][q] = work[m][q].to /\ work[m][q].to = work[m][q].next - 1
            BY <2>3, <5>2, ThroughAt DEF GroupInv, PosAt
          <6> QED  BY <1>3, <5>2, <6>1
        <5> QED  BY <1>1, <3>2, <5>1, <5>2
      <4> QED  BY SMT, <1>4, <1>5, <4>1, <4>2, <4>3
    <3> QED  BY <3>1, <3>2
  <2> QED  BY <2>2, <2>3
<1>9. \A n \in Members, q \in Partitions : Replaced(work[n][q], work'[n][q], committed[q])
  BY <1>2 DEF Replaced
<1> QED  BY <1>1, <1>6, <1>7, <1>8, <1>9, OnceGroup

\* Retention deletes a dedup row when no copy can be handled again.
LEMMA CleanupOnce ==
    ASSUME GroupInv, OnceInv, NEW i \in Messages, Cleanup(i)
    PROVE  OnceInv'
<1>1. /\ inbox' = inbox \ {i} /\ UNCHANGED <<work, applied, hooks>>
      /\ UNCHANGED <<owner, kicked, committed, pos>>
  BY DEF Cleanup, Context, group
<1>2. Gone(i)
  BY DEF Cleanup, Gone
<1>3. \A j \in Messages : Gone(j)' = Gone(j)
  BY <1>1 DEF Gone
<1>4. Retired'
  BY <1>1, <1>2, <1>3 DEF OnceInv, Retired
<1>5. Held' /\ Ahead' /\ EffectOnce'
  BY <1>1 DEF OnceInv, Held, Ahead, EffectOnce
<1>6. HookDue'
  BY SMT, <1>1 DEF OnceInv, HookDue, Due
<1> QED  BY <1>4, <1>5, <1>6 DEF OnceInv

-----------------------------------------------------------------------------
LEMMA OnceInit == Init => OnceInv
<1> SUFFICES ASSUME Init PROVE OnceInv
  OBVIOUS
<1>1. /\ \A m \in Members, p \in Partitions : work[m][p] = Off /\ pos[m][p] = 0
      /\ \A p \in Partitions : owner[p] = None /\ committed[p] = 0
      /\ \A i \in Messages : applied[i] = 0 /\ hooks[i] = 0
  BY DEF Init
<1>2. Held /\ Ahead
  BY SMT, <1>1, OffTyped DEF Held, Ahead, AheadAt
<1>3. Retired /\ EffectOnce
  BY SMT, <1>1 DEF Retired, EffectOnce
<1>4. HookDue
  BY <1>1, OffTyped DEF HookDue, Due, DueAt
<1> QED  BY <1>2, <1>3, <1>4 DEF OnceInv

LEMMA OnceStep == GroupInv /\ GroupInv' /\ OnceInv /\ [Next]_vars => OnceInv'
<1> SUFFICES ASSUME GroupInv, GroupInv', OnceInv, [Next]_vars PROVE OnceInv'
  OBVIOUS
<1>1. ASSUME NEW p \in Partitions, Revoke(p) PROVE OnceInv'
  BY <1>1, RevokeOnce
<1>2. ASSUME NEW m \in Members, Kick(m) \/ Crash(m) \/ Cancel(m) \/ Close(m)
                                \/ PollFetches(m) \/ AllowRebalance(m)
      PROVE  OnceInv'
  BY <1>2, LeaveOnce, CrashOnce, FlagsOnce, PollFetchesOnce, AllowRebalanceOnce
<1>3. ASSUME NEW m \in Members, NEW p \in Partitions,
             Assign(p, m) \/ Resume(m, p) \/ Partition(m, p)
      PROVE  OnceInv'
  BY <1>3, AssignOnce, FlagsOnce, PartitionOnce
<1>4. ASSUME NEW i \in Messages, Cleanup(i) PROVE OnceInv'
  BY <1>4, CleanupOnce
<1>5. CASE UNCHANGED vars
  <2>1. UNCHANGED <<owner, committed, pos, work, kicked>> /\ UNCHANGED store
    BY <1>5 DEF vars, group
  <2>2. Held' /\ \A q \in Partitions : owner'[q] \in {owner[q], None}
    BY <2>1 DEF OnceInv, Held
  <2>3. \A n \in Members, q \in Partitions : work'[n][q] = work[n][q]
    BY <2>1
  <2> QED  BY <2>1, <2>2, <2>3, LostOnce
<1> QED  BY <1>1, <1>2, <1>3, <1>4, <1>5 DEF Next

\* Effectively once, for every group, log and retry budget and any number of
\* faults: copies of a message that are redelivered, duplicated in the topic or
\* processed by an evicted member at the same time commit its side effect at
\* most once, and its OnCommitted hook runs at most once and only after that
\* (inbox.ProcessOnce; the retention of the dedup rows is Cleanup's guard).
THEOREM EffectivelyOnce == Spec => []EffectOnce
<1>1. OnceInv => EffectOnce
  BY DEF OnceInv
<1> QED  BY InitInv, StepInv, OnceInit, OnceStep, <1>1, PTL DEF Spec

-----------------------------------------------------------------------------
(* Per-key order.  It needs no invariant of its own: GroupInv says that a  *)
(* goroutine has handled everything before the record it is at.            *)

\* Whatever a step handles comes after the handled records of its shard.
NewInOrder(p) ==
    \A i \in HandledSet' \ HandledSet : \E n \in 1..Len(Log[p]) :
        /\ Log[p][n] = i
        /\ \A j \in 1..n - 1 : ShardOf[Log[p][j]] = ShardOf[i] => Log[p][j] \in HandledSet'

LEMMA OrderKept ==
    ASSUME ShardOrder, HandledSet \subseteq HandledSet', NEW p \in Partitions, NewInOrder(p)
    PROVE  ShardOrder'
<1> SUFFICES ASSUME NEW q \in Partitions, NEW k \in 1..Len(Log[q]), NEW j \in 1..k - 1,
                    ShardOf[Log[q][j]] = ShardOf[Log[q][k]],
                    Kind[Log[q][k]] # "unknown", Handled(Log[q][k])',
                    \A h \in 1..j : Log[q][h] # Log[q][k]
             PROVE  Handled(Log[q][j])'
  BY DEF ShardOrder
<1>1. /\ Len(Log[q]) \in Nat /\ k \in Nat /\ j \in Nat /\ j \in 1..Len(Log[q])
      /\ Log[q][k] \in Messages /\ Log[q][j] \in Messages
  BY SMT, LogTyped
<1>2. CASE Handled(Log[q][k])
  <2>1. Handled(Log[q][j])
    BY <1>2 DEF ShardOrder
  <2> QED  BY <1>1, <2>1 DEF HandledSet
<1>3. CASE ~Handled(Log[q][k])
  <2>1. Log[q][k] \in HandledSet' \ HandledSet
    BY <1>1, <1>3 DEF HandledSet
  <2>2. PICK n \in 1..Len(Log[p]) :
          /\ Log[p][n] = Log[q][k]
          /\ \A h \in 1..n - 1 : ShardOf[Log[p][h]] = ShardOf[Log[q][k]] => Log[p][h] \in HandledSet'
    BY <2>1 DEF NewInOrder
  <2>3. p = q
    BY <2>2, KeyedAssumption
  <2>4. n \in Nat /\ n \notin 1..j
    BY SMT, <2>2, <2>3, LogTyped
  <2>5. j \in 1..n - 1
    BY SMT, <1>1, <2>4
  <2> QED  BY <2>2, <2>3, <2>5 DEF HandledSet
<1> QED  BY <1>2, <1>3

\* The record a goroutine is at: everything before it is handled.
LEMMA RecordInOrder ==
    ASSUME GroupInv, NEW m \in Members, NEW p \in Partitions,
           work[m][p].pc \in {"handle", "hook", "dlt"},
           HandledSet \subseteq HandledSet', HandledSet' \subseteq HandledSet \cup {Msg(m, p)}
    PROVE  NewInOrder(p)
<1> SUFFICES ASSUME NEW i \in HandledSet' \ HandledSet
             PROVE  \E n \in 1..Len(Log[p]) :
                      /\ Log[p][n] = i
                      /\ \A j \in 1..n - 1 : Log[p][j] \in HandledSet'
  BY DEF NewInOrder
<1>1. /\ work[m][p] \in Goroutines /\ WorkAt(HandledSet, p, work[m][p])
      /\ work[m][p].next \in 1..work[m][p].to /\ work[m][p].to <= Len(Log[p])
  BY AtRecord
<1>2. work[m][p].next \in Nat /\ work[m][p].to \in Nat /\ Len(Log[p]) \in Nat
  BY <1>1, LogTyped DEF Goroutines
<1>3. work[m][p].next \in 1..Len(Log[p])
  BY SMT, <1>1, <1>2
<1>4. Prefix(HandledSet, p, work[m][p].next - 1)
  BY <1>1 DEF WorkAt
<1>5. i = Log[p][work[m][p].next]
  BY DEF Msg
<1> WITNESS work[m][p].next \in 1..Len(Log[p])
<1> QED  BY <1>4, <1>5 DEF Prefix

\* The shard group of a batch: everything before the poll is handled, and the
\* group holds the records of its shard in the poll.
LEMMA GroupInOrder ==
    ASSUME GroupInv, NEW m \in Members, NEW p \in Partitions, work[m][p].pc = "batch",
           HandledSet \subseteq HandledSet', Group(m, p) \subseteq HandledSet',
           HandledSet' \subseteq HandledSet \cup Group(m, p)
    PROVE  NewInOrder(p)
<1>1. /\ work[m][p] \in Goroutines /\ WorkAt(HandledSet, p, work[m][p])
      /\ \A k \in work[m][p].from..work[m][p].to :
           k \in 1..Len(Log[p]) /\ Log[p][k] \in Messages
  BY AtBatch
<1>2. work[m][p].from \in Nat /\ work[m][p].to \in Nat /\ Len(Log[p]) \in Nat
  BY <1>1, LogTyped DEF Goroutines
<1>3. PICK s : Group(m, p) =
                 {Log[p][k] : k \in {k \in Live(m, p) : ShardOf[Log[p][k]] = s}}
  BY DEF Group
<1>4. Prefix(HandledSet, p, work[m][p].from - 1)
  BY <1>1 DEF WorkAt
<1> SUFFICES ASSUME NEW i \in Group(m, p)
             PROVE  \E n \in 1..Len(Log[p]) :
                      /\ Log[p][n] = i
                      /\ \A j \in 1..n - 1 :
                           ShardOf[Log[p][j]] = ShardOf[i] => Log[p][j] \in HandledSet'
  BY DEF NewInOrder
<1>5. PICK n \in Live(m, p) : i = Log[p][n] /\ ShardOf[Log[p][n]] = s
  BY <1>3
<1>6. n \in work[m][p].from..work[m][p].to /\ n \in 1..Len(Log[p])
  BY <1>1, <1>5 DEF Live
<1>7. ASSUME NEW j \in 1..n - 1, ShardOf[Log[p][j]] = ShardOf[i]
      PROVE  Log[p][j] \in HandledSet'
  <2>1. CASE j \in 1..work[m][p].from - 1
    BY <1>4, <2>1 DEF Prefix
  <2>2. CASE j \in work[m][p].from..work[m][p].to
    <3>1. Log[p][j] \in Messages
      BY <1>1, <2>2
    <3>2. CASE Kind[Log[p][j]] = "unknown"
      BY <3>1, <3>2 DEF HandledSet, Handled
    <3>3. CASE Kind[Log[p][j]] # "unknown"
      <4>1. Log[p][j] \in Group(m, p)
        BY <1>3, <1>5, <1>7, <2>2, <3>3 DEF Live
      <4> QED  BY <4>1
    <3> QED  BY <3>2, <3>3
  <2> QED  BY SMT, <1>2, <1>6, <2>1, <2>2
<1> QED  BY <1>5, <1>6, <1>7

\* What the inbox transaction handles.
LEMMA OnceHandles ==
    ASSUME GroupInv, NEW ids \in SUBSET Messages, ProcessOnce(ids), UNCHANGED dlt
    PROVE  /\ HandledSet \subseteq HandledSet' /\ ids \subseteq HandledSet'
           /\ HandledSet' \subseteq HandledSet \cup ids
<1>1. /\ \A i \in Messages : applied[i] \in Nat /\ applied'[i] \in Nat /\ applied[i] <= applied'[i]
      /\ \A i \in ids : applied'[i] > 0
  BY OnceApplied DEF GroupInv, TypeOK
<1>2. \A i \in Messages \ ids : applied'[i] = applied[i]
  BY DEF ProcessOnce
<1> QED  BY <1>1, <1>2 DEF HandledSet, Handled

LEMMA SameInOrder ==
    ASSUME ShardOrder, UNCHANGED <<applied, dlt>>
    PROVE  ShardOrder'
  BY SMT DEF ShardOrder, Handled

LEMMA PartitionOrder ==
    ASSUME GroupInv, ShardOrder, NEW m \in Members, NEW p \in Partitions, Partition(m, p)
    PROVE  ShardOrder'
<1>1. CASE Skip(m, p) \/ OnCommitted(m, p) \/ Permanent(m, p) \/ Cancelled(m, p)
           \/ BatchCommitted(m, p)
  <2>1. UNCHANGED <<applied, dlt>>
    BY <1>1 DEF Skip, OnCommitted, Permanent, Cancelled, BatchCommitted, store
  <2> QED  BY <2>1, SameInOrder
<1>2. CASE ProcessRecord(m, p) \/ RetryAttempt(m, p)
  <2>1. /\ work[m][p].pc = "handle" /\ UNCHANGED dlt
        /\ ProcessOnce({Msg(m, p)}) \/ UNCHANGED applied
    BY <1>2 DEF ProcessRecord, RetryAttempt, Fresh, At
  <2>2. Msg(m, p) \in Messages
    BY <2>1, AtRecord
  <2>3. CASE UNCHANGED applied
    BY <2>1, <2>3, SameInOrder
  <2>4. CASE ProcessOnce({Msg(m, p)})
    <3>1. /\ HandledSet \subseteq HandledSet'
          /\ HandledSet' \subseteq HandledSet \cup {Msg(m, p)}
      BY <2>1, <2>2, <2>4, OnceHandles
    <3>2. NewInOrder(p)
      BY <2>1, <3>1, RecordInOrder
    <3> QED  BY <3>1, <3>2, OrderKept
  <2> QED  BY <2>1, <2>3, <2>4
<1>3. CASE ProduceDLT(m, p) \/ ProduceDLTError(m, p)
  <2>1. /\ work[m][p].pc = "dlt" /\ UNCHANGED applied
        /\ dlt' = dlt \/ dlt' = dlt \cup {Msg(m, p)}
    BY <1>3 DEF ProduceDLT, ProduceDLTError, At
  <2>2. /\ HandledSet \subseteq HandledSet'
        /\ HandledSet' \subseteq HandledSet \cup {Msg(m, p)}
    BY <2>1 DEF HandledSet, Handled
  <2>3. NewInOrder(p)
    BY <2>1, <2>2, RecordInOrder
  <2> QED  BY <2>2, <2>3, OrderKept
<1>4. CASE ProcessBatchOnce(m, p) \/ BatchError(m, p)
  <2>1. /\ work[m][p].pc = "batch" /\ UNCHANGED dlt
        /\ ProcessOnce(Group(m, p)) \/ UNCHANGED applied
    BY <1>4 DEF ProcessBatchOnce, BatchError, At
  <2>2. Group(m, p) \subseteq Messages
    BY <2>1, AtBatch
  <2>3. CASE UNCHANGED applied
    BY <2>1, <2>3, SameInOrder
  <2>4. CASE ProcessOnce(Group(m, p))
    <3>1. /\ HandledSet \subseteq HandledSet' /\ Group(m, p) \subseteq HandledSet'
          /\ HandledSet' \subseteq HandledSet \cup Group(m, p)
      BY <2>1, <2>2, <2>4, OnceHandles
    <3>2. NewInOrder(p)
      BY <2>1, <3>1, GroupInOrder
    <3> QED  BY <3>1, <3>2, OrderKept
  <2> QED  BY <2>1, <2>3, <2>4
<1> QED  BY <1>1, <1>2, <1>3, <1>4 DEF Partition

LEMMA OrderStep == GroupInv /\ ShardOrder /\ [Next]_vars => ShardOrder'
<1> SUFFICES ASSUME GroupInv, ShardOrder, [Next]_vars PROVE ShardOrder'
  OBVIOUS
<1>1. ASSUME NEW m \in Members, NEW p \in Partitions, Partition(m, p) PROVE ShardOrder'
  BY <1>1, PartitionOrder
<1>2. ASSUME NEW m \in Members, Kick(m) \/ Crash(m) \/ Cancel(m) \/ Close(m)
                                \/ PollFetches(m) \/ AllowRebalance(m)
      PROVE  UNCHANGED store
  BY <1>2, Zenon DEF Kick, Crash, Cancel, Close, PollFetches, AllowRebalance
<1>3. ASSUME NEW m \in Members, NEW p \in Partitions, Revoke(p) \/ Assign(p, m) \/ Resume(m, p)
      PROVE  UNCHANGED store
  BY <1>3, Zenon DEF Revoke, Assign, Resume
<1>4. ASSUME NEW p \in Partitions, Revoke(p) PROVE UNCHANGED store
  BY <1>4, Zenon DEF Revoke
<1>5. ASSUME NEW i \in Messages, Cleanup(i) PROVE UNCHANGED <<applied, dlt>>
  BY <1>5 DEF Cleanup
<1>6. CASE UNCHANGED store \/ UNCHANGED vars
  <2>1. UNCHANGED <<applied, dlt>>
    BY <1>6 DEF vars, store
  <2> QED  BY <2>1, SameInOrder
<1> QED  BY <1>1, <1>2, <1>3, <1>4, <1>5, <1>6, SameInOrder DEF Next

\* Per-key order, for every group and log in which a message has its partition:
\* a record takes effect or is dead-lettered only after every earlier record of
\* its shard in the partition, in the record pipeline and in the batch pipeline,
\* across rebalances, redeliveries and fallbacks from a failed batch.
THEOREM PerKeyOrder == Spec => []ShardOrder
<1>1. Init => ShardOrder
  <2> SUFFICES ASSUME Init, NEW i \in Messages, Kind[i] # "unknown" PROVE ~Handled(i)
    BY LogTyped DEF ShardOrder
  <2> QED  BY SMT DEF Init, Handled
<1> QED  BY InitInv, StepInv, OrderStep, <1>1, PTL DEF Spec
==============================================================================
