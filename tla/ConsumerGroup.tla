---------------------------- MODULE ConsumerGroup ----------------------------
(***************************************************************************)
(* A Kafka consumer group over the idempotent inbox: the poll loop         *)
(* (platform/messaging/kafka/run.go), the record and batch pipelines       *)
(* (platform/messaging/consume), in-process retry with dead-lettering      *)
(* (kafka/dlq.go) and the inbox transaction (platform/messaging/inbox).    *)
(* A partition is a fixed sequence of messages; a message may occur twice, *)
(* as the outbox relay publishes at least once.                            *)
(***************************************************************************)
EXTENDS Integers, Sequences, FiniteSets, FiniteSetsExt

CONSTANTS
    Partitions, Messages, Shards, Members,
    Log,          \* the records of each partition, in offset order
    Kind,         \* "ok", "poison" (fails for ever) or "unknown" event type
    ShardOf,      \* pool.Resolve of the record key
    Batch,        \* RunBatch with BatchHandler, or Run with Handler
    MaxPoll,      \* bound: records of one partition in a poll
    MaxAttempts,  \* RetryOpts.MaxAttempts
    MaxFaults,    \* bound: crashes, evictions, stops and failed calls
    None

ASSUME GroupAssumption ==
    /\ Log \in [Partitions -> Seq(Messages)]
    /\ Kind \in [Messages -> {"ok", "poison", "unknown"}]
    /\ ShardOf \in [Messages -> Shards]
    /\ Batch \in BOOLEAN
    /\ MaxPoll \in Nat \ {0} /\ MaxAttempts \in Nat \ {0} /\ MaxFaults \in Nat
    /\ None \notin Members

\* A record's key decides its partition, so the copies of a message share one.
ASSUME KeyedAssumption ==
    \A p, q \in Partitions : \A j \in 1..Len(Log[p]), k \in 1..Len(Log[q]) :
        Log[p][j] = Log[q][k] => p = q

VARIABLES
    owner,      \* the member a partition is assigned to
    committed,  \* the group's committed offset: records 1..committed are done
    pos,        \* each client's in-memory consume position
    paused,     \* partitions a member backs off from
    work,       \* the partition goroutines of each member's current poll
    kicked,     \* members the coordinator evicted while they were processing
    stopping,   \* members whose ctx is cancelled
    inbox,      \* message ids with a dedup row
    applied,    \* how often a message's side effect committed
    hooks,      \* how often its OnCommitted hook ran
    dlt,        \* messages in the dead-letter topic
    faults

group == <<owner, kicked>>
store == <<inbox, applied, hooks, dlt>>
vars  == <<group, committed, pos, paused, work, stopping, store, faults>>

Off == [pc |-> "off", from |-> 0, next |-> 0, to |-> 0, tries |-> 0,
        groups |-> {}, ran |-> {}]

Init ==
    /\ owner = [p \in Partitions |-> None]
    /\ committed = [p \in Partitions |-> 0]
    /\ pos = [m \in Members |-> [p \in Partitions |-> 0]]
    /\ paused = [m \in Members |-> {}]
    /\ work = [m \in Members |-> [p \in Partitions |-> Off]]
    /\ kicked = {} /\ stopping = {}
    /\ inbox = {} /\ dlt = {}
    /\ applied = [i \in Messages |-> 0]
    /\ hooks = [i \in Messages |-> 0]
    /\ faults = 0

Fault == faults < MaxFaults /\ faults' = faults + 1

Idle(m) == \A p \in Partitions : work[m][p].pc = "off"

-----------------------------------------------------------------------------
(* Group membership.  BlockRebalanceOnPoll: no rebalance between PollFetches *)
(* and AllowRebalance, unless the coordinator evicts the member.           *)

Assign(p, m) ==
    /\ owner[p] = None /\ Idle(m) /\ m \notin stopping
    /\ owner' = [owner EXCEPT ![p] = m]
    /\ pos' = [pos EXCEPT ![m][p] = committed[p]]
    /\ UNCHANGED <<committed, paused, work, kicked, stopping, store, faults>>

Revoke(p) ==
    /\ owner[p] # None /\ Idle(owner[p])
    /\ owner' = [owner EXCEPT ![p] = None]
    /\ Fault
    /\ UNCHANGED <<committed, pos, paused, work, kicked, stopping, store>>

Leave(m) == owner' = [p \in Partitions |-> IF owner[p] = m THEN None ELSE owner[p]]

\* The member misses its session while handlers run: it goes on processing.
Kick(m) ==
    /\ ~Idle(m) /\ m \notin kicked
    /\ Leave(m) /\ kicked' = kicked \cup {m}
    /\ Fault
    /\ UNCHANGED <<committed, pos, paused, work, stopping, store>>

Crash(m) ==
    /\ ~Idle(m)
    /\ Leave(m) /\ kicked' = kicked \ {m} /\ stopping' = stopping \ {m}
    /\ paused' = [paused EXCEPT ![m] = {}]
    /\ work' = [work EXCEPT ![m] = [p \in Partitions |-> Off]]
    /\ Fault
    /\ UNCHANGED <<committed, pos, store>>

Cancel(m) ==
    /\ m \notin stopping
    /\ stopping' = stopping \cup {m}
    /\ Fault
    /\ UNCHANGED <<group, committed, pos, paused, work, store>>

\* Run returns ctx.Err() at the next poll and Close leaves the group; a new
\* instance starts in its place.
Close(m) ==
    /\ m \in stopping /\ Idle(m)
    /\ Leave(m) /\ stopping' = stopping \ {m}
    /\ paused' = [paused EXCEPT ![m] = {}]
    /\ UNCHANGED <<committed, pos, work, kicked, store, faults>>

-----------------------------------------------------------------------------
(* The poll loop.                                                          *)

Resume(m, p) ==
    /\ Idle(m) /\ p \in paused[m]
    /\ paused' = [paused EXCEPT ![m] = @ \ {p}]
    /\ UNCHANGED <<group, committed, pos, work, stopping, store, faults>>

Fetchable(m) == {p \in Partitions \ paused[m] :
                    owner[p] = m /\ pos[m][p] < Len(Log[p])}

Goroutine(from, to) ==
    [pc |-> IF Batch THEN "batch" ELSE "handle", from |-> from, next |-> from, to |-> to,
     tries |-> 0, groups |-> {}, ran |-> {}]

PollFetches(m) ==
    /\ Idle(m) /\ m \notin stopping
    /\ \E S \in SUBSET Fetchable(m) \ {{}} : \E n \in [S -> 1..MaxPoll] :
         /\ \A p \in S : pos[m][p] + n[p] <= Len(Log[p])
         /\ work' = [work EXCEPT ![m] = [p \in Partitions |->
                        IF p \in S THEN Goroutine(pos[m][p] + 1, pos[m][p] + n[p])
                                   ELSE Off]]
         /\ pos' = [pos EXCEPT ![m] = [p \in Partitions |->
                        IF p \in S THEN @[p] + n[p] ELSE @[p]]]
    /\ UNCHANGED <<group, committed, paused, stopping, store, faults>>

\* The last handled record of each goroutine, committed in one call.
CommitRecords(m) ==
    committed' = [p \in Partitions |->
        IF work[m][p].next > work[m][p].from THEN work[m][p].next - 1
                                             ELSE committed[p]]

SetOffsetsNever(m) == UNCHANGED pos

\* The failed records: seek back, so that the next fetch returns them.
SetOffsets(m) ==
    pos' = [pos EXCEPT ![m] = [p \in Partitions |->
        IF work[m][p].pc = "failed" THEN work[m][p].next - 1 ELSE @[p]]]

AllowRebalance(m) ==
    /\ ~Idle(m)
    /\ \A p \in Partitions : work[m][p].pc \in {"off", "done", "failed"}
    /\ \/ m \notin kicked /\ CommitRecords(m) /\ UNCHANGED faults
       \/ m \notin kicked /\ UNCHANGED committed /\ Fault
       \/ m \in kicked /\ UNCHANGED <<committed, faults>>
    /\ SetOffsets(m)
    /\ paused' = [paused EXCEPT ![m] = @ \cup
                    {p \in Partitions : work[m][p].pc = "failed"}]
    /\ kicked' = kicked \ {m}
    /\ work' = [work EXCEPT ![m] = [p \in Partitions |-> Off]]
    /\ UNCHANGED <<owner, stopping, store>>

-----------------------------------------------------------------------------
(* One record: WithRetry around processRecord.                             *)

Worker(m, p, w) == work' = [work EXCEPT ![m][p] = w]

Msg(m, p) == Log[p][work[m][p].next]

\* The handler returned nil.
Advance(m, p) ==
    LET w == work[m][p] IN
    Worker(m, p, [w EXCEPT !.next = @ + 1, !.tries = 0,
                           !.pc = IF w.next = w.to THEN "done" ELSE "handle"])

At(m, p, place) == work[m][p].pc = place

Context == <<group, committed, pos, paused, stopping>>

ProcessOnceTwice(ids) ==
    /\ inbox' = inbox \cup ids
    /\ applied' = [i \in Messages |-> IF i \in ids THEN applied[i] + 1
                                                  ELSE applied[i]]

\* The inbox transaction commits: dedup row and side effect together.
ProcessOnce(ids) ==
    /\ inbox' = inbox \cup ids
    /\ applied' = [i \in Messages |-> IF i \in ids \ inbox THEN applied[i] + 1
                                                          ELSE applied[i]]

\* An unknown event type, or a message the inbox has seen: acknowledged.
Skip(m, p) ==
    /\ At(m, p, "handle")
    /\ Kind[Msg(m, p)] = "unknown" \/ Msg(m, p) \in inbox
    /\ Advance(m, p)
    /\ UNCHANGED <<Context, store, faults>>

Fresh(m, p, kind) ==
    At(m, p, "handle") /\ Kind[Msg(m, p)] = kind /\ Msg(m, p) \notin inbox

ProcessRecord(m, p) ==
    /\ Fresh(m, p, "ok")
    /\ ProcessOnce({Msg(m, p)})
    /\ Worker(m, p, [work[m][p] EXCEPT !.pc = "hook"])
    /\ UNCHANGED <<Context, hooks, dlt, faults>>

OnCommitted(m, p) ==
    /\ At(m, p, "hook")
    /\ hooks' = [hooks EXCEPT ![Msg(m, p)] = @ + 1]
    /\ Advance(m, p)
    /\ UNCHANGED <<Context, inbox, applied, dlt, faults>>

PermanentBlocks(m, p) ==
    /\ Fresh(m, p, "poison")
    /\ Worker(m, p, [work[m][p] EXCEPT !.pc = "failed"])
    /\ UNCHANGED <<Context, store, faults>>

\* A permanent error goes to the dead-letter topic after one attempt.
Permanent(m, p) ==
    /\ Fresh(m, p, "poison")
    /\ Worker(m, p, [work[m][p] EXCEPT !.pc = "dlt"])
    /\ UNCHANGED <<Context, store, faults>>

\* A transient error; the transaction may have committed all the same.
RetryAttempt(m, p) ==
    /\ Fresh(m, p, "ok")
    /\ \/ ProcessOnce({Msg(m, p)})
       \/ UNCHANGED <<inbox, applied>>
    /\ Worker(m, p, IF work[m][p].tries + 1 < MaxAttempts
                    THEN [work[m][p] EXCEPT !.tries = @ + 1]
                    ELSE [work[m][p] EXCEPT !.pc = "dlt"])
    /\ Fault
    /\ UNCHANGED <<Context, hooks, dlt>>

Fail(m, p) == Worker(m, p, [work[m][p] EXCEPT !.pc = "failed"])

\* The retry loop sees the cancelled ctx between attempts or before the DLT.
Cancelled(m, p) ==
    /\ m \in stopping
    /\ Fresh(m, p, "ok") \/ Fresh(m, p, "poison") \/ At(m, p, "dlt")
    /\ Fail(m, p)
    /\ UNCHANGED <<Context, store, faults>>

ProduceDLT(m, p) ==
    /\ At(m, p, "dlt")
    /\ dlt' = dlt \cup {Msg(m, p)}
    /\ Advance(m, p)
    /\ UNCHANGED <<Context, inbox, applied, hooks, faults>>

\* Produce failed, or only its acknowledgement was lost.
ProduceDLTError(m, p) ==
    /\ At(m, p, "dlt")
    /\ dlt' \in {dlt, dlt \cup {Msg(m, p)}}
    /\ Fail(m, p)
    /\ Fault
    /\ UNCHANGED <<Context, inbox, applied, hooks>>

-----------------------------------------------------------------------------
(* One partition's poll records at once: BatchHandler.                     *)

Live(m, p) == {k \in work[m][p].from .. work[m][p].to : Kind[Log[p][k]] # "unknown"}

\* Live records whose shard group has not committed yet.
Remaining(m, p) ==
    {k \in Live(m, p) : ShardOf[Log[p][k]] \notin work[m][p].groups}

\* The shard group that is next: groups are in order of first appearance.
Group(m, p) ==
    LET s == ShardOf[Log[p][Min(Remaining(m, p))]]
    IN {Log[p][k] : k \in {k \in Live(m, p) : ShardOf[Log[p][k]] = s}}

FallbackFromSecond(m, p) ==
    LET w == work[m][p] IN
    Worker(m, p, [w EXCEPT !.pc = "handle", !.groups = {}, !.ran = {},
                           !.next = IF w.from < w.to THEN @ + 1 ELSE @])

Fallback(m, p) ==
    Worker(m, p, [work[m][p] EXCEPT !.pc = "handle", !.groups = {}, !.ran = {}])

ProcessBatchOnce(m, p) ==
    /\ At(m, p, "batch") /\ Remaining(m, p) # {}
    /\ \A i \in Group(m, p) \ inbox : Kind[i] = "ok"
    /\ ProcessOnce(Group(m, p))
    /\ Worker(m, p, [work[m][p] EXCEPT
            !.groups = @ \cup {ShardOf[i] : i \in Group(m, p)},
            !.ran = @ \cup (Group(m, p) \ inbox)])
    /\ UNCHANGED <<Context, hooks, dlt, faults>>

\* A failing record, a cancelled ctx or a failed call ends the batch; the
\* call may fail after the transaction committed.
BatchError(m, p) ==
    /\ At(m, p, "batch") /\ Remaining(m, p) # {}
    /\ \/ /\ m \in stopping \/ \E i \in Group(m, p) \ inbox : Kind[i] = "poison"
          /\ UNCHANGED <<inbox, applied, faults>>
       \/ /\ \A i \in Group(m, p) \ inbox : Kind[i] = "ok"
          /\ ProcessOnce(Group(m, p)) /\ Fault
       \/ UNCHANGED <<inbox, applied>> /\ Fault
    /\ Fallback(m, p)
    /\ UNCHANGED <<Context, hooks, dlt>>

\* Every group committed: the hooks of the records whose Fn ran.
BatchCommitted(m, p) ==
    /\ At(m, p, "batch") /\ Remaining(m, p) = {}
    /\ hooks' = [i \in Messages |-> IF i \in work[m][p].ran THEN hooks[i] + 1
                                                           ELSE hooks[i]]
    /\ Worker(m, p, [work[m][p] EXCEPT !.pc = "done", !.next = work[m][p].to + 1])
    /\ UNCHANGED <<Context, inbox, applied, dlt, faults>>

-----------------------------------------------------------------------------
(* Retention is longer than any redelivery: a row is old enough to delete  *)
(* only when no copy of its message is uncommitted or in a poll.           *)
Cleanup(i) ==
    /\ i \in inbox
    /\ \A p \in Partitions : \A k \in 1..Len(Log[p]) : Log[p][k] = i =>
          /\ k <= committed[p]
          /\ \A m \in Members : k \notin work[m][p].next .. work[m][p].to
    /\ inbox' = inbox \ {i}
    /\ UNCHANGED <<Context, work, applied, hooks, dlt, faults>>

Partition(m, p) ==
    \/ Skip(m, p) \/ ProcessRecord(m, p) \/ OnCommitted(m, p)
    \/ Permanent(m, p) \/ RetryAttempt(m, p) \/ Cancelled(m, p)
    \/ ProduceDLT(m, p) \/ ProduceDLTError(m, p)
    \/ ProcessBatchOnce(m, p) \/ BatchError(m, p) \/ BatchCommitted(m, p)

Next ==
    \/ \E p \in Partitions : Revoke(p)
    \/ \E m \in Members : \/ Kick(m) \/ Crash(m) \/ Cancel(m) \/ Close(m)
                          \/ PollFetches(m) \/ AllowRebalance(m)
                          \/ \E p \in Partitions : \/ Assign(p, m) \/ Resume(m, p)
                                                   \/ Partition(m, p)
    \/ \E i \in Messages : Cleanup(i)

Spec == Init /\ [][Next]_vars

\* Goroutines run, polls return, back-off ends, partitions get assigned.
Fairness ==
    /\ \A m \in Members : WF_vars(PollFetches(m)) /\ WF_vars(AllowRebalance(m))
                          /\ WF_vars(Close(m))
    /\ \A m \in Members, p \in Partitions :
         WF_vars(Partition(m, p)) /\ WF_vars(Resume(m, p))
    /\ \A p \in Partitions : WF_vars(\E m \in Members : Assign(p, m))

FairSpec == Spec /\ Fairness

-----------------------------------------------------------------------------
Places == {"off", "handle", "hook", "dlt", "batch", "done", "failed"}

Goroutines ==
    [pc : Places, from : Nat, next : Nat, to : Nat, tries : Nat,
     groups : SUBSET Shards, ran : SUBSET Messages]

\* Types of the state.
TypeOK ==
    /\ owner \in [Partitions -> Members \cup {None}]
    /\ committed \in [Partitions -> Nat]
    /\ pos \in [Members -> [Partitions -> Nat]]
    /\ paused \in [Members -> SUBSET Partitions]
    /\ work \in [Members -> [Partitions -> Goroutines]]
    /\ kicked \subseteq Members /\ stopping \subseteq Members
    /\ inbox \subseteq Messages /\ dlt \subseteq Messages
    /\ applied \in [Messages -> Nat] /\ hooks \in [Messages -> Nat]
    /\ faults \in Nat

Handled(i) == Kind[i] = "unknown" \/ applied[i] > 0 \/ i \in dlt

\* No silent loss: whatever crashes, evictions and failed commits happen, a
\* record below the committed offset was applied, dead-lettered or skipped as
\* unknown (kafka.Consumer.run commits the last handled record and seeks back).
NoSkip == \A p \in Partitions : \A k \in 1..committed[p] : Handled(Log[p][k])

\* Effectively once: redelivered, duplicated and concurrently processed copies
\* of a message commit its side effect at most once (inbox.ProcessOnce), and
\* its OnCommitted hooks run at most once and never before that commit.
EffectOnce == \A i \in Messages : applied[i] <= 1 /\ hooks[i] <= applied[i]

\* Per-key order: a record takes effect or is dead-lettered only after every
\* earlier record of its shard in the partition was (per-partition ordering of
\* run, offset order within a shard group of BatchHandler).
ShardOrder ==
    \A p \in Partitions : \A k \in 1..Len(Log[p]) : \A j \in 1..k - 1 :
        /\ ShardOf[Log[p][j]] = ShardOf[Log[p][k]]
        /\ Kind[Log[p][k]] # "unknown" /\ Handled(Log[p][k])
        /\ \A h \in 1..j : Log[p][h] # Log[p][k]
        => Handled(Log[p][j])

\* Every record is eventually applied, dead-lettered or skipped once faults
\* stop: a poison message does not block its partition, and a partition that
\* is backed off, revoked or lost with its member is fetched again.
EventuallyHandled ==
    <>(\A p \in Partitions : \A k \in 1..Len(Log[p]) : Handled(Log[p][k]))
==============================================================================
