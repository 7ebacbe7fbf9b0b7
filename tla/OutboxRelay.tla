----------------------------- MODULE OutboxRelay -----------------------------
(***************************************************************************)
(* The transactional outbox and its polling relay                          *)
(* (platform/messaging/outbox).  A business transaction inserts rows; a    *)
(* fleet of relays moves them to the broker in three phases (claim,        *)
(* publish, mark), each phase a separate database or broker call, so that  *)
(* commits, other relays, crashes and the loss of the leader-lock session  *)
(* fall between any two of them.                                           *)
(***************************************************************************)
EXTENDS Integers, Sequences, Functions

CONSTANTS
    Rows,          \* outbox row ids (Message.ID)
    Aggregates,    \* aggregate ids: the broker's partition key
    Aggregate,     \* the aggregate of a row
    Shards,        \* leader keys: one, or one per WithShard index
    ShardOf,       \* hash of an aggregate id into a shard
    Relays,        \* relay instances
    RelayShard,    \* the shard an instance is built for
    BatchSize,     \* RelayConfig.BatchSize
    SingleActive,  \* RelayConfig.SingleActive
    NoRelay,       \* the advisory lock is free
    MaxFaults      \* bound: crashes, stops, errors and lost sessions

ASSUME OutboxAssumption ==
    /\ Aggregate \in [Rows -> Aggregates]
    /\ ShardOf \in [Aggregates -> Shards]
    /\ RelayShard \in [Relays -> Shards]
    /\ BatchSize \in Nat \ {0}
    /\ SingleActive \in BOOLEAN
    /\ NoRelay \notin Relays
    /\ MaxFaults \in Nat

VARIABLES
    row,        \* what the table holds for a row id
    createdAt,  \* created_at: now() is the start of the inserting transaction
    clock,      \* the database clock
    log,        \* the records the broker accepted, in order
    pc,         \* where each relay's Run loop is
    batch,      \* msgs of the ProcessBatch under way
    next,       \* index of the next record phase B produces
    rejected,   \* keys the producer reported an error for in this batch
    conn,       \* relays with leaderConn # nil: they believe they lead
    holder,     \* the relay whose session really holds the advisory lock
    lingering,  \* rows still locked by the backend of a crashed relay
    faults,     \* faults spent
    before,     \* history: rows committed when this row's transaction began
    unfenced,   \* history: relays that work without the lock or died in a claim
    stale       \* history: batches handled since the lock session died

table   == <<row, createdAt, clock, before>>
loop    == <<pc, batch, next, rejected>>
leading == <<conn, holder, stale>>
vars    == <<table, log, loop, leading, lingering, faults, unfenced>>

Committed == {"unpublished", "published", "deleted"}
RowState  == {"none", "open", "aborted"} \cup Committed
Busy      == {"claimed", "publish", "mark"}
Place     == {"stopped", "idle", "claim", "verify"} \cup Busy

TypeOK ==
    /\ row \in [Rows -> RowState]
    /\ createdAt \in [Rows -> Nat]
    /\ clock \in Nat
    /\ log \in Seq(Rows)
    /\ pc \in [Relays -> Place]
    /\ batch \in [Relays -> Seq(Rows)]
    /\ next \in [Relays -> Nat \ {0}]
    /\ rejected \in [Relays -> SUBSET Aggregates]
    /\ conn \in SUBSET Relays
    /\ holder \in [Shards -> Relays \cup {NoRelay}]
    /\ lingering \in SUBSET Rows
    /\ faults \in Nat
    /\ before \in [Rows -> SUBSET Rows]
    /\ unfenced \in SUBSET Relays
    /\ stale \in [Relays -> Nat]

Init ==
    /\ row = [x \in Rows |-> "none"]
    /\ createdAt = [x \in Rows |-> 0]
    /\ clock = 1
    /\ log = <<>>
    /\ pc = [r \in Relays |-> "idle"]
    /\ batch = [r \in Relays |-> <<>>]
    /\ next = [r \in Relays |-> 1]
    /\ rejected = [r \in Relays |-> {}]
    /\ conn = {}
    /\ holder = [s \in Shards |-> NoRelay]
    /\ lingering = {}
    /\ faults = 0
    /\ before = [x \in Rows |-> {}]
    /\ unfenced = {}
    /\ stale = [r \in Relays |-> 0]

Fault == /\ faults < MaxFaults
         /\ faults' = faults + 1

Goto(r, place) == pc' = [pc EXCEPT ![r] = place]

\* ProcessBatch returns: its locals are gone.
Return(r, place) == /\ Goto(r, place)
                    /\ batch' = [batch EXCEPT ![r] = <<>>]
                    /\ next' = [next EXCEPT ![r] = 1]
                    /\ rejected' = [rejected EXCEPT ![r] = {}]

-----------------------------------------------------------------------------
(* The writer: Repository.Enqueue in the transaction of the context.       *)

\* A business transaction starts and enqueues the rows of S.  All of them get
\* the same created_at, the transaction's now().
Enqueue(S) ==
    /\ S # {}
    /\ \A x \in S : row[x] = "none"
    /\ row' = [x \in Rows |-> IF x \in S THEN "open" ELSE row[x]]
    /\ createdAt' = [x \in Rows |-> IF x \in S THEN clock ELSE createdAt[x]]
    /\ clock' = clock + 1
    /\ before' = [x \in Rows |-> IF x \in S
                                 THEN {y \in Rows : row[y] \in Committed}
                                 ELSE before[x]]
    /\ UNCHANGED <<log, loop, leading, lingering, faults, unfenced>>

\* The transaction that began at t ends, with its rows and its business data.
EndTx(t, outcome) ==
    /\ \E x \in Rows : row[x] = "open" /\ createdAt[x] = t
    /\ row' = [x \in Rows |-> IF row[x] = "open" /\ createdAt[x] = t
                              THEN outcome ELSE row[x]]
    /\ UNCHANGED <<createdAt, clock, before, log, loop, leading, lingering,
                   faults, unfenced>>

\* RunInTx commits when its function succeeds and rolls back when it fails.
RunInTx == \E t \in 1..clock : \/ EndTx(t, "unpublished")
                               \/ EndTx(t, "aborted")

-----------------------------------------------------------------------------
(* Leader election.                                                        *)

\* The session of r holds the lock of its shard.
HoldsLock(r) == holder[RelayShard[r]] = r

Release(r) == holder' = [s \in Shards |-> IF holder[s] = r THEN NoRelay
                                          ELSE holder[s]]

\* ensureLeader: health-check the lock connection, or try the lock once.  The
\* answer sends the caller to yes or to no.
EnsureLeader(r, yes, no) ==
    \/ /\ r \in conn /\ HoldsLock(r)
       /\ Goto(r, yes)
       /\ UNCHANGED <<leading, faults>>
    \/ /\ r \in conn /\ ~HoldsLock(r)              \* the session is gone
       /\ Goto(r, no)
       /\ conn' = conn \ {r}
       /\ stale' = [stale EXCEPT ![r] = 0]
       /\ UNCHANGED <<holder, faults>>
    \/ /\ r \in conn /\ HoldsLock(r)               \* the check fails: hijack, close
       /\ Fault
       /\ Goto(r, no)
       /\ conn' = conn \ {r}
       /\ Release(r)
       /\ UNCHANGED stale
    \/ /\ r \notin conn /\ holder[RelayShard[r]] = NoRelay
       /\ Goto(r, yes)
       /\ conn' = conn \cup {r}
       /\ holder' = [holder EXCEPT ![RelayShard[r]] = r]
       /\ UNCHANGED <<stale, faults>>
    \/ /\ r \notin conn /\ holder[RelayShard[r]] # NoRelay
       /\ Goto(r, no)
       /\ UNCHANGED <<leading, faults>>

\* The server loses the lock session of r; r finds out at its next check.
LoseSession(r) ==
    /\ r \in conn /\ HoldsLock(r)
    /\ Fault
    /\ Release(r)
    /\ unfenced' = unfenced \cup {r}
    /\ stale' = [stale EXCEPT ![r] = IF pc[r] \in Busy THEN 1 ELSE 0]
    /\ UNCHANGED <<table, log, loop, conn, lingering>>

-----------------------------------------------------------------------------
(* Run, drain and ProcessBatch.                                            *)

\* Run: a tick; a standby skips it.  The backoff after an error only delays
\* the tick.
Tick(r) ==
    /\ pc[r] = "idle"
    /\ \/ SingleActive /\ EnsureLeader(r, "claim", "idle") /\ UNCHANGED unfenced
       \/ /\ ~SingleActive
          /\ Goto(r, "claim")
          /\ unfenced' = unfenced \cup {r}
          /\ UNCHANGED <<leading, faults>>
    /\ UNCHANGED <<table, log, batch, next, rejected, lingering>>

\* Row locks held by a claim transaction in progress, or left by a crash.
Locked == lingering \cup
          UNION {Range(batch[q]) : q \in {p \in Relays : pc[p] = "claimed"}}

Unpublished(r) == {x \in Rows : /\ row[x] = "unpublished"
                                /\ ShardOf[Aggregate[x]] = RelayShard[r]}

\* The LIMIT: an answer shorter than it holds every row there is.
Limited(free) ==
    {b \in UNION {[1..n -> free] : n \in 0..BatchSize} :
        /\ \A i, j \in DOMAIN b : i # j => b[i] # b[j]
        /\ Len(b) < BatchSize => Range(b) = free}

\* Mutant: the query has lost its ORDER BY.
FetchAnyOrder(r) == Limited(Unpublished(r) \ Locked)

\* FetchUnpublished / FetchUnpublishedShard: ORDER BY created_at LIMIT
\* BatchSize FOR UPDATE SKIP LOCKED.  Rows of equal created_at come in any
\* order.
FetchUnpublished(r) ==
    LET free == Unpublished(r) \ Locked
    IN  {b \in Limited(free) :
            /\ \A i, j \in DOMAIN b :
                   i < j => createdAt[b[i]] <= createdAt[b[j]]
            /\ \A i \in DOMAIN b : \A x \in free \ Range(b) :
                   createdAt[b[i]] <= createdAt[x]}

\* Phase A reads; its transaction still holds the row locks.
Claim(r) ==
    /\ pc[r] = "claim"
    /\ \E b \in FetchUnpublished(r) :
          /\ batch' = [batch EXCEPT ![r] = b]
          /\ Goto(r, IF b = <<>> THEN "idle" ELSE "claimed")
          /\ stale' = [stale EXCEPT ![r] =
                          IF SingleActive /\ ~HoldsLock(r) /\ b # <<>>
                          THEN @ + 1 ELSE @]
    /\ UNCHANGED <<table, log, next, rejected, conn, holder, lingering, faults,
                   unfenced>>

\* Phase A commits and releases the row locks.
ClaimCommit(r) ==
    /\ pc[r] = "claimed"
    /\ Goto(r, "publish")
    /\ UNCHANGED <<table, log, batch, next, rejected, leading, lingering,
                   faults, unfenced>>

\* Phase B, one record.  The producer keeps the order within a key: after an
\* error it delivers no later record of that key from this batch (K: the
\* other keys it gives up on too, all of them for a plain Publisher).  An
\* error may hide a record the broker did accept.
Publish(r) ==
    /\ pc[r] = "publish" /\ next[r] <= Len(batch[r])
    /\ LET x == batch[r][next[r]]
       IN  \/ /\ Aggregate[x] \notin rejected[r]
              /\ log' = Append(log, x)
              /\ UNCHANGED <<rejected, faults>>
           \/ /\ Aggregate[x] \in rejected[r]
              /\ UNCHANGED <<log, rejected, faults>>
           \/ /\ Aggregate[x] \notin rejected[r]
              /\ Fault
              /\ \E K \in SUBSET Aggregates :
                    rejected' = [rejected EXCEPT ![r] = @ \cup K \cup {Aggregate[x]}]
              /\ log' \in {log, Append(log, x)}
    /\ next' = [next EXCEPT ![r] = @ + 1]
    /\ UNCHANGED <<table, pc, batch, leading, lingering, unfenced>>

\* Phase B ends: any error leaves every row of the batch unmarked.
PublishDone(r) ==
    /\ pc[r] = "publish" /\ next[r] > Len(batch[r])
    /\ IF rejected[r] = {}
       THEN Goto(r, "mark") /\ UNCHANGED <<batch, next, rejected>>
       ELSE Return(r, "idle")
    /\ UNCHANGED <<table, log, leading, lingering, faults, unfenced>>

MarkPublished(S) ==
    row' = [x \in Rows |-> IF x \in S /\ row[x] = "unpublished"
                           THEN "published" ELSE row[x]]

\* Mutant: drain goes on without a look at the lock.
MarkAndClaimOn(r) ==
    /\ pc[r] = "mark"
    /\ MarkPublished(Range(batch[r]))
    /\ Return(r, IF Len(batch[r]) < BatchSize THEN "idle" ELSE "claim")
    /\ UNCHANGED <<createdAt, clock, before, log, leading, lingering, faults,
                   unfenced>>

\* Phase C; a full batch makes drain go on, after a look at the lock.
MarkPublishedBatch(r) ==
    /\ pc[r] = "mark"
    /\ MarkPublished(Range(batch[r]))
    /\ Return(r, IF Len(batch[r]) < BatchSize THEN "idle"
                 ELSE IF SingleActive THEN "verify" ELSE "claim")
    /\ UNCHANGED <<createdAt, clock, before, log, leading, lingering, faults,
                   unfenced>>

\* Mutant: a failed phase C takes back marks another relay has set.
ErrorUnmarks(r) ==
    /\ pc[r] \in {"claim", "claimed", "mark"}
    /\ Fault
    /\ Return(r, "idle")
    /\ row' = [x \in Rows |-> IF x \in Range(batch[r]) /\ row[x] = "published"
                              THEN "unpublished" ELSE row[x]]
    /\ UNCHANGED <<createdAt, clock, before, log, leading, lingering, unfenced>>

\* Phase A or C returns an error; an update whose reply is lost took effect.
ProcessBatchError(r) ==
    /\ pc[r] \in {"claim", "claimed", "mark"}
    /\ Fault
    /\ Return(r, "idle")
    /\ \/ UNCHANGED row
       \/ pc[r] = "mark" /\ MarkPublished(Range(batch[r]))
    /\ UNCHANGED <<createdAt, clock, before, log, leading, lingering, unfenced>>

\* drain: leadership is verified between two batches.
Verify(r) ==
    /\ pc[r] = "verify"
    /\ EnsureLeader(r, "claim", "idle")
    /\ UNCHANGED <<table, log, batch, next, rejected, lingering, unfenced>>

\* Mutant: Run returns the lock connection to the pool without unlocking.
StopKeepingLock(r) ==
    /\ pc[r] = "idle"
    /\ Fault
    /\ Goto(r, "stopped")
    /\ conn' = conn \ {r}
    /\ UNCHANGED <<table, log, batch, next, rejected, holder, stale, lingering,
                   unfenced>>

\* Run returns on a cancelled context and dropLeadership(unlock) frees the
\* lock, by the unlock statement or by closing the session.
Stop(r) ==
    /\ pc[r] = "idle"
    /\ Fault
    /\ Goto(r, "stopped")
    /\ conn' = conn \ {r}
    /\ Release(r)
    /\ stale' = [stale EXCEPT ![r] = 0]
    /\ UNCHANGED <<table, log, batch, next, rejected, lingering, unfenced>>

\* The process dies; the server frees its lock session at once, the rows of a
\* claim it was running only when that backend notices.
Crash(r) ==
    /\ pc[r] # "stopped"
    /\ Fault
    /\ Return(r, "stopped")
    /\ conn' = conn \ {r}
    /\ Release(r)
    /\ stale' = [stale EXCEPT ![r] = 0]
    /\ lingering' = IF pc[r] = "claimed" THEN lingering \cup Range(batch[r])
                                         ELSE lingering
    /\ unfenced' = IF pc[r] = "claimed" THEN unfenced \cup {r} ELSE unfenced
    /\ UNCHANGED <<table, log>>

Start(r) ==
    /\ pc[r] = "stopped"
    /\ Goto(r, "idle")
    /\ UNCHANGED <<table, log, batch, next, rejected, leading, lingering,
                   faults, unfenced>>

BackendExit ==
    /\ lingering # {}
    /\ lingering' = {}
    /\ UNCHANGED <<table, log, loop, leading, faults, unfenced>>

\* Cleaner.Cleanup: published rows older than the retention.
Cleanup(S) ==
    /\ S # {}
    /\ \A x \in S : row[x] = "published"
    /\ row' = [x \in Rows |-> IF x \in S THEN "deleted" ELSE row[x]]
    /\ UNCHANGED <<createdAt, clock, before, log, loop, leading, lingering,
                   faults, unfenced>>

-----------------------------------------------------------------------------
RelayStep(r) == \/ Tick(r) \/ Claim(r) \/ ClaimCommit(r) \/ Publish(r)
                \/ PublishDone(r) \/ MarkPublishedBatch(r) \/ Verify(r)
                \/ Start(r)

Next ==
    \/ \E S \in SUBSET Rows : Enqueue(S)
    \/ RunInTx
    \/ \E r \in Relays :
          \/ RelayStep(r) \/ ProcessBatchError(r)
          \/ LoseSession(r) \/ Stop(r) \/ Crash(r)
    \/ BackendExit
    \/ \E S \in SUBSET Rows : Cleanup(S)

Spec == Init /\ [][Next]_vars

\* A relay's goroutine keeps running, a stopped instance is started again and
\* the server ends the backend of a dead client.  Transactions owe nothing.
Fairness == /\ \A r \in Relays : WF_vars(RelayStep(r))
            /\ WF_vars(BackendExit)

FairSpec == Spec /\ Fairness

-----------------------------------------------------------------------------
(* Properties.                                                             *)

Landed == Range(log)

First(x) == CHOOSE i \in DOMAIN log :
                log[i] = x /\ \A j \in DOMAIN log : log[j] = x => i <= j

\* No loss: a row that phase C marked, or that the cleaner removed, is in the
\* broker's log, whatever failed between the three phases of ProcessBatch.
MarkedIsLanded ==
    \A x \in Rows : row[x] \in {"published", "deleted"} => x \in Landed

\* No phantom: an event of a transaction that is still open, or that rolled
\* back, never reaches the broker (Enqueue joins the transaction of ctx).
OnlyCommittedLands ==
    \A x \in Landed : row[x] \in Committed

\* The broker first sees the events of one aggregate in causal order: one
\* committed before another's transaction began comes first, as long as relays
\* work under the leader lock (WithSingleActive) and none of them lost its
\* session or died inside a claim (its fencing caveat).
CausalOrder ==
    unfenced = {} =>
        \A x \in Landed : \A y \in before[x] :
            Aggregate[y] = Aggregate[x] =>
                y \in Landed /\ First(y) < First(x)

\* The re-check of drain bounds the window after a lost lock session: a former
\* leader handles at most one more batch before it steps down.
OneStaleBatch == \A r \in Relays : stale[r] <= 1

\* Every committed row is eventually marked published: an error, a crash or a
\* lost lock only delays it.
EventuallyPublished ==
    \A x \in Rows :
        row[x] = "unpublished" ~> row[x] \in {"published", "deleted"}

\* The relay and its table implement the contract of the outbox.
Contract == INSTANCE OutboxContract WITH
    accepted  <- {x \in Rows : row[x] \in Committed},
    delivered <- log,
    settled   <- {x \in Rows : row[x] \in {"published", "deleted"}}

\* At-least-once, nothing phantom and nothing given up before delivery, step
\* by step: every step of the relay is a step of the contract or invisible.
ImplementsContract == Contract!Spec

=============================================================================
