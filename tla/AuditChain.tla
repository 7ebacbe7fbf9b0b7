------------------------------ MODULE AuditChain ------------------------------
(***************************************************************************)
(* The audit log (platform/security/audit): the hash chains that Record and  *)
(* RecordBatchSameChain extend under the chain-head row lock, the durable     *)
(* mode's audit_pending table with its drain, which overlapping leaders may   *)
(* run at once, retention, and the VerifyChain walk.                          *)
(***************************************************************************)
EXTENDS Integers, Sequences, FiniteSets, Functions

CONSTANTS
    Cmds,        \* commands that are audited
    Durable,     \* those wired with DurableAudit; the others use Audit
    Drainers,    \* instances inside DrainPending, leaders that overlap included
    NoTx,        \* nobody holds the row lock
    BatchSize,   \* ids per DrainPending
    MaxClock,    \* bound: clock readings
    MaxFaults,   \* bound: rolled-back transactions
    MaxWalks,    \* bound: VerifyChain calls
    Edits        \* rows may be edited or deleted behind the service's back

ASSUME ChainAssumption ==
    /\ Durable \subseteq Cmds /\ BatchSize \in Nat \ {0}
    /\ Cmds \cap Drainers = {} /\ NoTx \notin Cmds \cup Drainers
    /\ MaxClock \in Nat /\ MaxFaults \in Nat /\ MaxWalks \in Nat /\ Edits \in BOOLEAN

VARIABLES
    rows,      \* audit_log rows of the chain, by id
    head,      \* audit_chain_head.last_hash
    lock,      \* transaction that holds the head row FOR UPDATE
    cmd,       \* command -> where its transaction is
    prev,      \* last_hash as read by the lock holder
    pending,   \* audit_pending: committed rows
    visible,   \* the pending ids the reader pool shows
    nextId,    \* the sequence of audit_pending
    staged,    \* command -> its audit_pending row, before the commit
    drain,     \* drainer -> candidates, claimed rows and place
    walk,      \* the verifier
    before,    \* history: pairs of commands, the first over when the second began
    edited,    \* history: rows were removed or changed, not only added
    clock, faults, walks

tables == <<rows, head, lock, prev, pending>>
vars == <<rows, head, lock, cmd, prev, pending, visible, nextId, staged, drain,
          walk, before, edited, clock, faults, walks>>

Genesis == <<>>
NoRow == [id |-> 0, cmd |-> "none", at |-> 0]
Quiet == [at |-> "idle", ids |-> {}, claimed |-> <<>>]
NoWalk == [at |-> "idle", since |-> 0, rows |-> <<>>, disturbed |-> FALSE, ok |-> TRUE]

\* prevHash and the entry determine the hash, and are determined by it.
computeEntryHash(p, c, at) == Append(p, <<c, at>>)

Init ==
    /\ rows = <<>> /\ head = Genesis /\ lock = NoTx /\ prev = Genesis
    /\ cmd = [c \in Cmds |-> "new"]
    /\ pending = {} /\ visible = {} /\ nextId = 1
    /\ staged = [c \in Cmds |-> NoRow]
    /\ drain = [d \in Drainers |-> Quiet]
    /\ walk = NoWalk /\ before = {} /\ edited = FALSE /\ clock = 1 /\ faults = 0 /\ walks = 0

Fault == faults < MaxFaults /\ faults' = faults + 1
Over == {c \in Cmds : cmd[c] = "committed"}

Tick ==
    /\ clock < MaxClock /\ clock' = clock + 1
    /\ UNCHANGED <<tables, cmd, visible, nextId, staged, drain, walk, before, edited, faults, walks>>

-----------------------------------------------------------------------------
(* The head lock                                                            *)

\* SELECT last_hash ... FOR UPDATE
LockHead(tx) ==
    /\ lock = NoTx
    /\ lock' = tx /\ prev' = head

Link(p, c, at) == [cmd |-> c, at |-> at, prev |-> p, hash |-> computeEntryHash(p, c, at)]

\* The rows that a batch of entries adds on top of hash p.
Links(p, entries) ==
    LET hashAt[k \in 0..Len(entries)] ==
          IF k = 0 THEN p
          ELSE computeEntryHash(hashAt[k - 1], entries[k].cmd, entries[k].at)
    IN [k \in 1..Len(entries) |-> Link(hashAt[k - 1], entries[k].cmd, entries[k].at)]

\* RecordBatchSameChain: insert in order, advance the head once, commit.
Extend(entries) ==
    LET new == Links(prev, entries) IN
    /\ rows' = rows \o new
    /\ head' = new[Len(new)].hash
    /\ lock' = NoTx /\ prev' = Genesis
    /\ walk' = [walk EXCEPT !.disturbed = (walk.at # "idle")]

-----------------------------------------------------------------------------
(* Commands                                                                 *)

Begins(c) == before' = before \cup {<<a, c>> : a \in Over}

\* Audit: Record joins the command's transaction, whose commit releases the lock.
Record(c) ==
    /\ c \notin Durable /\ cmd[c] = "new"
    /\ LockHead(c) /\ Begins(c)
    /\ cmd' = [cmd EXCEPT ![c] = "locked"]
    /\ UNCHANGED <<rows, head, pending, visible, nextId, staged, drain, walk, edited, clock, faults, walks>>

Commit(c) ==
    /\ cmd[c] = "locked" /\ lock = c
    /\ Extend(<<[cmd |-> c, at |-> clock]>>)
    /\ cmd' = [cmd EXCEPT ![c] = "committed"]
    /\ UNCHANGED <<pending, visible, nextId, staged, drain, before, edited, clock, faults, walks>>

\* DurableAudit: InsertPending takes its id and time, not the chain's lock.
InsertPending(c) ==
    /\ c \in Durable /\ cmd[c] = "new" /\ Begins(c)
    /\ staged' = [staged EXCEPT ![c] = [id |-> nextId, cmd |-> c, at |-> clock]]
    /\ nextId' = nextId + 1
    /\ cmd' = [cmd EXCEPT ![c] = "staged"]
    /\ UNCHANGED <<tables, visible, drain, walk, edited, clock, faults, walks>>

CommitStaged(c) ==
    /\ cmd[c] = "staged"
    /\ pending' = pending \cup {staged[c]}
    /\ cmd' = [cmd EXCEPT ![c] = "committed"]
    /\ UNCHANGED <<rows, head, lock, prev, visible, nextId, staged, drain, walk, before, edited,
                   clock, faults, walks>>

\* The command fails, or its audit write does: one rollback takes both.
Rollback(c) ==
    /\ cmd[c] \in {"locked", "staged"} /\ Fault
    /\ cmd' = [cmd EXCEPT ![c] = "rolledback"]
    /\ lock' = IF lock = c THEN NoTx ELSE lock
    /\ prev' = IF lock = c THEN Genesis ELSE prev
    /\ staged' = [staged EXCEPT ![c] = NoRow]
    /\ UNCHANGED <<rows, head, pending, visible, nextId, drain, walk, before, edited, clock, walks>>

-----------------------------------------------------------------------------
(* The drain                                                                *)

\* The reader pool may lag behind the writer.
Replicate ==
    /\ visible # {p.id : p \in pending}
    /\ visible' = {p.id : p \in pending}
    /\ UNCHANGED <<tables, cmd, nextId, staged, drain, walk, before, edited, clock, faults, walks>>

Smallest(S) == {i \in S : Cardinality({j \in S : j < i}) < BatchSize}

ReadPendingFullBatch(d) ==
    /\ drain[d].at = "idle" /\ Cardinality(visible) >= BatchSize
    /\ drain' = [drain EXCEPT ![d].at = "claim", ![d].ids = Smallest(visible)]
    /\ UNCHANGED <<tables, cmd, visible, nextId, staged, walk, before, edited, clock, faults, walks>>

\* DrainPending: candidate ids in order, up to the batch size.
ReadPending(d) ==
    /\ drain[d].at = "idle" /\ visible # {}
    /\ drain' = [drain EXCEPT ![d].at = "claim", ![d].ids = Smallest(visible)]
    /\ UNCHANGED <<tables, cmd, visible, nextId, staged, walk, before, edited, clock, faults, walks>>

\* Rows whose delete by another transaction is not committed block the claim.
Deleting == UNION {Range(drain[d].claimed) : d \in Drainers}

\* The rows in the order of their ids.
ById(S) == {q \in [1..Cardinality(S) -> S] :
              Range(q) = S /\ \A i, j \in DOMAIN q : i < j => q[i].id < q[j].id}

ClaimSelected(d) ==
    /\ drain[d].at = "claim"
    /\ LET got == {p \in pending : p.id \in drain[d].ids} IN
       \E q \in ById(got) :
         drain' = [drain EXCEPT ![d] = IF got = {} THEN Quiet
                     ELSE [at |-> "claimed", ids |-> {}, claimed |-> q]]
    /\ UNCHANGED <<tables, cmd, visible, nextId, staged, walk, before, edited, clock, faults, walks>>

\* applyClaimed: DELETE ... RETURNING, sorted by id; what is gone is not applied.
Claim(d) ==
    /\ drain[d].at = "claim"
    /\ LET got == {p \in pending : p.id \in drain[d].ids} IN
       /\ got \cap Deleting = {}
       /\ \E q \in ById(got) :
            drain' = [drain EXCEPT ![d] = IF got = {} THEN Quiet
                        ELSE [at |-> "claimed", ids |-> {}, claimed |-> q]]
    /\ UNCHANGED <<tables, cmd, visible, nextId, staged, walk, before, edited, clock, faults, walks>>

DrainLocks(d) ==
    /\ drain[d].at = "claimed"
    /\ LockHead(d)
    /\ drain' = [drain EXCEPT ![d].at = "locked"]
    /\ UNCHANGED <<rows, head, cmd, pending, visible, nextId, staged, walk, before, edited,
                   clock, faults, walks>>

Apply(d) ==
    /\ drain[d].at = "locked" /\ lock = d
    /\ Extend(drain[d].claimed)
    /\ pending' = pending \ Range(drain[d].claimed)
    /\ drain' = [drain EXCEPT ![d] = Quiet]
    /\ UNCHANGED <<cmd, visible, nextId, staged, before, edited, clock, faults, walks>>

\* An error, a lost leadership or a crash: the transaction rolls back.
DrainFails(d) ==
    /\ drain[d].at # "idle" /\ Fault
    /\ drain' = [drain EXCEPT ![d] = Quiet]
    /\ lock' = IF lock = d THEN NoTx ELSE lock
    /\ prev' = IF lock = d THEN Genesis ELSE prev
    /\ UNCHANGED <<rows, head, cmd, pending, visible, nextId, staged, walk, before,
                   edited, clock, walks>>

Drain(d) == ReadPending(d) \/ Claim(d) \/ DrainLocks(d) \/ Apply(d)

-----------------------------------------------------------------------------
(* Retention, outside edits, and the walk                                   *)

\* The rows written at t or later, in their order.
Since(table, t) ==
    LET kept[k \in 0..Len(table)] ==
          IF k = 0 THEN <<>>
          ELSE IF table[k].at >= t THEN Append(kept[k - 1], table[k]) ELSE kept[k - 1]
    IN kept[Len(table)]

RowsBecome(new) ==
    /\ Edits /\ new # rows
    /\ rows' = new
    /\ walk' = [walk EXCEPT !.disturbed = (walk.at # "idle")]
    /\ edited' = TRUE
    /\ UNCHANGED <<head, lock, cmd, prev, pending, visible, nextId, staged, drain, before,
                   clock, faults, walks>>

\* Cleanup, through the privileged pool: rows older than the cutoff.
Cleanup == \E cutoff \in 2..clock : RowsBecome(Since(rows, cutoff))

Without(table, k) == SubSeq(table, 1, k - 1) \o SubSeq(table, k + 1, Len(table))

\* Somebody edits or deletes a row.
Edit == \E k \in DOMAIN rows :
    RowsBecome(Without(rows, k)) \/ RowsBecome([rows EXCEPT ![k].at = 0])

\* VerifyChain: the rows from since on ...
VerifyRows(since) ==
    /\ walk.at = "idle" /\ walks < MaxWalks
    /\ walk' = [NoWalk EXCEPT !.at = "head", !.since = since, !.rows = Since(rows, since)]
    /\ walks' = walks + 1
    /\ UNCHANGED <<tables, cmd, visible, nextId, staged, drain, before, edited, clock, faults>>

LinkedLoosely(w) == \A k \in 1..Len(w.rows) :
    w.rows[k].hash = computeEntryHash(w.rows[k].prev, w.rows[k].cmd, w.rows[k].at)

\* the genesis, link and entry-hash checks of verifyOneChain
Linked(w) ==
    /\ (w.since = 0 /\ w.rows # <<>>) => w.rows[1].prev = Genesis
    /\ \A k \in 2..Len(w.rows) : w.rows[k].prev = w.rows[k - 1].hash
    /\ \A k \in 1..Len(w.rows) :
         w.rows[k].hash = computeEntryHash(w.rows[k].prev, w.rows[k].cmd, w.rows[k].at)

\* ... and, in a second statement, the head they must end at.
VerifyHead ==
    /\ walk.at = "head"
    /\ walk' = [walk EXCEPT !.at = "done",
                  !.ok = Linked(walk) /\ (walk.rows # <<>> => walk.rows[Len(walk.rows)].hash = head)]
    /\ UNCHANGED <<tables, cmd, visible, nextId, staged, drain, before, edited, clock, faults, walks>>

VerifyReturns ==
    /\ walk.at = "done" /\ walk' = NoWalk
    /\ UNCHANGED <<tables, cmd, visible, nextId, staged, drain, before, edited, clock, faults, walks>>

Next ==
    \/ Tick \/ Replicate \/ Cleanup \/ Edit \/ VerifyHead \/ VerifyReturns
    \/ \E c \in Cmds : Record(c) \/ Commit(c) \/ InsertPending(c) \/ CommitStaged(c) \/ Rollback(c)
    \/ \E d \in Drainers : Drain(d) \/ DrainFails(d)
    \/ \E since \in 0..clock : VerifyRows(since)

Spec == Init /\ [][Next]_vars

-----------------------------------------------------------------------------
Recorded(c) == {k \in DOMAIN rows : rows[k].cmd = c}
Waiting(c) == {p \in pending : p.cmd = c}

\* Type invariant; at most one transaction is inside the chain.
TypeOK ==
    /\ lock \in Cmds \cup Drainers \cup {NoTx}
    /\ nextId \in 1..(Cardinality(Durable) + 1) /\ faults \in 0..MaxFaults
    /\ \A d \in Drainers : drain[d].at = "locked" => lock = d
    /\ \A c \in Cmds : cmd[c] = "locked" => lock = c

\* Concurrent writers of all modes leave one unbroken chain from the genesis
\* to the head: "per-chain order is total and gap-free" (Record).
ChainIntact ==
    /\ Linked([rows |-> rows, since |-> 0])
    /\ head = IF rows = <<>> THEN Genesis ELSE rows[Len(rows)].hash

\* Exactly once: a committed command is on the chain or waits in
\* audit_pending, never both and never twice, whatever drainers overlap; a
\* command that rolled back left nothing.
ExactlyOnce ==
    \A c \in Cmds :
        Cardinality(Recorded(c)) + Cardinality(Waiting(c)) =
            IF cmd[c] = "committed" THEN 1 ELSE 0

\* Durable commands that followed one another are chained in that order
\* ("per-actor order preserved"), over overlapping and stale drains.
FollowsCommitOrder ==
    \A k, l \in DOMAIN rows :
        (k < l /\ {rows[k].cmd, rows[l].cmd} \subseteq Durable)
        => <<rows[l].cmd, rows[k].cmd>> \notin before

\* As long as nobody removes or changes rows, the chain is unbroken and complete
\* (Record, DrainPending, applyClaimed).
ChainComplete == ~edited => ChainIntact /\ ExactlyOnce /\ FollowsCommitOrder

Extends(h, g) == Len(g) <= Len(h) /\ \A i \in 1..Len(g) : h[i] = g[i]

Contents(table) == [k \in DOMAIN table |-> <<table[k].cmd, table[k].at>>]

\* A full walk that nothing disturbs is clean exactly when the table still
\* runs unbroken from the genesis to the head: it detects every edit, and
\* rows removed anywhere, as long as one is left. Whatever commits or is edited
\* between its two statements, "clean" is never said of rows with a gap or a
\* change in them (VerifyChain).
VerifyExact ==
    (walk.at = "done" /\ walk.since = 0 /\ walk.rows # <<>>) =>
        /\ walk.ok => Extends(head, Contents(walk.rows))
        /\ ~walk.disturbed => (walk.ok <=> Contents(rows) = head)

\* Staged intents reach the chain: "NEVER drops" (DurableAudit).
EventuallyApplied ==
    <>[](\A c \in Durable : cmd[c] = "committed" => Recorded(c) # {})
================================================================================
