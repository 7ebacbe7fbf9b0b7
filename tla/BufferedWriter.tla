---------------------------- MODULE BufferedWriter ----------------------------
(***************************************************************************)
(* The two best-effort write buffers: the gateway's PendingBatcher           *)
(* (examples/gateway/internal/api/pendingbatch.go) and the audit log's        *)
(* BufferedAuditWriter (platform/security/audit/asyncwriter.go).  Requests    *)
(* enqueue without blocking; one goroutine flushes batches, and on            *)
(* cancellation drains what is left on a fresh context.  The two loops        *)
(* differ in what they do when a flush is due and the context is cancelled.   *)
(***************************************************************************)
EXTENDS Integers, Sequences, FiniteSets, SequencesExt

CONSTANTS
    Rows,       \* rows the requests enqueue
    Group,      \* row -> the shard or audit chain it is written to
    BufSize,    \* capacity of the channel
    MaxBatch,   \* rows per flush
    Rechecks,   \* Run looks at ctx.Err() before a flush (PendingBatcher)
    MaxFaults   \* bound: failed statements

VARIABLES
    order,      \* rows that entered the channel, in order
    buf,        \* the channel
    batch,      \* rows in the hand of the flusher
    pc,         \* the flusher
    log,        \* group -> rows written
    lost,       \* rows a flush gave up
    refused,    \* rows dropped because the channel was full
    served,     \* the HTTP server has drained: no more requests
    cancelled,  \* the worker context is cancelled
    inFlight,   \* the batch being flushed at that moment
    faults

vars == <<order, buf, batch, pc, log, lost, refused, served, cancelled, inFlight, faults>>

Groups == {Group[r] : r \in Rows}

Init ==
    /\ order = <<>> /\ buf = <<>> /\ batch = <<>>
    /\ pc = "select"
    /\ log = [g \in Groups |-> <<>>]
    /\ lost = {} /\ refused = {}
    /\ served = FALSE /\ cancelled = FALSE /\ inFlight = {}
    /\ faults = 0

Fresh == Rows \ (ToSet(order) \cup refused)

\* Enqueue: never blocks.
Enqueue(r) ==
    /\ ~served /\ r \in Fresh
    /\ IF Len(buf) < BufSize
       THEN /\ buf' = Append(buf, r) /\ order' = Append(order, r) /\ UNCHANGED refused
       ELSE /\ refused' = refused \cup {r} /\ UNCHANGED <<buf, order>>
    /\ UNCHANGED <<batch, pc, log, lost, served, cancelled, inFlight, faults>>

\* The public server shuts down, then consumers-cancel.
Served ==
    /\ ~served /\ served' = TRUE
    /\ UNCHANGED <<order, buf, batch, pc, log, lost, refused, cancelled, inFlight, faults>>

Cancel ==
    /\ served /\ ~cancelled
    /\ cancelled' = TRUE
    /\ inFlight' = IF pc = "flush" THEN ToSet(batch) ELSE {}
    /\ UNCHANGED <<order, buf, batch, pc, log, lost, refused, served, faults>>

-----------------------------------------------------------------------------
DrainEntry == IF Rechecks THEN "drain" ELSE "drainflush"

\* A flush is due: on a cancelled context the statement fails at once, which
\* PendingBatcher avoids by diverting to the drain.
FlushDue ==
    CASE ~cancelled -> "flush"
      [] cancelled /\ Rechecks -> "drain"
      [] OTHER -> "deadflush"

Receive ==
    /\ pc = "select" /\ buf # <<>>
    /\ batch' = Append(batch, Head(buf)) /\ buf' = Tail(buf)
    /\ pc' = IF Len(batch) + 1 >= MaxBatch THEN FlushDue ELSE "select"
    /\ UNCHANGED <<order, log, lost, refused, served, cancelled, inFlight, faults>>

Tick ==
    /\ pc = "select" /\ batch # <<>>
    /\ pc' = FlushDue
    /\ UNCHANGED <<order, buf, batch, log, lost, refused, served, cancelled, inFlight, faults>>

DoneForgetsBatch ==
    /\ pc = "select" /\ cancelled
    /\ pc' = DrainEntry /\ batch' = <<>>
    /\ UNCHANGED <<order, buf, log, lost, refused, served, cancelled, inFlight, faults>>

Done ==
    /\ pc = "select" /\ cancelled
    /\ pc' = DrainEntry
    /\ UNCHANGED <<order, buf, batch, log, lost, refused, served, cancelled, inFlight, faults>>

\* One statement or transaction per group; a failed one gives its rows up.
Write(failed) ==
    /\ log' = [g \in Groups |-> IF g \in failed THEN log[g]
                 ELSE log[g] \o SelectSeq(batch, LAMBDA r : Group[r] = g)]
    /\ lost' = lost \cup {r \in ToSet(batch) : Group[r] \in failed}
    /\ batch' = <<>>

InBatch == {Group[r] : r \in ToSet(batch)}

\* A statement that the cancellation catches in flight may fail.
Flush ==
    /\ pc = "flush" /\ pc' = "select"
    /\ \E failed \in SUBSET InBatch :
         /\ Write(failed)
         /\ IF failed = {} \/ cancelled THEN UNCHANGED faults
            ELSE faults < MaxFaults /\ faults' = faults + 1
    /\ UNCHANGED <<order, buf, refused, served, cancelled, inFlight>>

DeadFlush ==
    /\ pc = "deadflush" /\ pc' = "select"
    /\ Write(InBatch)
    /\ UNCHANGED <<order, buf, refused, served, cancelled, inFlight, faults>>

DrainTake ==
    /\ pc = "drain" /\ buf # <<>>
    /\ batch' = Append(batch, Head(buf)) /\ buf' = Tail(buf)
    /\ pc' = IF Len(batch) + 1 >= MaxBatch THEN "drainflush" ELSE "drain"
    /\ UNCHANGED <<order, log, lost, refused, served, cancelled, inFlight, faults>>

\* On the fresh context; the last, possibly partial batch ends Run.
DrainFlush ==
    /\ \/ pc = "drainflush" /\ pc' = "drain"
       \/ pc = "drain" /\ buf = <<>> /\ pc' = "exited"
    /\ \E failed \in SUBSET InBatch :
         /\ Write(failed)
         /\ IF failed = {} THEN UNCHANGED faults
            ELSE faults < MaxFaults /\ faults' = faults + 1
    /\ UNCHANGED <<order, buf, refused, served, cancelled, inFlight>>

Run == Receive \/ Tick \/ Done \/ Flush \/ DeadFlush \/ DrainTake \/ DrainFlush

Next == (\E r \in Rows : Enqueue(r)) \/ Served \/ Cancel \/ Run

Spec == Init /\ [][Next]_vars

-----------------------------------------------------------------------------
Written == UNION {ToSet(log[g]) : g \in Groups}

\* Type invariant; the channel and the batch stay within their bounds, but for
\* the one row the drain receives on top of a full batch.
TypeOK ==
    /\ pc \in {"select", "flush", "deadflush", "drain", "drainflush", "exited"}
    /\ Len(buf) <= BufSize /\ Len(batch) <= MaxBatch + 1
    /\ Written \cap lost = {}

\* Every accepted row is in the channel, in hand, written or given up: the
\* hand-overs between Enqueue, Run and drain lose nothing by themselves.
NothingForgotten ==
    ToSet(order) = ToSet(buf) \cup ToSet(batch) \cup Written \cup lost

\* "Grouping preserves per-chain enqueue order" (flush): the rows of a group
\* are written in the order they were accepted.
GroupOrder ==
    \A g \in Groups : log[g] = SelectSeq(order, LAMBDA r : r \in ToSet(log[g]))

\* Without statement failures a shutdown costs PendingBatcher at most the
\* batch it was flushing at that moment.
OnlyInFlightLost == (faults = 0 /\ Rechecks) => lost \subseteq inFlight

\* Run ends after the cancellation, with the channel empty.
DrainsAndExits == <>[](cancelled => pc = "exited" /\ buf = <<>> /\ batch = <<>>)
================================================================================
