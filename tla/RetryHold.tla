------------------------------- MODULE RetryHold -------------------------------
(***************************************************************************)
(* The retry-tier consumer (platform/messaging/retry/consumer.go): records  *)
(* that are not due are held in memory with their partition paused, a timer *)
(* puts a wake event on a channel, and the single Run goroutine drains the  *)
(* channel before it polls.  kgo blocks rebalances from the return of       *)
(* PollFetches to AllowRebalance; held batches are drained outside that     *)
(* interval, so onRevoked runs between any two of their steps.              *)
(***************************************************************************)
EXTENDS Integers, Sequences

CONSTANTS
    Partitions, Members,
    Length,      \* number of records of each tier partition
    MaxFetch,    \* bound: records of one partition in a poll
    MaxFaults,   \* bound: failed escalations, failed commits and crashes
    MaxRevokes,  \* bound: rebalances
    None

ASSUME HoldAssumption ==
    /\ Length \in [Partitions -> Nat]
    /\ MaxFetch \in Nat \ {0} /\ MaxFaults \in Nat /\ MaxRevokes \in Nat
    /\ None \notin Members \cup Partitions

VARIABLES
    owner, committed,  \* the group: assignment and committed offsets
    pos, paused,       \* each client: consume position, paused partitions
    held,              \* each member: not-yet-due records from..to per partition
    timer,             \* generation of the armed timer of a held batch, 0 if none
    wake,              \* the wake channel
    nextSeq,           \* generation tags
    pc, job,           \* Run: where it is, and the records it is processing
    fetched,           \* partitions of the current poll not processed yet
    toCommit,          \* last record to commit per partition
    due,               \* records whose retry-due-at has come
    handled,           \* records handled or escalated
    faults, revokes

client == <<pos, paused>>
hold   == <<held, timer, wake, nextSeq>>
vars   == <<owner, committed, client, hold, pc, job, fetched, toCommit, due,
            handled, faults, revokes>>

NoBatch == [from |-> 1, to |-> 0, seq |-> 0]
NoJob   == [p |-> None, next |-> 1, to |-> 0, woken |-> FALSE]

Init ==
    /\ owner = [p \in Partitions |-> None]
    /\ committed = [p \in Partitions |-> 0]
    /\ pos = [m \in Members |-> [p \in Partitions |-> 0]]
    /\ paused = [m \in Members |-> {}]
    /\ held = [m \in Members |-> [p \in Partitions |-> NoBatch]]
    /\ timer = [m \in Members |-> [p \in Partitions |-> 0]]
    /\ wake = [m \in Members |-> <<>>]
    /\ nextSeq = [m \in Members |-> 0]
    /\ pc = [m \in Members |-> "drain"]
    /\ job = [m \in Members |-> NoJob]
    /\ fetched = [m \in Members |-> {}]
    /\ toCommit = [m \in Members |-> [p \in Partitions |-> 0]]
    /\ due = {} /\ handled = {}
    /\ faults = 0 /\ revokes = 0

Fault == faults < MaxFaults /\ faults' = faults + 1

Goto(m, place) == pc' = [pc EXCEPT ![m] = place]

Records == UNION {{p} \X (1..Length[p]) : p \in Partitions}

\* Time passes: a record's due time comes.
Due(p, k) ==
    /\ k \in 1..Length[p] /\ <<p, k>> \notin due
    /\ due' = due \cup {<<p, k>>}
    /\ UNCHANGED <<owner, committed, client, hold, pc, job, fetched, toCommit,
                   handled, faults, revokes>>

\* AfterFunc: the batch is due at its first record's time (or after
\* escalateRetryDelay, for a record that was due already).
TimerFires(m, p) ==
    /\ timer[m][p] # 0
    /\ <<p, held[m][p].from>> \in due
    /\ wake' = [wake EXCEPT ![m] = Append(@, [p |-> p, seq |-> timer[m][p]])]
    /\ timer' = [timer EXCEPT ![m][p] = 0]
    /\ UNCHANGED <<owner, committed, client, held, nextSeq, pc, job, fetched,
                   toCommit, due, handled, faults, revokes>>

-----------------------------------------------------------------------------
(* Rebalances.                                                             *)

Blocked(m) == pc[m] = "fetch" \/ (job[m].p # None /\ ~job[m].woken)

Assign(p, m) ==
    /\ owner[p] = None /\ ~Blocked(m)
    /\ owner' = [owner EXCEPT ![p] = m]
    /\ pos' = [pos EXCEPT ![m][p] = committed[p]]
    /\ UNCHANGED <<committed, paused, hold, pc, job, fetched, toCommit, due,
                   handled, faults, revokes>>

\* Forget the held batch, stop its timer, resume the partition in the client.
onRevoked(m, p) ==
    /\ held' = [held EXCEPT ![m][p] = NoBatch]
    /\ timer' = [timer EXCEPT ![m][p] = 0]
    /\ paused' = [paused EXCEPT ![m] = @ \ {p}]

Revoke(p) ==
    /\ owner[p] # None /\ ~Blocked(owner[p])
    /\ revokes < MaxRevokes /\ revokes' = revokes + 1
    /\ onRevoked(owner[p], p)
    /\ owner' = [owner EXCEPT ![p] = None]
    /\ UNCHANGED <<committed, pos, wake, nextSeq, pc, job, fetched, toCommit,
                   due, handled, faults>>

\* The process dies, or Run sees its cancelled ctx after the poll and returns
\* without committing; a new instance takes its place.
Crash(m) ==
    /\ Fault
    /\ owner' = [p \in Partitions |-> IF owner[p] = m THEN None ELSE owner[p]]
    /\ paused' = [paused EXCEPT ![m] = {}]
    /\ held' = [held EXCEPT ![m] = [p \in Partitions |-> NoBatch]]
    /\ timer' = [timer EXCEPT ![m] = [p \in Partitions |-> 0]]
    /\ wake' = [wake EXCEPT ![m] = <<>>]
    /\ nextSeq' = [nextSeq EXCEPT ![m] = 0]
    /\ Goto(m, "drain")
    /\ job' = [job EXCEPT ![m] = NoJob]
    /\ fetched' = [fetched EXCEPT ![m] = {}]
    /\ toCommit' = [toCommit EXCEPT ![m] = [p \in Partitions |-> 0]]
    /\ UNCHANGED <<committed, pos, due, handled, revokes>>

-----------------------------------------------------------------------------
(* Run.                                                                    *)

\* drainWakes: one event; a stale generation is ignored.
DrainWake(m) ==
    /\ pc[m] = "drain" /\ wake[m] # <<>>
    /\ LET p == Head(wake[m]).p  batch == held[m][p] IN
       IF batch.seq = Head(wake[m]).seq
       THEN /\ held' = [held EXCEPT ![m][p] = NoBatch]
            /\ timer' = [timer EXCEPT ![m][p] = 0]
            /\ job' = [job EXCEPT ![m] = [p |-> p, next |-> batch.from,
                                          to |-> batch.to, woken |-> TRUE]]
            /\ Goto(m, "work")
       ELSE UNCHANGED <<held, timer, job, pc>>
    /\ wake' = [wake EXCEPT ![m] = Tail(@)]
    /\ UNCHANGED <<owner, committed, client, nextSeq, fetched, toCommit, due,
                   handled, faults, revokes>>

\* The channel is empty: poll, which may time out with nothing fetched.
PollFetches(m) ==
    /\ pc[m] = "drain" /\ wake[m] = <<>>
    /\ \E S \in SUBSET {p \in Partitions \ paused[m] :
                            owner[p] = m /\ pos[m][p] < Length[p]} :
         fetched' = [fetched EXCEPT ![m] = S]
    /\ \/ fetched'[m] # {} \/ \E p \in Partitions : toCommit[m][p] # 0
    /\ Goto(m, "fetch")
    /\ UNCHANGED <<owner, committed, client, hold, job, toCommit, due, handled,
                   faults, revokes>>

\* processPartition: the records of one fetched partition.
ProcessPartition(m) ==
    /\ pc[m] = "fetch" /\ job[m].p = None
    /\ \E p \in fetched[m], n \in 1..MaxFetch :
         /\ pos[m][p] + n <= Length[p]
         /\ job' = [job EXCEPT ![m] = [p |-> p, next |-> pos[m][p] + 1,
                                       to |-> pos[m][p] + n, woken |-> FALSE]]
         /\ pos' = [pos EXCEPT ![m][p] = @ + n]
         /\ fetched' = [fetched EXCEPT ![m] = @ \ {p}]
    /\ Goto(m, "work")
    /\ UNCHANGED <<owner, committed, paused, hold, toCommit, due, handled,
                   faults, revokes>>

Working(m) == pc[m] = "work" /\ job[m].next <= job[m].to

Current(m) == <<job[m].p, job[m].next>>

\* A due record is handled, escalated or (malformed) dead-lettered.
HandleRecord(m) ==
    /\ Working(m) /\ Current(m) \in due
    /\ handled' = handled \cup {Current(m)}
    /\ toCommit' = [toCommit EXCEPT ![m][job[m].p] = job[m].next]
    /\ job' = [job EXCEPT ![m].next = @ + 1]
    /\ UNCHANGED <<owner, committed, client, hold, pc, fetched, due, faults,
                   revokes>>

HoldRecordsFirst(m) ==
    /\ Working(m)
    /\ IF Current(m) \in due THEN Fault ELSE UNCHANGED faults
    /\ nextSeq' = [nextSeq EXCEPT ![m] = @ + 1]
    /\ held' = [held EXCEPT ![m][job[m].p] =
                   [from |-> job[m].next, to |-> job[m].next, seq |-> nextSeq[m] + 1]]
    /\ timer' = [timer EXCEPT ![m][job[m].p] = nextSeq[m] + 1]
    /\ Goto(m, "pause")
    /\ UNCHANGED <<owner, committed, client, wake, job, fetched, toCommit, due,
                   handled, revokes>>

\* holdRecords, under the mutex: the record that is not due, or whose
\* escalation failed, and the rest of the batch.
HoldRecords(m) ==
    /\ Working(m)
    /\ IF Current(m) \in due THEN Fault ELSE UNCHANGED faults
    /\ nextSeq' = [nextSeq EXCEPT ![m] = @ + 1]
    /\ held' = [held EXCEPT ![m][job[m].p] =
                   [from |-> job[m].next, to |-> job[m].to, seq |-> nextSeq[m] + 1]]
    /\ timer' = [timer EXCEPT ![m][job[m].p] = nextSeq[m] + 1]
    /\ Goto(m, "pause")
    /\ UNCHANGED <<owner, committed, client, wake, job, fetched, toCommit, due,
                   handled, revokes>>

\* Back to drainWakes or to the next fetched partition.
Finish(m) ==
    /\ job' = [job EXCEPT ![m] = NoJob]
    /\ Goto(m, IF job[m].woken THEN "drain" ELSE "fetch")

\* PauseFetchPartitions, after the mutex is released.
PauseFetchPartitions(m) ==
    /\ pc[m] = "pause"
    /\ paused' = [paused EXCEPT ![m] = @ \cup {job[m].p}]
    /\ Finish(m)
    /\ UNCHANGED <<owner, committed, pos, hold, fetched, toCommit, due, handled,
                   faults, revokes>>

ProcessedAllStaysPaused(m) ==
    /\ pc[m] = "work" /\ job[m].next > job[m].to
    /\ UNCHANGED paused
    /\ Finish(m)
    /\ UNCHANGED <<owner, committed, pos, hold, fetched, toCommit, due, handled,
                   faults, revokes>>

\* Every record was processed; a woken partition is resumed.
ProcessedAll(m) ==
    /\ pc[m] = "work" /\ job[m].next > job[m].to
    /\ paused' = IF job[m].woken THEN [paused EXCEPT ![m] = @ \ {job[m].p}]
                                 ELSE paused
    /\ Finish(m)
    /\ UNCHANGED <<owner, committed, pos, hold, fetched, toCommit, due, handled,
                   faults, revokes>>

\* CommitRecords for everything processed in this iteration, AllowRebalance.
Commit(m) ==
    /\ pc[m] = "fetch" /\ job[m].p = None /\ fetched[m] = {}
    /\ \/ /\ committed' = [p \in Partitions |->
                 IF toCommit[m][p] # 0 THEN toCommit[m][p] ELSE committed[p]]
          /\ UNCHANGED faults
       \/ UNCHANGED committed /\ Fault
    /\ toCommit' = [toCommit EXCEPT ![m] = [p \in Partitions |-> 0]]
    /\ Goto(m, "drain")
    /\ UNCHANGED <<owner, client, hold, job, fetched, due, handled, revokes>>

Run(m) ==
    \/ DrainWake(m) \/ PollFetches(m) \/ ProcessPartition(m) \/ HandleRecord(m)
    \/ HoldRecords(m) \/ PauseFetchPartitions(m) \/ ProcessedAll(m) \/ Commit(m)

Next ==
    \/ \E m \in Members : Run(m) \/ Crash(m)
    \/ \E p \in Partitions : Revoke(p) \/ \E k \in 1..Length[p] : Due(p, k)
    \/ \E m \in Members, p \in Partitions : TimerFires(m, p) \/ Assign(p, m)

Spec == Init /\ [][Next]_vars

-----------------------------------------------------------------------------
\* Type invariant; generations are handed out in order, one timer per batch.
TypeOK ==
    /\ owner \in [Partitions -> Members \cup {None}]
    /\ \A p \in Partitions : committed[p] \in 0..Length[p]
    /\ \A m \in Members :
         /\ pc[m] \in {"drain", "fetch", "work", "pause"}
         /\ paused[m] \subseteq Partitions /\ fetched[m] \subseteq Partitions
         /\ \A p \in Partitions :
              /\ pos[m][p] \in 0..Length[p] /\ toCommit[m][p] \in 0..Length[p]
              /\ held[m][p].seq <= nextSeq[m]
              /\ timer[m][p] \in {0, held[m][p].seq}
              /\ held[m][p].seq # 0 => held[m][p].from <= held[m][p].to
    /\ due \subseteq Records /\ handled \subseteq Records

\* No silent loss: every record below the committed offset was handled,
\* escalated or dead-lettered (escalateRetryDelay's comment explains why not
\* committing is not enough).
NoSkip == \A p \in Partitions : \A k \in 1..committed[p] : <<p, k>> \in handled

\* No record is handled before its due time, although a held batch wakes at
\* the due time of its first record.
NotEarly == handled \subseteq due

\* A record the owner fetched and that is not committed is handled, held in
\* memory, or about to be processed: a hold never drops the rest of a batch,
\* a replaced or stale batch never takes records with it.
FetchedIsTracked ==
    \A m \in Members, p \in Partitions : owner[p] = m =>
        \A k \in committed[p] + 1 .. pos[m][p] :
            \/ <<p, k>> \in handled
            \/ k \in held[m][p].from .. held[m][p].to
            \/ job[m].p = p /\ k \in job[m].next .. job[m].to

\* The tier consumer keeps every record it is given, and its due time,
\* whatever is held, revoked or half done (holdRecords, drainWakes, commit).
RecordsKept == NoSkip /\ FetchedIsTracked /\ NotEarly

\* Every record of a tier is eventually handled or escalated: a paused
\* partition is always resumed (the comment on onRevoked: otherwise "the tier
\* would stall silently forever").
EventuallyHandled ==
    <>(\A p \in Partitions : \A k \in 1..Length[p] : <<p, k>> \in handled)
==============================================================================
