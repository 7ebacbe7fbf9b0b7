-------------------------------- MODULE MCAudit --------------------------------
(* Instances of the audit log: overlapping drainers, walks over an edited     *)
(* table, the two buffered writers, and the gateway's endpoints that write to *)
(* the log. One of them runs in a behaviour.                                  *)
EXTENDS AuditChain, TLC

CONSTANTS a, b, c, d1, d2, r1, r2, r3, r4, NoOne, Absent, Unnamed

VARIABLES order, buf, batch, pc, log, lost, refused, served, cancelled, inFlight,
          row, replica, owners, objects, intact, entries, bucket, req, now, misses,
          setup  \* "drain", "walk", "pendingrows", "auditrows" or "access"

writer == <<order, buf, batch, pc, log, lost, refused, served, cancelled, inFlight>>
chain == <<rows, head, lock, cmd, prev, pending, visible, nextId, staged, drain,
           walk, before, edited, clock, walks>>
access == <<row, replica, owners, objects, intact, entries, bucket, req, now, misses>>
all == <<vars, writer, access, setup>>

Walked == INSTANCE AuditChain WITH
    Durable <- {}, MaxClock <- 2, MaxFaults <- 0, MaxWalks <- 1, Edits <- TRUE

TwoGroups == (r1 :> "x") @@ (r2 :> "y") @@ (r3 :> "x") @@ (r4 :> "x")

\* PendingBatcher and BufferedAuditWriter
PendingRows == INSTANCE BufferedWriter WITH
    Rows <- {r1, r2, r3, r4}, Group <- TwoGroups, BufSize <- 2, MaxBatch <- 2, Rechecks <- TRUE
AuditRows == INSTANCE BufferedWriter WITH
    Rows <- {r1, r2, r3, r4}, Group <- TwoGroups, BufSize <- 2, MaxBatch <- 2, Rechecks <- FALSE

\* The order is ann's; a conflicting POST names bob.
Ask(kind, who, id) == [kind |-> kind, who |-> who, id |-> id]
Asked == {Ask("get", "ann", "id"), Ask("get", "bob", "id"), Ask("get", NoOne, "id"),
          Ask("upload", "ann", "id"), Ask("upload", "bob", "ID"), Ask("download", "ann", "ID"),
          Ask("download", "eve", "id"), Ask("query", "bob", "id"), Ask("query", "root", "id"),
          Ask("query", NoOne, "id"), Ask("verify", "root", "id")}
First == {Ask("upload", "ann", "id"), Ask("get", "bob", "id"), Ask("download", "eve", "id"),
          Ask("verify", "root", "id")}
Access == INSTANCE OrderAccess WITH
    Customers <- {"ann", "bob"}, Admins <- {"root"}, Others <- {"eve"},
    Named <- {"ann", "bob"}, Customer <- "ann", Parse <- [id |-> 1, ID |-> 1],
    Reqs <- {r1, r2}, Plans <- Asked, Shards <- 1..2, Burst <- 1, MaxNow <- 1,
    MaxFaults <- 1, log <- entries, faults <- misses

MCInit ==
    /\ PendingRows!Init /\ Access!Init
    /\ \/ setup \in {"drain", "pendingrows", "auditrows", "access"} /\ Init
       \/ setup = "walk" /\ Walked!Init
    /\ IF setup = "access"
       THEN Ask(req[r1].kind, req[r1].who, req[r1].id) \in First
       ELSE \A r \in {r1, r2} : req[r].kind = "get" /\ req[r].who = "ann"

InChain(s, A) == setup = s /\ A /\ UNCHANGED <<writer, access, setup>>
InWriter(s, A) == setup = s /\ A /\ UNCHANGED <<chain, access, setup>>

\* r1 comes first, the clock runs when that fills a bucket, rows change while
\* one is to be read, and tables are edited while a check of the chains is to
\* come or under way.
InAccess ==
    /\ setup = "access" /\ Access!Next /\ UNCHANGED <<vars, writer, setup>>
    /\ req[r1].at = "none" => UNCHANGED req[r2]
    /\ UNCHANGED bucket => UNCHANGED now
    /\ (\A r \in {r1, r2} : \/ req[r].kind \in {"query", "verify"}
                            \/ req[r].at \notin {"none", "gate", "lookup"})
          => UNCHANGED <<row, replica>>
    /\ (\A r \in {r1, r2} : req[r].kind # "verify" \/ req[r].at = "done") => UNCHANGED intact

MCNext ==
    \/ InAccess
    \/ InChain("drain", Next) \/ InChain("walk", Walked!Next)
    \/ InWriter("pendingrows", PendingRows!Next) \/ InWriter("auditrows", AuditRows!Next)

\* Transactions end, replication catches up and the leader's ticker fires; a
\* writer's goroutine runs, and its select serves a ready channel in the end.
MCSpec ==
    /\ MCInit /\ [][MCNext]_all
    /\ WF_all(InChain("drain", Replicate))
    /\ \A x \in Cmds : WF_all(InChain("drain", Commit(x) \/ CommitStaged(x)))
    /\ \A d \in Drainers : /\ WF_all(InChain("drain", Drain(d)))
                           /\ SF_all(InChain("drain", DrainLocks(d)))
    /\ WF_all(InWriter("pendingrows", PendingRows!Run))
    /\ SF_all(InWriter("pendingrows", PendingRows!Done))
    /\ WF_all(InWriter("auditrows", AuditRows!Run))
    /\ SF_all(InWriter("auditrows", AuditRows!Done))

--------------------------------------------------------------------------------
Buffering == setup \in {"pendingrows", "auditrows"}

\* A writer mislays no row between Enqueue, Run and drain and keeps the order
\* of a shard or chain; PendingBatcher loses at most the batch in flight to a
\* shutdown (Run, flush).
RowsAccounted ==
    /\ Buffering => PendingRows!NothingForgotten /\ PendingRows!GroupOrder
    /\ setup = "pendingrows" => PendingRows!OnlyInFlightLost

\* Only owners and administrators are served, what is served or denied is
\* audited within the limiter's bounds, stored attachments are found and broken
\* chains reported (GetOrder, Upload, Download, QueryAudit, VerifyAudit).
AccessAccounted ==
    setup = "access" =>
        /\ Access!OnlyOwners /\ Access!Audited
        /\ Access!UploadsFound /\ Access!BreaksReported

\* Staged intents reach the chain (DurableAudit: "NEVER drops"), and after the
\* cancellation a writer empties its channel and returns (Run).
NothingWaitsForEver ==
    /\ setup = "drain" => EventuallyApplied
    /\ Buffering => PendingRows!DrainsAndExits
================================================================================
