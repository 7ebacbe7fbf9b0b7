-------------------------- MODULE PartitionMaintenance --------------------------
(* outbox.PartitionManager: time-range partitions of the outbox are created   *)
(* ahead of time and dropped after their retention. Managers that overlap (a  *)
(* new leader, an instance that starts) issue their statements one by one,    *)
(* with inserts and the relay in between. Postgres and the relay are as the   *)
(* statements use them. One shard; window w is [w * Interval, (w+1) * Interval). *)
EXTENDS Integers, FiniteSets

CONSTANTS
  Managers, Rows,
  Interval, Retention, Lookahead,  \* PartitionConfig, in ticks
  Cadence,    \* the periodic worker's interval
  MaxTx,      \* the longest transaction that inserts a row
  MaxNow,     \* the clock stops here
  History,    \* rows inserted in simple mode, before the first manager started
  MayFail     \* a statement may fail, a manager may stop between two

VARIABLES
  now,
  parts,    \* attached range partitions, by window
  orphans,  \* detached tables that still exist
  st,       \* row -> "none", "open", "unpublished", "published", "cleaned",
            \* "gone" or "lost" with its partition
  at,       \* row -> created_at
  place,    \* row -> the window of its partition, or -1: DEFAULT
  mgr,      \* manager -> [pc, start, i, names]
  since     \* ticks since a maintenance run started

vars == <<now, parts, orphans, st, at, place, mgr, since>>

Default == -1
Windows == 0..((MaxNow \div Interval) + Lookahead)
Live == {"unpublished", "published"}

TypeOK ==
  /\ now \in 0..MaxNow /\ parts \subseteq Windows /\ orphans \subseteq Windows
  /\ st \in [Rows -> {"none", "open", "cleaned", "gone", "lost"} \cup Live]
  /\ at \in [Rows -> 0..MaxNow] /\ place \in [Rows -> Windows \cup {Default}]
  /\ \A m \in Managers :
       /\ mgr[m].pc \in {"eager", "idle", "ensure", "list", "probe", "detach", "drop"}
       /\ mgr[m].start \in 0..MaxNow /\ mgr[m].i \in 0..(Lookahead + 1)
       /\ mgr[m].names \subseteq Windows
  /\ since \in 0..Cadence

\* bounds: the window that contains t.
bounds(t) == t \div Interval

Init ==
  /\ now \in 0..(Interval - 1)
  /\ parts = {} /\ orphans = {}
  /\ st = [r \in Rows |-> IF r \in History THEN "unpublished" ELSE "none"]
  /\ at = [r \in Rows |-> IF r \in History THEN now ELSE 0]
  /\ place = [r \in Rows |-> Default]
  /\ mgr = [m \in Managers |-> [pc |-> "eager", start |-> now, i |-> 0, names |-> {}]]
  /\ since = 0

--------------------------------------------------------------------------------
\* Postgres: DDL on the outbox waits for the transactions that wrote to it.
Quiet == \A r \in Rows : st[r] # "open"

\* Postgres refuses a partition whose rows are in DEFAULT; IF NOT EXISTS is
\* about the table's name.
CreateFails(w) ==
  /\ w \notin parts \cup orphans
  /\ \E r \in Rows : st[r] \in Live /\ place[r] = Default /\ bounds(at[r]) = w

\* The end of the loop over the lookahead.
Ensured(i) == i > Lookahead

Idle == [pc |-> "idle", start |-> 0, i |-> 0, names |-> {}]
AfterEnsure(m) == IF mgr[m].pc = "eager" THEN Idle ELSE [mgr[m] EXCEPT !.pc = "list", !.i = 0]
Ensures(m) == mgr[m].pc \in {"eager", "ensure"}

\* One statement of EnsurePartitions; the first error ends it. Maintain goes on
\* with DropExpired in either case.
EnsurePartition(m) ==
  LET w == bounds(mgr[m].start + mgr[m].i * Interval) IN
  /\ Ensures(m) /\ ~Ensured(mgr[m].i) /\ Quiet
  /\ IF CreateFails(w)
     THEN /\ mgr' = [mgr EXCEPT ![m] = AfterEnsure(m)]
          /\ UNCHANGED parts
     ELSE /\ parts' = IF w \in orphans THEN parts ELSE parts \cup {w}
          /\ mgr' = [mgr EXCEPT ![m].i = @ + 1]
  /\ UNCHANGED <<now, orphans, st, at, place, since>>

EnsureEnds(m) ==
  /\ Ensures(m) /\ Ensured(mgr[m].i)
  /\ mgr' = [mgr EXCEPT ![m] = AfterEnsure(m)]
  /\ UNCHANGED <<now, parts, orphans, st, at, place, since>>

\* hi is not after the cutoff.
Expired(w, t) == (w + 1) * Interval <= t - Retention

\* listPartitions and the names DropExpired will look at. The catalog is read
\* on the reader; a window that is expired has been there for long.
List(m) ==
  /\ mgr[m].pc = "list"
  /\ mgr' = [mgr EXCEPT ![m].pc = "probe",
                        ![m].names = {w \in parts : Expired(w, mgr[m].start)}]
  /\ UNCHANGED <<now, parts, orphans, st, at, place, since>>

Current(m) == CHOOSE w \in mgr[m].names : \A v \in mgr[m].names : w <= v
Skip(m) == mgr' = [mgr EXCEPT ![m].pc = "probe", ![m].names = @ \ {Current(m)}]

\* Plausible slip: the probe's answer is not looked at.
HoldsUnpublishedNever(w) == FALSE
HoldsUnpublished(w) == \E r \in Rows : st[r] = "unpublished" /\ place[r] = w

\* The exists query; a table that is gone is an error, which skips the name.
Probe(m) ==
  /\ mgr[m].pc = "probe" /\ mgr[m].names # {}
  /\ IF Current(m) \notin parts \cup orphans \/ HoldsUnpublished(Current(m))
     THEN Skip(m)
     ELSE mgr' = [mgr EXCEPT ![m].pc = "detach"]
  /\ UNCHANGED <<now, parts, orphans, st, at, place, since>>

Detach(m) ==
  /\ mgr[m].pc = "detach" /\ Quiet
  /\ IF Current(m) \in parts
     THEN /\ parts' = parts \ {Current(m)}
          /\ orphans' = orphans \cup {Current(m)}
          /\ mgr' = [mgr EXCEPT ![m].pc = "drop"]
     ELSE Skip(m) /\ UNCHANGED <<parts, orphans>>
  /\ UNCHANGED <<now, st, at, place, since>>

Drop(m) ==
  /\ mgr[m].pc = "drop"
  /\ Skip(m)
  /\ orphans' = orphans \ {Current(m)}
  /\ st' = [r \in Rows |->
       IF place[r] = Current(m) /\ st[r] \in Live
       THEN IF st[r] = "published" THEN "gone" ELSE "lost"
       ELSE st[r]]
  /\ UNCHANGED <<now, parts, at, place, since>>

\* Maintain returns; observe only reads.
MaintainEnds(m) ==
  /\ mgr[m].pc = "probe" /\ mgr[m].names = {}
  /\ mgr' = [mgr EXCEPT ![m] = Idle]
  /\ UNCHANGED <<now, parts, orphans, st, at, place, since>>

\* The periodic worker's tick.
Maintain(m) ==
  /\ mgr[m].pc = "idle"
  /\ mgr' = [mgr EXCEPT ![m] = [pc |-> "ensure", start |-> now, i |-> 0, names |-> {}]]
  /\ since' = 0
  /\ UNCHANGED <<now, parts, orphans, st, at, place>>

\* A statement fails and its name is skipped, or ensuring ends; or the process
\* stops, and the manager that comes after it starts anew.
Fails(m) ==
  /\ MayFail /\ mgr[m].pc # "idle"
  /\ \/ Ensures(m) /\ mgr' = [mgr EXCEPT ![m] = AfterEnsure(m)]
     \/ mgr[m].pc = "list" /\ mgr' = [mgr EXCEPT ![m].pc = "probe"]
     \/ mgr[m].pc \in {"probe", "detach", "drop"} /\ mgr[m].names # {} /\ Skip(m)
     \/ mgr' = [mgr EXCEPT ![m] = Idle]
  /\ UNCHANGED <<now, parts, orphans, st, at, place, since>>

--------------------------------------------------------------------------------
\* A service inserts in a transaction once its own wiring is over; created_at
\* is the start of the transaction.
Insert(r) ==
  /\ st[r] = "none" /\ \E m \in Managers : mgr[m].pc # "eager"
  /\ st' = [st EXCEPT ![r] = "open"]
  /\ at' = [at EXCEPT ![r] = now]
  /\ UNCHANGED <<now, parts, orphans, place, mgr, since>>

\* The row goes to its partition, or to DEFAULT; partitions do not change while
\* the transaction is open.
CommitRow(r) ==
  /\ st[r] = "open"
  /\ st' = [st EXCEPT ![r] = "unpublished"]
  /\ place' = [place EXCEPT ![r] = IF bounds(at[r]) \in parts THEN bounds(at[r]) ELSE Default]
  /\ UNCHANGED <<now, parts, orphans, at, mgr, since>>

Attached(r) == place[r] \in parts \cup {Default}

\* The relay (OutboxRelay) publishes what the outbox shows.
Publish(r) ==
  /\ st[r] = "unpublished" /\ Attached(r)
  /\ st' = [st EXCEPT ![r] = "published"]
  /\ UNCHANGED <<now, parts, orphans, at, place, mgr, since>>

\* The cleaner's age-based DELETE.
Clean(r) ==
  /\ st[r] = "published" /\ Attached(r) /\ at[r] < now
  /\ st' = [st EXCEPT ![r] = "cleaned"]
  /\ UNCHANGED <<now, parts, orphans, at, place, mgr, since>>

\* Transactions end within MaxTx; without failures the worker is not late and
\* EnsurePartitions is done before the clock moves on.
Tick ==
  /\ now < MaxNow
  /\ \A r \in Rows : st[r] = "open" => now < at[r] + MaxTx
  /\ \A m \in Managers : mgr[m].pc # "eager"
  /\ MayFail \/ (since < Cadence /\ \A m \in Managers : ~Ensures(m))
  /\ now' = now + 1
  /\ since' = IF since < Cadence THEN since + 1 ELSE since
  /\ UNCHANGED <<parts, orphans, st, at, place, mgr>>

Step(m) ==
  \/ EnsurePartition(m) \/ EnsureEnds(m) \/ List(m) \/ Probe(m) \/ Detach(m)
  \/ Drop(m) \/ MaintainEnds(m) \/ Maintain(m)

Next ==
  \/ \E m \in Managers : Step(m) \/ Fails(m)
  \/ \E r \in Rows : Insert(r) \/ CommitRow(r) \/ Publish(r) \/ Clean(r)
  \/ Tick

--------------------------------------------------------------------------------
\* Retention never takes an event that was not published: an unpublished row is
\* in a table the relay reads (DropExpired, the probe and the detach).
UnpublishedStays == \A r \in Rows : st[r] # "lost" /\ (st[r] = "unpublished" => Attached(r))

\* With the lookahead in place no row goes to DEFAULT (EnsurePartitions).
DefaultStaysEmpty == \A r \in Rows : st[r] \in Live => place[r] # Default

\* A row stays for its retention, whatever the managers' order of statements
\* (DropExpired, the cutoff).
KeptForRetention ==
  \A r \in Rows : st[r] = "gone" => now >= at[r] + Retention

\* A maintenance run that met no failure leaves a partition for the current
\* rows (AddOutboxPartitionMaintenance: rows "fall into DEFAULT until the first
\* tick repairs it").
TickRepairs ==
  \A m \in Managers :
    mgr[m].pc = "probe" /\ mgr[m].names = {} => bounds(mgr[m].start) \in parts
================================================================================
