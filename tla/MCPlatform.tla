------------------------------ MODULE MCPlatform ------------------------------
(* Instances of the smaller components; one of them runs in a behaviour: the   *)
(* ledger, money, leader election, partitions in steady state, with failing    *)
(* statements and in a service switched over from simple mode, transactional   *)
(* consumers, the order list, the rate limiters, and a load run's verdict.      *)
EXTENDS Ledger, Leader, TransactConsumer

CONSTANTS i1, i2, m1, m2, r1, r2, k1, k2, k3

VARIABLES
  now, parts, orphans, st, at, place, mgr, since,            \* partitions
  rows, old, n, phase, cursor, limit, pos, per, next, page, walked,  \* list
  clock, bucket, log, due, spilled,                          \* limiters
  arg,                                                       \* money
  status, schedule, drawn, running, answers, failed, terminals, winners, losers,
  rejects, step, open, probe, last, found, until, cancelled, errors, time,  \* traffic
  setup

partition == <<now, parts, orphans, st, at, place, mgr, since>>
list == <<rows, old, n, phase, cursor, limit, pos, per, next, page, walked>>
limiter == <<clock, bucket, log, due, spilled>>
traffic == <<status, schedule, drawn, running, answers, failed, terminals, winners, losers,
             rejects, step, open, probe, last, found, until, cancelled, errors, time>>
all == <<vars, leadVars, partition, loopVars, list, limiter, arg, traffic, setup>>

--------------------------------------------------------------------------------
\* One key with two bodies, assets that net to zero together only, an account
\* of another asset, and two assets in one posting.
Leg(a, d, amount, asset) == [account |-> a, direction |-> d, amount |-> amount, asset |-> asset]
MCLegs == [
  pay |-> <<Leg("cash", "debit", 3, "USD"), Leg("sales", "credit", 2, "USD"), Leg("cash", "credit", 1, "USD")>>,
  again |-> <<Leg("cash", "debit", 1, "USD"), Leg("sales", "credit", 1, "USD")>>,
  mixed |-> <<Leg("cash", "debit", 1, "USD"), Leg("wallet", "credit", 1, "EUR")>>,
  wrong |-> <<Leg("wallet", "debit", 1, "USD"), Leg("sales", "credit", 1, "USD")>>,
  fx |-> <<Leg("cash", "debit", 2, "USD"), Leg("sales", "credit", 2, "USD"),
           Leg("wallet", "debit", 1, "EUR"), Leg("wallet", "credit", 1, "EUR")>>]
MCKeyOf == [pay |-> "k1", again |-> "k1", mixed |-> "k2", wrong |-> "k3", fx |-> "k4"]
MCAssetOf == [cash |-> "USD", sales |-> "USD", wallet |-> "EUR"]
MCNormal == [cash |-> "debit", sales |-> "credit", wallet |-> "debit"]

Steady == INSTANCE PartitionMaintenance WITH
  Managers <- {m1}, Rows <- {r1, r2}, Interval <- 2, Retention <- 2, Lookahead <- 1,
  Cadence <- 2, MaxTx <- 2, MaxNow <- 5, History <- {}, MayFail <- FALSE
Rough == INSTANCE PartitionMaintenance WITH
  Managers <- {m1, m2}, Rows <- {r1}, Interval <- 2, Retention <- 2, Lookahead <- 1,
  Cadence <- 2, MaxTx <- 2, MaxNow <- 4, History <- {}, MayFail <- TRUE
Switched == INSTANCE PartitionMaintenance WITH
  Managers <- {m1}, Rows <- {r1, r2}, Interval <- 2, Retention <- 2, Lookahead <- 1,
  Cadence <- 2, MaxTx <- 2, MaxNow <- 5, History <- {r1}, MayFail <- FALSE

\* Even ranks on one of two shards, odd ones on the other.
Routed(k) == [r \in 1..4 |-> IF k = 1 THEN 1 ELSE 1 + (r % 2)]
List == INSTANCE ListOrders WITH
  Ranks <- 1..4, Limits <- {0, 2, 3}, DefaultPageLimit <- 1, MaxPageLimit <- 2,
  Shards <- Routed, Counts <- {1, 2}, pc <- phase

\* A bucket of two that takes five milliseconds to fill.
Redis == INSTANCE RateLimit WITH
  Keys <- {k1}, Rps <- 400, Burst <- 2, Shared <- TRUE, Idle <- 1, MaxEntries <- 3,
  SampleSize <- 2, FailClosed <- TRUE, Second <- 3, MaxCalls <- 3, MaxNow <- 12, now <- clock
Open == INSTANCE RateLimit WITH
  Keys <- {k1}, Rps <- 400, Burst <- 2, Shared <- TRUE, Idle <- 1, MaxEntries <- 3,
  SampleSize <- 2, FailClosed <- FALSE, Second <- 3, MaxCalls <- 2, MaxNow <- 4, now <- clock
Memory == INSTANCE RateLimit WITH
  Keys <- {k1, k2, k3}, Rps <- 500, Burst <- 1, Shared <- FALSE, Idle <- 2, MaxEntries <- 2,
  SampleSize <- 2, FailClosed <- FALSE, Second <- 3, MaxCalls <- 2, MaxNow <- 3, now <- clock

\* One op, or two of them on two workers.
Traffic == INSTANCE TrafficRun WITH
  Schedules <- {<<"mismatch">>, <<"idem">>, <<"happy", "invalid">>, <<"decline">>}, Workers <- 2,
  Ids <- {1, 2}, Within <- 1, Interval <- 1, MaxFaults <- 1, MaxNow <- 2,
  next <- drawn, pc <- step, faults <- errors, now <- time, due <- until

\* Guard digits and an asset of one digit each.
Mon == INSTANCE Money WITH Exponent <- 1, divGuardDigits <- 1

--------------------------------------------------------------------------------
NoArg == [kind |-> "none"]
Allocations ==
  [kind : {"allocate"}, x : [c : -8..11, e : 0..1],
   ratios : {s \in UNION {[1..k -> 0..3] : k \in 1..3} : \E i \in DOMAIN s : s[i] > 0}]
Divisions ==
  [kind : {"divide"}, x : [c : {-11, -5, 5, 11}, e : 0..2], y : [c : (-13..13) \ {0}, e : 0..1],
   scale : {0}, mode : Mon!Modes]

Setups == {"ledger", "money", "leader", "steady", "rough", "switched", "transact", "list",
           "redis", "open", "memory", "traffic"}

MCInit ==
  /\ Init /\ LeadInit /\ LoopInit /\ owner = m1
  /\ setup \in Setups
  /\ IF setup = "list" THEN List!Init ELSE List!Init /\ rows = {} /\ n = 1
  /\ Traffic!Init /\ (setup # "traffic" => schedule = <<"decline">>)
  /\ IF setup = "memory" THEN Memory!Init ELSE Redis!Init
  /\ IF setup = "money" THEN arg \in Allocations \cup Divisions ELSE arg = NoArg
  /\ CASE setup = "steady" -> Steady!Init
       [] setup = "rough" -> Rough!Init /\ now = 0
       [] setup = "switched" -> Switched!Init
       [] OTHER -> Steady!Init /\ now = 0

\* With failures the workers' first ticks come late, when partitions expire.
Late == now < 4 => \A m \in {m1, m2} : mgr'[m].pc # "ensure"

InLedger == setup = "ledger" /\ Next
         /\ UNCHANGED <<leadVars, partition, loopVars, list, limiter, arg, traffic, setup>>
InLeader(A) == setup = "leader" /\ A
         /\ UNCHANGED <<vars, partition, loopVars, list, limiter, arg, traffic, setup>>
InPartition(s, A) == setup = s /\ A
         /\ UNCHANGED <<vars, leadVars, loopVars, list, limiter, arg, traffic, setup>>
InConsumer(A) == setup = "transact" /\ A
         /\ UNCHANGED <<vars, leadVars, partition, list, limiter, arg, traffic, setup>>
InList == setup = "list" /\ List!Next
         /\ UNCHANGED <<vars, leadVars, partition, loopVars, limiter, arg, traffic, setup>>
InLimiter(s, A) == setup = s /\ A
         /\ UNCHANGED <<vars, leadVars, partition, loopVars, list, arg, traffic, setup>>
InTraffic(A) == setup = "traffic" /\ A
         /\ UNCHANGED <<vars, leadVars, partition, loopVars, list, limiter, arg, setup>>

MCNext ==
  \/ InLedger \/ InLeader(LeadNext) \/ InConsumer(LoopNext) \/ InList
  \/ InPartition("steady", Steady!Next) \/ InPartition("rough", Rough!Next /\ Late)
  \/ InPartition("switched", Switched!Next)
  \/ InLimiter("redis", Redis!Next) \/ InLimiter("open", Open!Next) \/ InLimiter("memory", Memory!Next)
  \/ InTraffic(Traffic!Next)

\* Goroutines run, sessions are reaped, time passes and fn ends when cancelled;
\* leadTerm's select serves a ready channel in the end. Consumers make
\* progress, probes answer.
MCSpec ==
  /\ MCInit /\ [][MCNext]_all
  /\ \A i \in Instances :
       /\ WF_all(InLeader(LeadStep(i)))
       /\ SF_all(InLeader(Shutdown(i) \/ FnDone(i)))
       /\ WF_all(InLeader(fn[i] = "cancelled" /\ FnReturns(i)))
  /\ WF_all(InLeader(Reap)) /\ WF_all(InLeader(Tick))
  /\ \A m \in Members : WF_all(InConsumer(LoopStep(m)))
  /\ WF_all(InTraffic(Traffic!Command))

--------------------------------------------------------------------------------
\* Money is neither made nor lost: in every asset all balances of the ledger
\* come to zero (Validate, Post), splitting conserves the amount (Allocate), a
\* quotient is rounded once (DivRound), and exact operations are exact
\* (Percent, Fraction, Minor).
MoneyConserved ==
  /\ setup = "ledger" => Store!TrialBalance
  /\ arg.kind = "allocate" => Mon!Conserved(arg.x, arg.ratios)
  /\ arg.kind = "divide" => /\ Mon!RoundsTrueQuotient(arg.x, arg.y, arg.scale, arg.mode)
                            /\ Mon!NothingLost(arg.x, arg.y)

\* Some instance leads from some point on, unless all were asked to stop, died
\* or had their function end (runAsLeader).
\* A partition of inputs is worked off in the end (Run). A load run
\* ends with a verdict (Verify).
MakesProgress ==
  <>[](CASE setup = "leader" -> \/ \E i \in Instances : lock = i /\ Active(i)
                                \/ \A i \in Instances : pc[i] = "end"
         [] setup = "transact" -> offset = Inputs
         [] setup = "traffic" -> step \in {"exit0", "exit1"}
         [] OTHER -> TRUE)

\* Retention takes published rows only, and only when they are old
\* (DropExpired); with the lookahead in place no row goes to DEFAULT
\* (EnsurePartitions).
RetentionSafe ==
  /\ setup = "steady" => Steady!DefaultStaysEmpty
  /\ setup \in {"steady", "switched"} => Steady!UnpublishedStays /\ Steady!KeptForRetention
  /\ setup = "rough" => Rough!UnpublishedStays /\ Rough!KeptForRetention

\* A maintenance run that met no failure leaves a partition for the current
\* rows.
Repairs == setup = "switched" => Switched!TickRepairs

\* A walk through the pages shows what was there once, in order (ListOrders).
PagesComplete == setup = "list" => List!NoDuplicates /\ List!OldInOrder /\ List!NothingSkipped

\* The limiters keep to rate and burst, fail-closed across failures, and
\* Retry-After is honest (Allow, RateLimitPer).
RateKept ==
  /\ setup = "redis" => Redis!RateBounded /\ Redis!RetryAfterHonest
  /\ setup = "memory" => Memory!RateBounded

\* A load run's exit code 0 is true of the gateway, and it is blamed only for
\* what it did (Generator.Run, the scenarios, Verify).
VerdictHonest == setup = "traffic" => Traffic!CleanIsTrue /\ Traffic!BlameIsDue
================================================================================
