----------------------------- MODULE TwoTierCache -----------------------------
(***************************************************************************)
(* The two-tier cache of platform/storage/cache and the Caching behavior   *)
(* that puts it in front of a query: an in-process L1 per instance, Redis  *)
(* as the shared L2, one load per key and instance at a time               *)
(* (singleflight), and a pub/sub broadcast that drops the key from the     *)
(* other instances' L1.  A writer commits new versions of the row and then *)
(* calls Delete.                                                           *)
(*                                                                         *)
(* One key is modelled: keys do not interact.  A value is the version of   *)
(* the row it was computed from.  Time passes in ticks; entries carry the  *)
(* ticks they have left, superseded versions the ticks since they were     *)
(* superseded.  The circuit breaker in front of L2 only decides whether an *)
(* L2 operation is tried, so here an operation may be skipped at any time  *)
(* (when Redis may fail); module L2Breaker is about the breaker itself.    *)
(* TTL jitter, which moves an expiry by a tenth, is left out.              *)
(***************************************************************************)
EXTENDS Naturals, FiniteSets

CONSTANTS
  Instances,     \* processes with a cache
  Callers,       \* queries
  At,            \* the instance of each caller
  WriterAt,      \* the instance the writer's Delete runs on
  MaxVersion,    \* bound on the versions the writer commits
  TTL,           \* ttl of the query's entries
  DefaultTTL,    \* Config.DefaultTTL
  LoaderTimeout, \* Config.LoaderTimeout
  MaxInbox,      \* bound on the broadcasts under way to an instance
  Unreliable,    \* Redis operations may fail
  Gaps           \* instances whose subscription may break off

ASSUME CacheAssumption ==
  /\ Callers # {} /\ At \in [Callers -> Instances] /\ WriterAt \in Instances
  /\ MaxVersion \in Nat /\ MaxInbox \in Nat /\ LoaderTimeout \in Nat
  /\ TTL \in Nat \ {0} /\ DefaultTTL \in Nat \ {0}

None == [v |-> MaxVersion + 1, left |-> 0, gap |-> FALSE]
Zero == MaxVersion + 1            \* the zero value of the query's result
Versions == 0..MaxVersion
\* An entry of n ticks is served for less than n: n - 1 whole ticks at most.
Bound == LoaderTimeout + (TTL - 1) + (DefaultTTL - 1)
Cap == Bound + 1                  \* ages are counted up to here

VARIABLES
  db,      \* the committed version
  age,     \* version -> ticks since it was superseded
  l1,      \* instance -> entry
  l2,      \* entry
  feed,    \* instance -> state of its subscription
  inbox,   \* instance -> broadcasts on their way to it
  call,    \* caller -> [pc, v, kind]
  flight,  \* instance -> [pc, leader, v, age]: its singleflight call
  writer,  \* where the writer's Delete is
  excuse   \* something happened that the cache documents as TTL-bounded

cacheVars == <<db, age, l1, l2, feed, inbox, call, flight, writer, excuse>>
redis == <<l2, inbox>>
source == <<db, age, writer>>

Entry(v, left, i) == [v |-> v, left |-> left, gap |-> feed[i] # "live"]
Idle == [pc |-> "idle", v |-> Zero, kind |-> "none"]
NoFlight == [pc |-> "none", leader |-> CHOOSE c \in Callers : TRUE, v |-> Zero, age |-> 0]

CacheInit ==
  /\ db = 0 /\ age = [v \in Versions |-> 0]
  /\ l1 = [i \in Instances |-> None] /\ l2 = None
  /\ feed = [i \in Instances |-> "live"] /\ inbox = [i \in Instances |-> 0]
  /\ call = [c \in Callers |-> Idle]
  /\ flight = [i \in Instances |-> NoFlight]
  /\ writer = "idle" /\ excuse = FALSE

Answer(c, kind, v) == call' = [call EXCEPT ![c] = [pc |-> "done", v |-> v, kind |-> kind]]
CallGoes(c, pc, v) == call' = [call EXCEPT ![c] = [pc |-> pc, v |-> v, kind |-> "none"]]

--------------------------------------------------------------------------------
(* Get and GetOrLoad. *)

\* GetOrLoad's first Get: the L1 fast path.
GetL1(c) ==
  /\ call[c].pc = "idle"
  /\ IF l1[At[c]] # None
       THEN Answer(c, "value", l1[At[c]].v)
       ELSE CallGoes(c, "get", Zero)
  /\ UNCHANGED <<source, l1, redis, feed, flight, excuse>>

\* Its L2 read; an error, or an open breaker, is a miss.
GetL2(c) ==
  /\ call[c].pc = "get"
  /\ \/ l2 # None /\ CallGoes(c, "fill", l2.v)
     \/ (l2 = None \/ Unreliable) /\ CallGoes(c, "join", Zero)
  /\ UNCHANGED <<source, l1, redis, feed, flight, excuse>>

\* An L2 hit is put into L1 for the default TTL.
Fill(i, v) == l1' = [l1 EXCEPT ![i] = Entry(v, DefaultTTL, i)]

GetFills(c) ==
  /\ call[c].pc = "fill"
  /\ Fill(At[c], call[c].v)
  /\ Answer(c, "value", call[c].v)
  /\ UNCHANGED <<source, redis, feed, flight, excuse>>

\* singleflight.DoChan: start the instance's load or wait for the running one.
Join(c) ==
  /\ call[c].pc = "join"
  /\ CallGoes(c, "wait", Zero)
  /\ flight' = [flight EXCEPT ![At[c]] =
                  IF flight[At[c]].pc = "none"
                    THEN [pc |-> "get1", leader |-> c, v |-> Zero, age |-> 0]
                    ELSE flight[At[c]]]
  /\ UNCHANGED <<source, l1, redis, feed, excuse>>

\* Only the caller that started the load hears of its outcome.
DeliverToLeader(i, kind, v) ==
  /\ flight' = [flight EXCEPT ![i] = NoFlight]
  /\ call' = [c \in Callers |->
                IF flight[i].leader = c /\ call[c].pc = "wait"
                  THEN [pc |-> "done", v |-> v, kind |-> kind] ELSE call[c]]

\* The load is over: everybody who waits has its outcome.
Deliver(i, kind, v) ==
  /\ flight' = [flight EXCEPT ![i] = NoFlight]
  /\ call' = [c \in Callers |->
                IF At[c] = i /\ call[c].pc = "wait"
                  THEN [pc |-> "done", v |-> v, kind |-> kind] ELSE call[c]]

FlightGoes(i, pc, v) ==
  /\ flight' = [flight EXCEPT ![i] =
                  [pc |-> pc, leader |-> flight[i].leader, v |-> v, age |-> flight[i].age]]
  /\ UNCHANGED call

\* The second Get, inside the flight.
FlightGetL1(i) ==
  /\ flight[i].pc = "get1"
  /\ IF l1[i] # None THEN Deliver(i, "value", l1[i].v)
                     ELSE FlightGoes(i, "get2", Zero)
  /\ UNCHANGED <<source, l1, redis, feed, excuse>>

FlightGetL2(i) ==
  /\ flight[i].pc = "get2"
  /\ \/ l2 # None /\ FlightGoes(i, "fill", l2.v)
     \/ (l2 = None \/ Unreliable) /\ FlightGoes(i, "load", Zero)
  /\ UNCHANGED <<source, l1, redis, feed, excuse>>

FlightFills(i) ==
  /\ flight[i].pc = "fill"
  /\ Fill(i, flight[i].v)
  /\ Deliver(i, "value", flight[i].v)
  /\ UNCHANGED <<source, redis, feed, excuse>>

\* The loader reads the row, or fails.
Load(i) ==
  /\ flight[i].pc = "load"
  /\ \/ FlightGoes(i, "set2", db)
     \/ Deliver(i, "error", Zero)
  /\ UNCHANGED <<source, l1, redis, feed, excuse>>

\* Set: L2 first (an error may or may not have stored the value) ...
SetL2(i) ==
  /\ flight[i].pc = "set2"
  /\ \/ l2' = Entry(flight[i].v, TTL, i) /\ FlightGoes(i, "publish", flight[i].v)
     \/ Unreliable /\ l2' = l2 /\ FlightGoes(i, "publish", flight[i].v)
     \/ (Unreliable \/ flight[i].age = LoaderTimeout)
        /\ l2' = l2 /\ FlightGoes(i, "set1", flight[i].v)
  /\ UNCHANGED <<source, l1, inbox, feed, excuse>>

\* Broadcasts reach the other instances that are subscribed.
Publish(i) ==
  /\ \A j \in Instances : inbox[j] < MaxInbox
  /\ inbox' = [j \in Instances |->
                 IF j # i /\ feed[j] = "live" THEN inbox[j] + 1 ELSE inbox[j]]

\* ... then the broadcast ...
SetPublishes(i) ==
  /\ flight[i].pc = "publish"
  /\ FlightGoes(i, "set1", flight[i].v)
  /\ Publish(i) \/ (Unreliable /\ UNCHANGED inbox)
  /\ UNCHANGED <<source, l1, l2, feed, excuse>>

\* ... then L1; the flight ends.
SetL1(i) ==
  /\ flight[i].pc = "set1"
  /\ l1' = [l1 EXCEPT ![i] = Entry(flight[i].v, TTL, i)]
  /\ Deliver(i, "value", flight[i].v)
  /\ UNCHANGED <<source, redis, feed, excuse>>

\* A caller's own context ends while it waits; the load goes on.  The Caching
\* behavior takes the error of a caller whose closure has run the handler for
\* the handler's, and returns what the closure has stored so far.
Cancel(c) ==
  /\ call[c].pc = "wait"
  /\ LET f == flight[At[c]]
         ran == f.leader = c /\ f.pc \in {"load", "set2", "publish", "set1"}
     IN IF ran THEN Answer(c, "value", f.v) ELSE Answer(c, "cancelled", Zero)
  /\ UNCHANGED <<source, l1, redis, feed, flight, excuse>>

Return(c) ==
  /\ call[c].pc = "done"
  /\ call' = [call EXCEPT ![c] = Idle]
  /\ UNCHANGED <<source, l1, redis, feed, flight, excuse>>

--------------------------------------------------------------------------------
(* The writer: commit, then Delete. *)

Commit ==
  /\ writer = "idle" /\ db < MaxVersion
  /\ db' = db + 1 /\ age' = [age EXCEPT ![db] = 0]
  /\ writer' = "del1"
  /\ UNCHANGED <<l1, redis, feed, call, flight, excuse>>

DeleteL1 ==
  /\ writer = "del1"
  /\ l1' = [l1 EXCEPT ![WriterAt] = None]
  /\ writer' = "del2"
  /\ UNCHANGED <<db, age, redis, feed, call, flight, excuse>>

\* An operation that has read an older version and is yet to store it.
HoldsOld(v) == v < db
SomebodyHoldsOld ==
  \/ \E c \in Callers : call[c].pc = "fill" /\ HoldsOld(call[c].v)
  \/ \E i \in Instances : flight[i].pc \in {"fill", "set2", "publish", "set1"}
                            /\ HoldsOld(flight[i].v)

DeleteL2 ==
  /\ writer = "del2"
  /\ \/ /\ l2' = None /\ writer' = "publish"
        /\ excuse' = (excuse \/ SomebodyHoldsOld)
     \/ /\ Unreliable /\ l2' = l2 /\ writer' \in {"publish", "idle"}
        /\ excuse' = TRUE
  /\ UNCHANGED <<db, age, l1, inbox, feed, call, flight>>

DeletePublishes ==
  /\ writer = "publish"
  /\ writer' = "idle"
  /\ \/ Publish(WriterAt) /\ UNCHANGED excuse
     \/ Unreliable /\ UNCHANGED inbox /\ excuse' = TRUE
  /\ UNCHANGED <<db, age, l1, l2, feed, call, flight>>

--------------------------------------------------------------------------------
(* The invalidation subscriber. *)

Receive(i) ==
  /\ inbox[i] > 0 /\ feed[i] = "live"
  /\ inbox' = [inbox EXCEPT ![i] = @ - 1]
  /\ l1' = [l1 EXCEPT ![i] = None]
  /\ UNCHANGED <<source, l2, feed, call, flight, excuse>>

\* Receive returns: what is broadcast from now on is lost.
SubscriptionEnds(i) ==
  /\ i \in Gaps /\ feed[i] = "live"
  /\ feed' = [feed EXCEPT ![i] = "down"]
  /\ inbox' = [inbox EXCEPT ![i] = 0]
  /\ UNCHANGED <<source, l1, l2, call, flight, excuse>>

\* subscribeLoop without the InvalidateAll.
ResubscribeKeepsL1(i) ==
  /\ feed[i] = "down"
  /\ feed' = [feed EXCEPT ![i] = "resubscribing"]
  /\ UNCHANGED <<source, l1, redis, call, flight, excuse>>

\* After the backoff the whole L1 goes, then receive is called again.
Resubscribe(i) ==
  /\ feed[i] = "down"
  /\ feed' = [feed EXCEPT ![i] = "resubscribing"]
  /\ l1' = [l1 EXCEPT ![i] = None]
  /\ UNCHANGED <<source, redis, call, flight, excuse>>

SubscriptionLive(i) ==
  /\ feed[i] = "resubscribing"
  /\ feed' = [feed EXCEPT ![i] = "live"]
  /\ UNCHANGED <<source, l1, redis, call, flight, excuse>>

--------------------------------------------------------------------------------
(* Time: entries expire.  A value that was read is stored, and an answer      *)
(* given, without a tick in between; a load does not outlive its timeout.     *)

Aged(e) == IF e = None \/ e.left <= 1 THEN None
           ELSE [v |-> e.v, left |-> e.left - 1, gap |-> e.gap]

Later(f) == [pc |-> f.pc, leader |-> f.leader, v |-> f.v, age |-> f.age + 1]

Tick ==
  /\ \A c \in Callers : call[c].pc \notin {"fill", "done"}
  /\ \A i \in Instances :
       /\ flight[i].pc \notin {"fill", "publish", "set1"}
       /\ flight[i].age < LoaderTimeout
  /\ l1' = [i \in Instances |-> Aged(l1[i])]
  /\ l2' = Aged(l2)
  /\ age' = [v \in Versions |-> IF v < db /\ age[v] < Cap THEN age[v] + 1 ELSE age[v]]
  /\ flight' = [i \in Instances |->
                  IF flight[i].pc \in {"load", "set2"} THEN Later(flight[i])
                                                    ELSE flight[i]]
  /\ UNCHANGED <<db, feed, inbox, call, writer, excuse>>

FlightStep(i) ==
  \/ FlightGetL1(i) \/ FlightGetL2(i) \/ FlightFills(i) \/ Load(i)
  \/ SetL2(i) \/ SetPublishes(i) \/ SetL1(i)
CallStep(c) == GetL1(c) \/ GetL2(c) \/ GetFills(c) \/ Join(c) \/ Return(c)
WriterStep == DeleteL1 \/ DeleteL2 \/ DeletePublishes
SubscriberStep(i) == Receive(i) \/ Resubscribe(i) \/ SubscriptionLive(i)

CacheNext ==
  \/ \E c \in Callers : CallStep(c) \/ Cancel(c)
  \/ \E i \in Instances : FlightStep(i) \/ SubscriberStep(i) \/ SubscriptionEnds(i)
  \/ Commit \/ WriterStep \/ Tick

CacheSpec == CacheInit /\ [][CacheNext]_cacheVars

--------------------------------------------------------------------------------
(* Properties. *)

\* Values a query or a load carries, the entries of the two tiers,
\* queries and loads.
Values == Versions \cup {Zero}
Entries == {None} \cup [v : Versions, left : 1..(TTL + DefaultTTL), gap : BOOLEAN]
Calls == [pc : {"idle", "get", "fill", "join", "wait", "done"}, v : Values,
          kind : {"none", "value", "error", "cancelled"}]
Flights == [pc : {"none", "get1", "get2", "fill", "load", "set2", "publish", "set1"},
            leader : Callers, v : Values, age : 0..LoaderTimeout]

\* Types of the variables.
CacheType ==
  /\ db \in Versions /\ age \in [Versions -> 0..Cap]
  /\ l1 \in [Instances -> Entries] /\ l2 \in Entries
  /\ feed \in [Instances -> {"live", "down", "resubscribing"}]
  /\ inbox \in [Instances -> 0..MaxInbox]
  /\ call \in [Callers -> Calls] /\ flight \in [Instances -> Flights]
  /\ writer \in {"idle", "del1", "del2", "publish"} /\ excuse \in BOOLEAN

Served(c) == call[c].pc = "done" /\ call[c].kind = "value"

\* However Redis, the broadcasts and the races behave, no query is answered
\* with a row that was superseded longer ago than a load, an entry in L2 and
\* its copy in L1 can last together.
StalenessBounded ==
  \A c \in Callers : Served(c) /\ call[c].v < db => age[call[c].v] <= Bound

\* Once Delete is over and its broadcast has been handled, no tier of an
\* instance other than the writer's holds the old row, unless Redis failed or
\* an operation that had read the old row was still under way.  A gap in the
\* subscription is no excuse for what was cached before it.
CoherentAfterDelete ==
  writer = "idle" /\ ~excuse =>
    /\ l2 # None => l2.v = db
    /\ \A i \in Instances \ {WriterAt} :
         feed[i] = "live" /\ inbox[i] = 0 /\ l1[i] # None
           => l1[i].v = db \/ l1[i].gap

\* No answer is staler than the timeouts and TTLs allow, and Delete with its
\* broadcast leaves the old row nowhere but for the documented windows (Get,
\* Set, Delete, the invalidation subscriber).
Coherent == StalenessBounded /\ CoherentAfterDelete

\* A query that is cancelled ends alone: whoever waits with it for the same
\* load is never answered with its cancellation.
CancelledAlone ==
  [][\A c, d \in Callers :
       c # d /\ call[c].kind # "cancelled" /\ call'[c].kind = "cancelled"
         => call'[d] = call[d]]_cacheVars
================================================================================
