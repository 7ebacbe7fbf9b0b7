------------------------------ MODULE LiveStatus ------------------------------
(***************************************************************************)
(* Live order status over server-sent events                                *)
(* (examples/gateway/internal/sse/sse.go): the projection's post-commit      *)
(* Notify, the replica's one broadcast subscription, the coalescing slot of  *)
(* each stream, and the Stream handler, for one order.  Orders share only    *)
(* the subscription and the stream bulkhead.                                  *)
(***************************************************************************)
EXTENDS Integers, Sequences, FiniteSets

CONSTANTS
    Clients,      \* clients that open a stream for the order
    MaxStreams,   \* GATEWAY_SSE_MAX_STREAMS
    Outcomes,     \* final statuses whose events arrive
    MaxEvents,    \* bound: events the projection handles
    MaxFaults     \* bound: drops, failed reads, writes and publishes, disconnects

ASSUME LiveAssumption ==
    /\ MaxStreams \in Nat \ {0} /\ MaxEvents \in Nat /\ MaxFaults \in Nat
    /\ Outcomes \subseteq {"paid", "payment_failed", "payment_timeout"}

VARIABLES
    mode,      \* of the deployment: whether a Redis client is configured, the
               \* reads of the streams may come from a lagging replica, and
               \* Notify and the snapshot's read may fail
    store,     \* orders_read.status on the writer
    replica,   \* the same on the reader
    notify,    \* Notify calls: the event's own status and the status read
    sub,       \* the shared subscription
    conn,      \* broadcasts delivered to the subscriber's connection
    str,       \* the Stream handler of each client
    slot,      \* the stream's mailbox: status, refresh, notify channel
    seen,      \* last event each client received
    draining,  \* the shutdown channel is closed
    faults

vars == <<mode, store, replica, notify, sub, conn, str, slot, seen, draining, faults>>

Terminal == {"paid", "payment_failed", "payment_timeout"}
Statuses == {"pending", "created"} \cup Terminal

statusOrdinal(status) ==
    CASE status = "pending" -> 0 [] status = "created" -> 1
      [] status \in Terminal -> 2 [] OTHER -> -1

Higher(a, b) == IF statusOrdinal(b) > statusOrdinal(a) THEN b ELSE a

Closed == [at |-> "off", status |-> "", last |-> -1]
NoSlot == [reg |-> FALSE, status |-> "", refresh |-> FALSE, woken |-> FALSE]
Emptied == [reg |-> TRUE, status |-> "", refresh |-> FALSE, woken |-> FALSE]
Nothing == [status |-> "", ord |-> -1]

Init ==
    /\ mode \in [redis : BOOLEAN, lag : BOOLEAN, bestEffort : BOOLEAN]
    /\ store = "none" /\ replica = "none"
    /\ notify = <<>> /\ sub = "off" /\ conn = <<>>
    /\ str = [c \in Clients |-> Closed]
    /\ slot = [c \in Clients |-> NoSlot]
    /\ seen = [c \in Clients |-> Nothing]
    /\ draining = FALSE /\ faults = 0

Fault == faults < MaxFaults /\ faults' = faults + 1

-----------------------------------------------------------------------------
(* The projection and Notify                                                *)

Precedence(status) ==
    IF store \in Terminal \/ (status = "pending" /\ store # "none") THEN store ELSE status

Catches(status) == IF mode.lag THEN replica ELSE status

\* The POST's pending row; it is not announced.
InsertPending ==
    /\ store = "none"
    /\ store' = "pending" /\ replica' = Catches("pending")
    /\ UNCHANGED <<notify, sub, conn, str, slot, seen, draining, faults>>

\* A projection write commits; its hook calls Notify, also for an event that
\* lost against a terminal status.
Project(status) ==
    /\ Len(notify) < MaxEvents
    /\ store' = Precedence(status)
    /\ replica' = Catches(store')
    /\ notify' = Append(notify, [event |-> status, read |-> ""])
    /\ UNCHANGED <<sub, conn, str, slot, seen, draining, faults>>

Replicate ==
    /\ replica # store
    /\ replica' = store
    /\ UNCHANGED <<store, notify, sub, conn, str, slot, seen, draining, faults>>

\* Notify: writerStatus
NotifyReads(k) ==
    /\ mode.redis /\ notify[k].read = ""
    /\ \/ notify' = [notify EXCEPT ![k].read = store]
          /\ UNCHANGED faults
       \/ mode.bestEffort /\ Fault /\ notify' = [notify EXCEPT ![k].read = "done"]
    /\ UNCHANGED <<store, replica, sub, conn, str, slot, seen, draining>>

Subscribed == sub \in {"acked", "live"}

\* Notify: PUBLISH.  Without a live subscription the broadcast is gone.
NotifyPublishes(k) ==
    /\ notify[k].read \notin {"", "done"}
    /\ notify' = [notify EXCEPT ![k].read = "done"]
    /\ \/ conn' = (IF Subscribed /\ notify[k].read # "none"
                   THEN Append(conn, notify[k].read) ELSE conn)
          /\ UNCHANGED faults
       \/ mode.bestEffort /\ Fault /\ UNCHANGED conn
    /\ UNCHANGED <<store, replica, sub, str, slot, seen, draining>>

-----------------------------------------------------------------------------
(* The shared subscriber                                                    *)

Subscribe ==
    /\ sub = "down" /\ ~draining
    /\ sub' = "acked"
    /\ UNCHANGED <<store, replica, notify, conn, str, slot, seen, draining, faults>>

markRefresh(sl) == [sl EXCEPT !.refresh = TRUE, !.woken = TRUE]

Refreshed == [c \in Clients |-> IF slot[c].reg THEN markRefresh(slot[c]) ELSE slot[c]]

BroadcastRefreshNobody ==
    /\ sub = "acked" /\ sub' = "live"
    /\ UNCHANGED <<store, replica, notify, conn, str, slot, seen, draining, faults>>

\* markLive, then every registered stream is asked to re-read the store.
BroadcastRefresh ==
    /\ sub = "acked" /\ sub' = "live"
    /\ slot' = Refreshed
    /\ UNCHANGED <<store, replica, notify, conn, str, seen, draining, faults>>

\* The connection is lost with what was on it; the loop resubscribes.
Drop ==
    /\ Subscribed /\ Fault
    /\ sub' = "down" /\ conn' = <<>>
    /\ UNCHANGED <<store, replica, notify, str, slot, seen, draining>>

deliver(sl, status) == [sl EXCEPT !.status = Higher(@, status), !.woken = TRUE]

dispatch ==
    /\ Subscribed /\ conn # <<>>
    /\ conn' = Tail(conn)
    /\ slot' = [c \in Clients |-> IF slot[c].reg THEN deliver(slot[c], Head(conn)) ELSE slot[c]]
    /\ UNCHANGED <<store, replica, notify, sub, str, seen, draining, faults>>

-----------------------------------------------------------------------------
(* The Stream handler                                                       *)

Active == {c \in Clients : str[c].at \notin {"off", "notfound"}}
currentStatus == replica

\* TryAcquirePermit fails.
Saturated == Cardinality(Active) >= MaxStreams

\* Opens, or reopens with Last-Event-ID; an order the read does not find is
\* answered 404.
Open(c) ==
    /\ c \notin Active /\ ~draining /\ ~Saturated
    /\ str' = [str EXCEPT ![c] =
         IF currentStatus = "none"
         THEN [at |-> "notfound", status |-> "", last |-> -1]
         ELSE [at |-> IF mode.redis THEN "register" ELSE "snapshot",
               status |-> currentStatus, last |-> seen[c].ord]]
    /\ UNCHANGED <<store, replica, notify, sub, conn, slot, seen, draining, faults>>

\* ensureSubscriber, register; the wait for the subscription is bounded.
Register(c) ==
    /\ str[c].at = "register"
    /\ sub' = IF sub = "off" /\ ~draining THEN "down" ELSE sub
    /\ slot' = [slot EXCEPT ![c].reg = TRUE]
    /\ str' = [str EXCEPT ![c].at = "snapshot"]
    /\ UNCHANGED <<store, replica, notify, conn, seen, draining, faults>>

\* The status is read again; a failed read keeps the first one and is made up
\* for by the safety poll.
Snapshot(c) ==
    /\ str[c].at = "snapshot"
    /\ \/ str' = [str EXCEPT ![c].at = "send", ![c].status = currentStatus]
          /\ UNCHANGED faults
       \/ mode.bestEffort /\ Fault /\ str' = [str EXCEPT ![c].at = "send"]
    /\ UNCHANGED <<store, replica, notify, sub, conn, slot, seen, draining>>

SendAny(c) ==
    /\ str[c].at = "send"
    /\ str' = [str EXCEPT ![c].at = "loop", ![c].status = "",
                          ![c].last = statusOrdinal(str[c].status)]
    /\ seen' = [seen EXCEPT ![c] = [status |-> str[c].status,
                                    ord |-> statusOrdinal(str[c].status)]]
    /\ UNCHANGED <<store, replica, notify, sub, conn, slot, draining, faults>>

\* send: nothing the client already has.
Send(c) ==
    LET ord == statusOrdinal(str[c].status) IN
    /\ str[c].at = "send"
    /\ IF ord <= str[c].last
       THEN str' = [str EXCEPT ![c].at = "loop", ![c].status = ""] /\ UNCHANGED seen
       ELSE /\ str' = [str EXCEPT ![c] = [at |-> "loop", status |-> "", last |-> ord]]
            /\ seen' = [seen EXCEPT ![c] = [status |-> str[c].status, ord |-> ord]]
    /\ UNCHANGED <<store, replica, notify, sub, conn, slot, draining, faults>>

\* <-slotNotify and take
Take(c) ==
    /\ str[c].at = "loop" /\ slot[c].woken
    /\ slot' = [slot EXCEPT ![c] = Emptied]
    /\ str' = [str EXCEPT ![c].at = IF slot[c].refresh THEN "read"
                                    ELSE IF slot[c].status # "" THEN "send" ELSE "loop",
                          ![c].status = slot[c].status]
    /\ UNCHANGED <<store, replica, notify, sub, conn, seen, draining, faults>>

\* A refresh reads the store; a failed read re-arms the flag.
Reread(c) ==
    /\ str[c].at = "read"
    /\ \/ /\ str' = [str EXCEPT ![c].at = "send", ![c].status = Higher(@, currentStatus)]
          /\ UNCHANGED <<slot, faults>>
       \/ /\ Fault
          /\ slot' = [slot EXCEPT ![c] = markRefresh(slot[c])]
          /\ str' = [str EXCEPT ![c].at = IF str[c].status # "" THEN "send" ELSE "loop"]
    /\ UNCHANGED <<store, replica, notify, sub, conn, seen, draining>>

PollWithoutRedis(c) ==
    /\ ~mode.redis /\ str[c].at = "loop"
    /\ str' = [str EXCEPT ![c].at = "send", ![c].status = currentStatus]
    /\ UNCHANGED <<store, replica, notify, sub, conn, slot, seen, draining, faults>>

\* The poll tick; a failed read waits for the next one.
Poll(c) ==
    /\ str[c].at = "loop"
    /\ str' = [str EXCEPT ![c].at = "send", ![c].status = currentStatus]
    /\ UNCHANGED <<store, replica, notify, sub, conn, slot, seen, draining, faults>>

\* The client disconnects, a write fails (after lastSent was set), or the
\* server drains.
Close(c) ==
    /\ c \in Active
    /\ (draining /\ str[c].at \in {"register", "loop"} /\ UNCHANGED faults) \/ Fault
    /\ str' = [str EXCEPT ![c] = Closed]
    /\ slot' = [slot EXCEPT ![c] = NoSlot]
    /\ UNCHANGED <<store, replica, notify, sub, conn, seen, draining>>

\* Streamer.Shutdown
Shutdown ==
    /\ ~draining
    /\ draining' = TRUE
    /\ sub' = "off" /\ conn' = <<>>
    /\ UNCHANGED <<store, replica, notify, str, slot, seen, faults>>

Step(c) == Register(c) \/ Snapshot(c) \/ Send(c) \/ Take(c) \/ Reread(c)

NotifyStep(k) == NotifyReads(k) \/ NotifyPublishes(k)

Next ==
    /\ UNCHANGED mode
    /\ \/ InsertPending \/ Replicate
       \/ \E status \in {"created"} \cup Outcomes : Project(status)
       \/ \E k \in DOMAIN notify : NotifyStep(k)
       \/ Subscribe \/ BroadcastRefresh \/ Drop \/ dispatch
       \/ \E c \in Clients : Open(c) \/ Step(c) \/ Poll(c) \/ Close(c)
       \/ Shutdown

Spec == Init /\ [][Next]_vars

-----------------------------------------------------------------------------
\* Type invariant; no more streams than the bulkhead admits.
TypeOK ==
    /\ store \in {"none"} \cup Statuses /\ replica \in {"none"} \cup Statuses
    /\ sub \in {"off", "down", "acked", "live"}
    /\ \A c \in Clients :
         /\ str[c].at \in {"off", "notfound", "register", "snapshot", "send", "loop", "read"}
         /\ str[c].last \in -1..2 /\ seen[c].ord \in -1..2
    /\ Cardinality(Active) <= MaxStreams
    /\ faults \in Nat

Announcing == \E k \in DOMAIN notify : notify[k].read # "done"

\* "no window in which a terminal status can be missed" (Stream), when Notify
\* and the snapshot succeed and reads are current: an idle stream whose client
\* lacks the final status has something under way that brings it, without the
\* safety poll: a Notify, a broadcast, or the refresh that follows a
\* subscription.
NoWindow ==
    ~mode.lag /\ ~mode.bestEffort => \A c \in Clients :
        (store \in Terminal /\ str[c].at = "loop" /\ ~slot[c].woken /\ str[c].last < 2)
        => Announcing \/ conn # <<>> \/ sub # "live"

\* A client is never shown a final status other than the order's own, also
\* when a losing outcome event arrives later.
FinalIsTrue ==
    \A c \in Clients : seen[c].status \in Terminal => seen[c].status = store

\* What a client receives only moves forward, over coalescing, stale reads and
\* reconnects with Last-Event-ID.
NoRegression ==
    [][\A c \in Clients : seen'[c] # seen[c] => seen'[c].ord > seen[c].ord]_vars

\* What a client receives only moves forward, and a final status it is shown
\* is the order's own (Stream, send).
StreamTruthful == NoRegression /\ []FinalIsTrue
================================================================================
