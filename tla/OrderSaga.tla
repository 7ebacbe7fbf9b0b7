------------------------------- MODULE OrderSaga -------------------------------
(***************************************************************************)
(* The order choreography of the example services: POST /v1/orders on the   *)
(* gateway, the orders and payments domain services, the unpaid-order        *)
(* watcher, the gateway's read-model projection, dead-letter topics and the  *)
(* redrive command.  A consumer step is the whole inbox transaction of one   *)
(* record (ConsumerGroup models how it gets there) and events enqueued in it *)
(* are on their topic when it commits (OutboxRelay models the way).           *)
(***************************************************************************)
EXTENDS Integers, Sequences, FiniteSets, Functions

CONSTANTS
    Orders,            \* order ids (each derived from one Idempotency-Key)
    Requests,          \* POST requests
    Post,              \* request -> [order, amount]: its key and its body
    DeclineThreshold,  \* DeclineThresholdMinor
    Watchers,          \* instances running the unpaid watcher
    BatchLimit,        \* unpaidBatchLimit
    MaxAttempts,       \* attempts of the command produce (resilience.Retry)
    MaxDead            \* bound: dead-lettered and duplicated records

ASSUME SagaAssumption ==
    /\ \A r \in Requests : Post[r].order \in Orders /\ Post[r].amount \in Nat \ {0}
    /\ BatchLimit \in Nat \ {0} /\ MaxAttempts \in Nat \ {0} /\ MaxDead \in Nat

VARIABLES
    req,       \* progress of each request
    topic,     \* records of each topic and order key, in order
    pos,       \* committed position of each subscription
    inbox,     \* message ids each subscription has processed
    orders,    \* the orders table: status, amount; "none" is no row
    emitted,   \* orders with payment_timeout_emitted
    payments,  \* the payments table: rows of each order
    view,      \* orders_read: status, amount (0 in a placeholder row)
    expired,   \* orders older than the payment deadline (database clock)
    cand,      \* unpaid orders a watcher has listed and not yet claimed
    warned,    \* outcomes ignored with the compensation warning
    dlt,       \* dead-lettered records
    dead       \* dead-lettered and duplicated records so far

vars == <<req, topic, pos, inbox, orders, emitted, payments, view, expired,
          cand, warned, dlt, dead>>

Topics == {"orders.commands", "orders.events", "payments.events"}

\* <<consumer group, topic>>
Subscriptions == {<<"orders", "orders.commands">>, <<"payments", "orders.events">>,
                  <<"orders-payments", "payments.events">>,
                  <<"gateway", "orders.events">>, <<"gateway", "payments.events">>}

Terminal == {"paid", "payment_failed", "payment_timeout"}
NoRow == [status |-> "none", amount |-> 0]

Init ==
    /\ req = [r \in Requests |-> [at |-> "check", tries |-> 0]]
    /\ topic = [t \in Topics |-> [o \in Orders |-> <<>>]]
    /\ pos = [s \in Subscriptions |-> [o \in Orders |-> 0]]
    /\ inbox = [s \in Subscriptions |-> [o \in Orders |-> {}]]
    /\ orders = [o \in Orders |-> NoRow]
    /\ view = [o \in Orders |-> NoRow]
    /\ payments = [o \in Orders |-> <<>>]
    /\ cand = [w \in Watchers |-> {}]
    /\ emitted = {} /\ expired = {} /\ warned = {} /\ dlt = {}
    /\ dead = 0

Bounded == dead < MaxDead /\ dead' = dead + 1

-----------------------------------------------------------------------------
(* The gateway's POST /v1/orders                                            *)

At(r, place) == req[r].at = place
Goto(r, place) == req' = [req EXCEPT ![r] = [at |-> place, tries |-> 0]]

\* rejectIdempotentBodyMismatch.  The reader may lag and a failed read is let
\* through, so proceeding is always possible.
Check(r) ==
    LET row == view[Post[r].order] IN
    /\ At(r, "check")
    /\ \/ Goto(r, "produce")
       \/ row.amount \notin {0, Post[r].amount} /\ Goto(r, "rejected")
    /\ UNCHANGED <<topic, pos, inbox, orders, emitted, payments, view, expired,
                   cand, warned, dlt, dead>>

\* The command's message-id is the order id.
Command(r) == [id |-> 0, type |-> "CreateOrderCommand", amount |-> Post[r].amount]

\* One produce attempt: a timeout may hide a record the broker accepted.
Produce(r) ==
    /\ At(r, "produce")
    /\ \E written, acked \in BOOLEAN :
         /\ acked => written
         /\ topic' = IF written
              THEN [topic EXCEPT !["orders.commands"][Post[r].order] = Append(@, Command(r))]
              ELSE topic
         /\ IF acked THEN Goto(r, "insert")
            ELSE IF req[r].tries + 1 < MaxAttempts
                 THEN req' = [req EXCEPT ![r].tries = @ + 1]
                 ELSE Goto(r, "failed")
    /\ UNCHANGED <<pos, inbox, orders, emitted, payments, view, expired, cand,
                   warned, dlt, dead>>

\* on conflict (order_id) do nothing; a failed insert is only logged.
InsertPendingOrder(r) ==
    /\ At(r, "insert")
    /\ LET o == Post[r].order IN
       \/ view[o] = NoRow
          /\ view' = [view EXCEPT ![o] = [status |-> "pending", amount |-> Post[r].amount]]
       \/ UNCHANGED view
    /\ Goto(r, "done")
    /\ UNCHANGED <<topic, pos, inbox, orders, emitted, payments, expired, cand,
                   warned, dlt, dead>>

-----------------------------------------------------------------------------
(* Domain services; each is the body of one inbox transaction               *)

\* outbox.Message.ID is a fresh UUID.
FreshId(t, o) == Cardinality({topic[t][o][k].id : k \in DOMAIN topic[t][o]}) + 1

Enqueue(t, o, type, amount) ==
    topic' = [topic EXCEPT ![t][o] =
                Append(@, [id |-> FreshId(t, o), type |-> type, amount |-> amount])]

\* order.Service.Create.  The primary key refuses a second row.
Create(o, rec) ==
    /\ orders[o].status = "none"
    /\ orders' = [orders EXCEPT ![o] = [status |-> "created", amount |-> rec.amount]]
    /\ Enqueue("orders.events", o, "OrderCreated", rec.amount)
    /\ UNCHANGED <<emitted, payments, view, warned>>

isDeclined(amount) == amount >= DeclineThreshold

\* payment.Service.Process
Process(o, rec) ==
    LET status == IF isDeclined(rec.amount) THEN "failed" ELSE "processed" IN
    /\ payments' = [payments EXCEPT ![o] =
                        Append(@, [status |-> status, amount |-> rec.amount])]
    /\ Enqueue("payments.events", o,
               IF isDeclined(rec.amount) THEN "PaymentFailed" ELSE "PaymentProcessed", 0)
    /\ UNCHANGED <<orders, emitted, view, warned>>

Outcome(rec) ==
    CASE rec.type = "PaymentProcessed" -> "paid"
      [] rec.type = "PaymentFailed" -> "payment_failed"
      [] rec.type = "OrderPaymentTimedOut" -> "payment_timeout"

\* order.Service.ApplyPaymentOutcome: first outcome wins, a later one warns.
ApplyPaymentOutcome(o, rec) ==
    /\ IF orders[o].status = "created"
       THEN orders' = [orders EXCEPT ![o].status = Outcome(rec)] /\ UNCHANGED warned
       ELSE warned' = warned \cup {<<o, Outcome(rec)>>} /\ UNCHANGED orders
    /\ UNCHANGED <<topic, emitted, payments, view>>

UpsertOrderCreatedKeepsRow(o, rec) ==
    /\ view' = IF view[o] = NoRow
               THEN [view EXCEPT ![o] = [status |-> "created", amount |-> rec.amount]]
               ELSE [view EXCEPT ![o].status = IF @ \in Terminal THEN @ ELSE "created"]
    /\ UNCHANGED <<topic, orders, emitted, payments, warned>>

\* Projection of OrderCreated: fills the details, keeps a terminal status.
UpsertOrderCreated(o, rec) ==
    /\ view' = [view EXCEPT ![o] =
                  [status |-> IF @.status \in Terminal THEN @.status ELSE "created",
                   amount |-> rec.amount]]
    /\ UNCHANGED <<topic, orders, emitted, payments, warned>>

MarkTerminalNeedsRow(o, rec) ==
    /\ view[o].status # "none"
    /\ view' = IF view[o].status \in Terminal THEN view
               ELSE [view EXCEPT ![o].status = Outcome(rec)]
    /\ UNCHANGED <<topic, orders, emitted, payments, warned>>

\* MarkPaid, MarkPaymentFailed, MarkPaymentTimeout: insert a placeholder row or
\* update one that is not terminal.
MarkTerminal(o, rec) ==
    /\ view' = IF view[o].status \in Terminal THEN view
               ELSE [view EXCEPT ![o].status = Outcome(rec)]
    /\ UNCHANGED <<topic, orders, emitted, payments, warned>>

-----------------------------------------------------------------------------
(* Consumers                                                                *)

Next1(s, o) == topic[s[2]][o][pos[s][o] + 1]
HasNext(s, o) == pos[s][o] < Len(topic[s[2]][o])

\* Unknown event types are skipped.
Handler(s, o, rec) ==
    CASE s[1] = "orders" -> Create(o, rec)
      [] s[1] = "payments" /\ rec.type = "OrderCreated" -> Process(o, rec)
      [] s[1] = "orders-payments" -> ApplyPaymentOutcome(o, rec)
      [] s[1] = "gateway" /\ rec.type = "OrderCreated" -> UpsertOrderCreated(o, rec)
      [] s[1] = "gateway" /\ rec.type # "OrderCreated" -> MarkTerminal(o, rec)
      [] OTHER -> UNCHANGED <<topic, orders, emitted, payments, view, warned>>

ConsumeNoInbox(s, o) ==
    /\ HasNext(s, o)
    /\ inbox' = [inbox EXCEPT ![s][o] = @ \cup {Next1(s, o).id}]
    /\ Handler(s, o, Next1(s, o))
    /\ pos' = [pos EXCEPT ![s][o] = @ + 1]
    /\ UNCHANGED <<req, expired, cand, dlt, dead>>

\* ProcessOnce on the next record; it is delivered again when the offset is
\* not committed.
Consume(s, o) ==
    /\ HasNext(s, o)
    /\ LET rec == Next1(s, o) IN
       IF rec.id \in inbox[s][o]
       THEN UNCHANGED <<inbox, topic, orders, emitted, payments, view, warned>>
       ELSE /\ inbox' = [inbox EXCEPT ![s][o] = @ \cup {rec.id}]
            /\ Handler(s, o, rec)
    /\ pos' = [pos EXCEPT ![s][o] = @ + 1] \/ UNCHANGED pos
    /\ UNCHANGED <<req, expired, cand, dlt, dead>>

\* The attempts on a record fail: it goes to the topic's dead-letter topic.
DeadLetter(s, o) ==
    /\ HasNext(s, o) /\ Bounded
    /\ dlt' = dlt \cup {<<s[2], o, Next1(s, o)>>}
    /\ pos' = [pos EXCEPT ![s][o] = @ + 1]
    /\ UNCHANGED <<req, topic, inbox, orders, emitted, payments, view, expired,
                   cand, warned>>

\* redriveRecord: back to the original topic with its message-id, then commit;
\* an interrupted run publishes the record and reads it again.
Redrive(d) ==
    /\ topic' = [topic EXCEPT ![d[1]][d[2]] = Append(@, d[3])]
    /\ \/ dlt' = dlt \ {d} /\ UNCHANGED dead
       \/ Bounded /\ UNCHANGED dlt
    /\ UNCHANGED <<req, pos, inbox, orders, emitted, payments, view, expired,
                   cand, warned>>

-----------------------------------------------------------------------------
(* The unpaid-order watcher                                                 *)

Expire(o) ==
    /\ orders[o].status # "none" /\ o \notin expired
    /\ expired' = expired \cup {o}
    /\ UNCHANGED <<req, topic, pos, inbox, orders, emitted, payments, view,
                   cand, warned, dlt, dead>>

Unpaid == {o \in expired \ emitted : orders[o].status = "created"}

\* ListUnpaidExpired in its own transaction
ListUnpaidExpired(w) ==
    /\ cand[w] = {} /\ Unpaid # {}
    /\ \E batch \in SUBSET Unpaid :
         /\ Cardinality(batch) = IF Cardinality(Unpaid) < BatchLimit
                                 THEN Cardinality(Unpaid) ELSE BatchLimit
         /\ cand' = [cand EXCEPT ![w] = batch]
    /\ UNCHANGED <<req, topic, pos, inbox, orders, emitted, payments, view,
                   expired, warned, dlt, dead>>

MarkTimeoutUnclaimed(o) == orders[o].status \in {"created", "payment_timeout"}

\* The guard of the compare-and-set in MarkPaymentTimeoutEmitted
MarkTimeoutEmitted(o) == o \notin emitted /\ orders[o].status = "created"

\* EmitPaymentTimeout on a listed order, claim and event in one transaction
EmitPaymentTimeout(w, o) ==
    /\ o \in cand[w]
    /\ cand' = [cand EXCEPT ![w] = @ \ {o}]
    /\ IF MarkTimeoutEmitted(o)
       THEN /\ emitted' = emitted \cup {o}
            /\ orders' = [orders EXCEPT ![o].status = "payment_timeout"]
            /\ Enqueue("orders.events", o, "OrderPaymentTimedOut", 0)
       ELSE UNCHANGED <<emitted, orders, topic>>
    /\ UNCHANGED <<req, pos, inbox, payments, view, expired, warned, dlt, dead>>

\* Poll fails, or its process dies: the rest waits for the next tick.
PollFails(w) ==
    /\ cand[w] # {} /\ Bounded
    /\ cand' = [cand EXCEPT ![w] = {}]
    /\ UNCHANGED <<req, topic, pos, inbox, orders, emitted, payments, view,
                   expired, warned, dlt>>

Server(r) == Check(r) \/ Produce(r) \/ InsertPendingOrder(r)

Watch(w) == ListUnpaidExpired(w) \/ \E o \in Orders : EmitPaymentTimeout(w, o)

Next ==
    \/ \E r \in Requests : Server(r)
    \/ \E s \in Subscriptions, o \in Orders : Consume(s, o) \/ DeadLetter(s, o)
    \/ \E d \in dlt : Redrive(d)
    \/ \E o \in Orders : Expire(o)
    \/ \E w \in Watchers : Watch(w) \/ PollFails(w)

Spec == Init /\ [][Next]_vars

-----------------------------------------------------------------------------
\* Type invariant
TypeOK ==
    /\ \A r \in Requests : req[r].at \in {"check", "produce", "insert", "done",
                                          "rejected", "failed"}
    /\ \A s \in Subscriptions, o \in Orders : pos[s][o] \in 0..Len(topic[s[2]][o])
    /\ \A o \in Orders :
         /\ orders[o].status \in {"none", "created"} \cup Terminal
         /\ view[o].status \in {"none", "pending", "created"} \cup Terminal
    /\ \A w \in Watchers : cand[w] \subseteq expired
    /\ dead \in 0..MaxDead

\* An order is charged at most once, and for the amount of its row, however
\* often its command or its OrderCreated event is sent, redelivered or
\* redriven: payments.order_id has no unique constraint, the inbox decides.
\* No charge goes unnoticed: once orders has processed the outcome of a
\* payment, the order has that outcome or the compensation warning was given.
ChargesAccounted ==
    \A o \in Orders :
        /\ Len(payments[o]) <= 1
        /\ payments[o] # <<>> => payments[o][1].amount = orders[o].amount
        /\ \A k \in DOMAIN topic["payments.events"][o] :
             LET rec == topic["payments.events"][o][k] IN
             rec.id \in inbox[<<"orders-payments", "payments.events">>][o] =>
                 orders[o].status = Outcome(rec) \/ <<o, Outcome(rec)>> \in warned

TimeoutIds(o) == {topic["orders.events"][o][k].id :
    k \in {k \in DOMAIN topic["orders.events"][o] :
             topic["orders.events"][o][k].type = "OrderPaymentTimedOut"}}

\* A timeout event is emitted exactly once, and exactly for the orders whose
\* row says payment_timeout: never for an order that was paid or declined
\* while watchers on other instances held it in their batch.
TimeoutExactlyOnce ==
    \A o \in Orders :
        Cardinality(TimeoutIds(o)) = IF orders[o].status = "payment_timeout" THEN 1 ELSE 0

Rank(status) == CASE status = "none" -> 0 [] status = "pending" -> 1
                  [] status = "created" -> 2 [] OTHER -> 3

\* First outcome wins in both stores: a terminal status is final, and the read
\* model never moves backwards, whatever arrives late or again.
FirstOutcomeWins ==
    [][\A o \in Orders :
        /\ orders[o].status \in Terminal => orders'[o].status = orders[o].status
        /\ view[o].status \in Terminal => view'[o].status = view[o].status
        /\ Rank(view'[o].status) >= Rank(view[o].status)]_vars

Drained(o) ==
    /\ \A r \in Requests : Post[r].order = o => req[r].at \in {"done", "rejected", "failed"}
    /\ \A s \in Subscriptions : pos[s][o] = Len(topic[s[2]][o])
    /\ ~ \E d \in dlt : d[2] = o

\* The read model never invents anything. Once the projection has seen
\* OrderCreated it shows the amount of the order that exists, also when a
\* conflicting POST under the same key slipped past the mismatch check and
\* inserted its own pending row; and where the settled stores disagree, the
\* order timed out while a payment was under way and the read model shows that
\* payment's outcome.
ViewIsTrue ==
    \A o \in Orders :
      /\ (\E k \in DOMAIN topic["orders.events"][o] :
            /\ topic["orders.events"][o][k].type = "OrderCreated"
            /\ topic["orders.events"][o][k].id \in inbox[<<"gateway", "orders.events">>][o])
        => view[o].amount = orders[o].amount
      /\ (Drained(o) /\ view[o].status # orders[o].status) =>
            /\ orders[o].status = "payment_timeout"
            /\ <<o, view[o].status>> \in warned

\* Every order whose command reached the topic gets a final status in both
\* stores, also when a record was dead-lettered and redriven after later ones,
\* and keeps it: the first outcome wins.
EventuallySettled ==
    /\ FirstOutcomeWins
    /\ \A o \in Orders :
         (topic["orders.commands"][o] # <<>>) ~>
             (orders[o].status \in Terminal /\ view[o].status \in Terminal)
================================================================================
