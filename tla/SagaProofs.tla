------------------------------ MODULE SagaProofs ------------------------------
(***************************************************************************)
(* The order choreography for any number of orders, requests, watchers and *)
(* dead letters: an order is charged at most once and every charge is      *)
(* accounted for, a timeout event is emitted exactly for the orders that   *)
(* timed out, and the read model never invents anything.                   *)
(***************************************************************************)
EXTENDS OrderSaga, TLAPS

\* The default prover; the leaves that need arithmetic or sequences name SMT.
USE Zenon

OC == "orders.commands"
OE == "orders.events"
PE == "payments.events"
Creating == <<"orders", OC>>
Paying == <<"payments", OE>>
Settling == <<"orders-payments", PE>>
Viewing == <<"gateway", OE>>
ViewingPayments == <<"gateway", PE>>

Statuses == {"none", "pending", "created"} \cup Terminal
Types == {"CreateOrderCommand", "OrderCreated", "OrderPaymentTimedOut",
          "PaymentProcessed", "PaymentFailed"}
Records == [id : Nat, type : Types, amount : Nat]
Progress == [at : {"check", "produce", "insert", "done", "rejected", "failed"}, tries : Nat]
Rows == [status : Statuses, amount : Nat]

SagaType ==
    /\ req \in [Requests -> Progress]
    /\ topic \in [Topics -> [Orders -> Seq(Records)]]
    /\ pos \in [Subscriptions -> [Orders -> Nat]]
    /\ inbox \in [Subscriptions -> [Orders -> SUBSET Nat]]
    /\ orders \in [Orders -> Rows]
    /\ view \in [Orders -> Rows]
    /\ payments \in [Orders -> Seq([status : {"processed", "failed"}, amount : Nat])]

-----------------------------------------------------------------------------
(* The inductive invariant, order by order.                                *)

\* The events that belong to an order's row, and the one of its payment.
Created(row) == [id |-> 1, type |-> "OrderCreated", amount |-> row.amount]
TimedOut == [id |-> 2, type |-> "OrderPaymentTimedOut", amount |-> 0]
Paid(row) == [id |-> 1, amount |-> 0,
              type |-> IF isDeclined(row.amount) THEN "PaymentFailed" ELSE "PaymentProcessed"]

OrderEvents(row) ==
    (IF row.status = "none" THEN {} ELSE {Created(row)})
        \cup (IF row.status = "payment_timeout" THEN {TimedOut} ELSE {})

Result(row) == IF isDeclined(row.amount) THEN "payment_failed" ELSE "paid"

\* The topics carry what the tables say and nothing else, under any redrive.
StoreInv(o) ==
    /\ Range(topic[OE][o]) = OrderEvents(orders[o])
    /\ Range(topic[PE][o]) = IF payments[o] = <<>> THEN {} ELSE {Paid(orders[o])}
    /\ \A rec \in Range(topic[OC][o]) : rec.id = 0
    /\ Len(payments[o]) <= 1
    /\ payments[o] # <<>> =>
         orders[o].status # "none" /\ payments[o][1].amount = orders[o].amount
    /\ orders[o].status # "pending"
    /\ orders[o].status \in {"paid", "payment_failed"} =>
         payments[o] # <<>> /\ orders[o].status = Result(orders[o])

\* What having processed a message means.
InboxInv(o) ==
    /\ \A s \in Subscriptions :
         inbox[s][o] \subseteq {rec.id : rec \in Range(topic[s[2]][o])}
    /\ 0 \in inbox[Creating][o] => orders[o].status # "none"
    /\ 1 \in inbox[Paying][o] <=> payments[o] # <<>>
    /\ 1 \in inbox[Settling][o] =>
         /\ orders[o].status \in Terminal
         /\ orders[o].status = Result(orders[o]) \/ <<o, Result(orders[o])>> \in warned

\* The read model follows the events it has seen.
ViewInv(o) ==
    /\ 1 \in inbox[Viewing][o] => /\ view[o].status \in {"created"} \cup Terminal
                                  /\ view[o].amount = orders[o].amount
    /\ 1 \in inbox[ViewingPayments][o] => view[o].status \in Terminal
    /\ view[o].status = "payment_timeout" => orders[o].status = "payment_timeout"
    /\ view[o].status \in {"paid", "payment_failed"} =>
         payments[o] # <<>> /\ view[o].status = Result(orders[o])
    /\ view[o].status # "none" \/ orders[o].status # "none" => topic[OC][o] # <<>>

\* A record behind position n was processed, is dead-lettered, or was redriven
\* and is ahead again.
Behind(q, n, seen, D, t, o) ==
    /\ n <= Len(q)
    /\ \A k \in 1..n : \/ q[k].id \in seen
                       \/ <<t, o, q[k]>> \in D
                       \/ \E j \in n + 1..Len(q) : q[j] = q[k]

Delivered(s, o) == Behind(topic[s[2]][o], pos[s][o], inbox[s][o], dlt, s[2], o)

\* A dead letter is a record of its topic.
DeadInv == \A d \in dlt : \E t \in Topics, o \in Orders :
               \E rec \in Range(topic[t][o]) : d = <<t, o, rec>>

\* A request inserts its pending row after its command was acknowledged.
ReqInv == \A r \in Requests : req[r].at \in {"insert", "done"} => topic[OC][Post[r].order] # <<>>

OrderInv(o) == StoreInv(o) /\ InboxInv(o) /\ ViewInv(o) /\ \A s \in Subscriptions : Delivered(s, o)

SagaInv == SagaType /\ DeadInv /\ ReqInv /\ \A o \in Orders : OrderInv(o)

-----------------------------------------------------------------------------
(* Counting nothing, and one thing: Cardinality from its definition.       *)

Counts(S, f) == f = [T \in SUBSET S |-> IF T = {} THEN 0 ELSE 1 + f[T \ {CHOOSE x : x \in T}]]

LEMMA CardinalityIs ==
    ASSUME NEW S
    PROVE  Cardinality(S) = (CHOOSE f : Counts(S, f))[S]
  BY DEF Cardinality, Counts

LEMMA EmptyCount == Cardinality({}) = 0
<1> DEFINE g == [T \in SUBSET {} |-> 0]
<1>1. Counts({}, g)
  <2>1. \A T \in SUBSET {} : T = {}
    OBVIOUS
  <2> QED  BY <2>1 DEF Counts
<1>2. PICK f : f = (CHOOSE h : Counts({}, h)) /\ Counts({}, f)
  BY <1>1
<1>3. f[{}] = 0
  BY <1>2 DEF Counts
<1> QED  BY <1>2, <1>3, CardinalityIs

LEMMA SingleCount ==
    ASSUME NEW a
    PROVE  Cardinality({a}) = 1
<1> DEFINE g == [T \in SUBSET {a} |-> IF T = {} THEN 0 ELSE 1]
<1>1. \A T \in SUBSET {a} : T # {} => T = {a} /\ (CHOOSE x : x \in T) = a /\ T \ {CHOOSE x : x \in T} = {}
  OBVIOUS
<1>2. Counts({a}, g)
  BY SMT, <1>1 DEF Counts
<1>3. PICK f : f = (CHOOSE h : Counts({a}, h)) /\ Counts({a}, f)
  BY <1>2
<1>4. f[{}] = 0
  BY <1>3 DEF Counts
<1>5. f[{a}] = 1 + f[{}]
  <2>1. {a} # {} /\ {a} \in SUBSET {a} /\ {a} \ {CHOOSE x : x \in {a}} = {}
    OBVIOUS
  <2> QED  BY <1>3, <2>1 DEF Counts
<1>6. f[{a}] = 1
  BY SMT, <1>4, <1>5
<1> QED  BY <1>3, <1>6, CardinalityIs

-----------------------------------------------------------------------------
(* Topics, subscriptions and what is behind a position.                    *)

LEMMA TopicOf == \A s \in Subscriptions : s[2] \in Topics
  BY SMT DEF Subscriptions, Topics

LEMMA TopicNames ==
    OC \in Topics /\ OE \in Topics /\ PE \in Topics /\ OC # OE /\ OC # PE /\ OE # PE
  BY DEF Topics, OC, OE, PE

LEMMA Subscribed ==
    /\ Creating \in Subscriptions /\ Creating[2] = OC
    /\ Paying \in Subscriptions /\ Paying[2] = OE
    /\ Settling \in Subscriptions /\ Settling[2] = PE
    /\ Viewing \in Subscriptions /\ Viewing[2] = OE
    /\ ViewingPayments \in Subscriptions /\ ViewingPayments[2] = PE
    /\ \A s \in Subscriptions : s \in {Creating, Paying, Settling, Viewing, ViewingPayments}
  BY DEF Subscriptions, Creating, Paying, Settling, Viewing, ViewingPayments, OC, OE, PE

LEMMA RangeAppend ==
    ASSUME NEW S, NEW q \in Seq(S), NEW e
    PROVE  Range(Append(q, e)) = Range(q) \cup {e}
<1>1. DOMAIN q = 1..Len(q) /\ DOMAIN Append(q, e) = 1..Len(q) + 1 /\ Len(q) \in Nat
  BY SMT
<1>2. \A k \in 1..Len(q) : Append(q, e)[k] = q[k]
  BY SMT
<1>3. Append(q, e)[Len(q) + 1] = e
  BY SMT
<1>4. \A k \in 1..Len(q) + 1 : k \in 1..Len(q) \/ k = Len(q) + 1
  BY SMT, <1>1
<1>5. ASSUME NEW x \in Range(Append(q, e)) PROVE x \in Range(q) \cup {e}
  BY <1>1, <1>2, <1>3, <1>4, <1>5 DEF Range
<1>6. ASSUME NEW x \in Range(q) PROVE x \in Range(Append(q, e))
  <2>1. PICK k \in 1..Len(q) : x = q[k]
    BY <1>1, <1>6 DEF Range
  <2> QED  BY SMT, <1>1, <1>2, <2>1 DEF Range
<1>7. e \in Range(Append(q, e))
  <2>1. Len(q) + 1 \in DOMAIN Append(q, e)
    BY SMT, <1>1
  <2> QED  BY <1>3, <2>1 DEF Range
<1> QED  BY <1>5, <1>6, <1>7

LEMMA InRange ==
    ASSUME NEW S, NEW q \in Seq(S)
    PROVE  /\ \A k \in 1..Len(q) : q[k] \in Range(q)
           /\ \A x \in Range(q) : \E k \in 1..Len(q) : q[k] = x
           /\ Range(q) \subseteq S
           /\ q = <<>> <=> Range(q) = {}
<1>1. DOMAIN q = 1..Len(q) /\ Len(q) \in Nat /\ \A k \in 1..Len(q) : q[k] \in S
  BY SMT
<1>2. /\ \A k \in 1..Len(q) : q[k] \in Range(q)
      /\ \A x \in Range(q) : \E k \in 1..Len(q) : q[k] = x
      /\ Range(q) \subseteq S
  BY <1>1 DEF Range
<1>3. q = <<>> => Range(q) = {}
  BY SMT, <1>1, <1>2
<1>4. ASSUME q # <<>> PROVE Range(q) # {}
  <2>1. 1 \in 1..Len(q)
    BY SMT, <1>1, <1>4
  <2> QED  BY <1>2, <2>1
<1> QED  BY <1>2, <1>3, <1>4

\* Processing and dead-lettering leave nothing behind.
LEMMA BehindGrows ==
    ASSUME NEW q \in Seq(Records), NEW n \in Nat, NEW seen, NEW D, NEW t, NEW o,
           Behind(q, n, seen, D, t, o), NEW more, seen \subseteq more, NEW E,
           \A rec \in Range(q) : <<t, o, rec>> \in D => <<t, o, rec>> \in E
    PROVE  Behind(q, n, more, E, t, o)
<1>1. \A k \in 1..n : q[k] \in Range(q)
  BY SMT, InRange DEF Behind
<1> QED  BY <1>1 DEF Behind

\* Nor does a record that is added to the topic, redriven or new.
LEMMA BehindAppends ==
    ASSUME NEW q \in Seq(Records), NEW n \in Nat, NEW seen, NEW D, NEW t, NEW o,
           Behind(q, n, seen, D, t, o), NEW e, NEW E,
           \A rec : <<t, o, rec>> \in D => <<t, o, rec>> \in E \/ rec = e
    PROVE  Behind(Append(q, e), n, seen, E, t, o)
<1> DEFINE p == Append(q, e)
<1>1. /\ Len(q) \in Nat /\ Len(p) = Len(q) + 1 /\ p[Len(q) + 1] = e
      /\ \A k \in 1..Len(q) : p[k] = q[k]
  BY SMT
<1> HIDE DEF p
<1>2. n <= Len(q)
  BY DEF Behind
<1>3. ASSUME NEW k \in 1..n
      PROVE  p[k].id \in seen \/ <<t, o, p[k]>> \in E \/ \E j \in n + 1..Len(p) : p[j] = p[k]
  <2>1. p[k] = q[k]
    BY SMT, <1>1, <1>2
  <2>2. CASE q[k].id \in seen
    BY <2>1, <2>2
  <2>3. CASE <<t, o, q[k]>> \in D
    <3>1. CASE q[k] = e
      <4>1. Len(q) + 1 \in n + 1..Len(p)
        BY SMT, <1>1, <1>2
      <4> QED  BY <1>1, <2>1, <3>1, <4>1
    <3> QED  BY <2>1, <2>3, <3>1
  <2>4. ASSUME NEW j \in n + 1..Len(q), q[j] = q[k] PROVE \E i \in n + 1..Len(p) : p[i] = p[k]
    <3>1. j \in n + 1..Len(p) /\ p[j] = q[j]
      BY SMT, <1>1, <1>2, <2>4
    <3> QED  BY <2>1, <2>4, <3>1
  <2> QED  BY <2>2, <2>3, <2>4 DEF Behind
<1>4. Behind(p, n, seen, E, t, o)
  BY SMT, <1>1, <1>2, <1>3 DEF Behind
<1> QED  BY <1>4 DEF p

\* The position moves past a record that was processed or dead-lettered.
LEMMA BehindMoves ==
    ASSUME NEW q \in Seq(Records), NEW n \in Nat, NEW seen, NEW D, NEW t, NEW o,
           Behind(q, n, seen, D, t, o), n < Len(q),
           q[n + 1].id \in seen \/ <<t, o, q[n + 1]>> \in D
    PROVE  Behind(q, n + 1, seen, D, t, o)
<1>1. Len(q) \in Nat /\ n + 1 <= Len(q)
  BY SMT
<1>2. ASSUME NEW k \in 1..n + 1
      PROVE  q[k].id \in seen \/ <<t, o, q[k]>> \in D \/ \E j \in n + 2..Len(q) : q[j] = q[k]
  <2>1. CASE k = n + 1
    BY <2>1
  <2>2. CASE k \in 1..n
    <3>1. CASE \E j \in n + 1..Len(q) : q[j] = q[k]
      <4>1. PICK j \in n + 1..Len(q) : q[j] = q[k]
        BY <3>1
      <4>2. j = n + 1 \/ j \in n + 2..Len(q)
        BY SMT
      <4> QED  BY <4>1, <4>2
    <3> QED  BY <2>2, <3>1 DEF Behind
  <2> QED  BY SMT, <2>1, <2>2
<1> QED  BY SMT, <1>1, <1>2 DEF Behind

-----------------------------------------------------------------------------
(* Steps and the orders they leave alone.                                  *)

\* Nothing of order x changes, except that more may be warned of.
Same(x) ==
    /\ \A t \in Topics : topic'[t][x] = topic[t][x]
    /\ \A s \in Subscriptions : pos'[s][x] = pos[s][x] /\ inbox'[s][x] = inbox[s][x]
    /\ orders'[x] = orders[x] /\ view'[x] = view[x] /\ payments'[x] = payments[x]
    /\ warned \subseteq warned'
    /\ \A t \in Topics : \A rec : <<t, x, rec>> \in dlt => <<t, x, rec>> \in dlt'

LEMMA SameKeeps ==
    ASSUME SagaType, NEW x \in Orders, OrderInv(x), Same(x)
    PROVE  OrderInv(x)'
<1>1. /\ topic'[OC][x] = topic[OC][x] /\ topic'[OE][x] = topic[OE][x]
      /\ topic'[PE][x] = topic[PE][x]
  BY TopicNames DEF Same
<1>2. orders'[x] = orders[x] /\ view'[x] = view[x] /\ payments'[x] = payments[x]
  BY DEF Same
<1>3. /\ inbox'[Creating][x] = inbox[Creating][x] /\ inbox'[Paying][x] = inbox[Paying][x]
      /\ inbox'[Settling][x] = inbox[Settling][x] /\ inbox'[Viewing][x] = inbox[Viewing][x]
      /\ inbox'[ViewingPayments][x] = inbox[ViewingPayments][x]
  BY Subscribed DEF Same
<1>4. StoreInv(x)'
  BY <1>1, <1>2 DEF OrderInv, StoreInv
<1>5. InboxInv(x)'
  <2>1. \A s \in Subscriptions :
          inbox'[s][x] \subseteq {rec.id : rec \in Range(topic'[s[2]][x])}
    BY TopicOf DEF Same, OrderInv, InboxInv
  <2> QED  BY <1>2, <1>3, <2>1 DEF Same, OrderInv, InboxInv
<1>6. ViewInv(x)'
  BY <1>1, <1>2, <1>3 DEF OrderInv, ViewInv
<1>7. ASSUME NEW s \in Subscriptions PROVE Delivered(s, x)'
  <2>1. /\ topic'[s[2]][x] = topic[s[2]][x] /\ pos'[s][x] = pos[s][x]
        /\ inbox'[s][x] = inbox[s][x] /\ s[2] \in Topics
    BY TopicOf DEF Same
  <2>2. topic[s[2]][x] \in Seq(Records) /\ pos[s][x] \in Nat
    BY <2>1 DEF SagaType
  <2>3. Behind(topic[s[2]][x], pos[s][x], inbox[s][x], dlt, s[2], x)
    BY DEF OrderInv, Delivered
  <2>4. Behind(topic[s[2]][x], pos[s][x], inbox[s][x], dlt', s[2], x)
    BY <2>1, <2>2, <2>3, BehindGrows DEF Same
  <2> QED  BY <2>1, <2>4 DEF Delivered
<1> QED  BY <1>4, <1>5, <1>6, <1>7 DEF OrderInv

\* A step of the gateway, the clock or a watcher that moves no record.
LEMMA QuietKeeps ==
    ASSUME SagaInv, UNCHANGED <<topic, pos, inbox, orders, payments, view, warned, dlt>>,
           SagaType', ReqInv'
    PROVE  SagaInv'
<1>1. ASSUME NEW x \in Orders PROVE OrderInv(x)'
  <2>1. Same(x)
    BY DEF Same
  <2> QED  BY <2>1, SameKeeps DEF SagaInv
<1>2. DeadInv'
  BY DEF SagaInv, DeadInv
<1> QED  BY <1>1, <1>2 DEF SagaInv

\* A record is appended to the topic of an order.
Sent(t, o, e) == topic' = [topic EXCEPT ![t][o] = Append(@, e)]

Longer(t, o, e) ==
    /\ topic' \in [Topics -> [Orders -> Seq(Records)]]
    /\ \A u \in Topics, x \in Orders : u # t \/ x # o => topic'[u][x] = topic[u][x]
    /\ topic[t][o] \in Seq(Records) /\ topic'[t][o] = Append(topic[t][o], e)
    /\ Range(topic'[t][o]) = Range(topic[t][o]) \cup {e}
    /\ topic'[t][o] # <<>>

LEMMA SentIs ==
    ASSUME SagaType, NEW t \in Topics, NEW o \in Orders, NEW e \in Records, Sent(t, o, e)
    PROVE  Longer(t, o, e)
<1>1. topic[t][o] \in Seq(Records)
  BY DEF SagaType
<1>2. Append(topic[t][o], e) \in Seq(Records) /\ Append(topic[t][o], e) # <<>>
  BY SMT, <1>1
<1>3. /\ topic' \in [Topics -> [Orders -> Seq(Records)]]
      /\ topic'[t][o] = Append(topic[t][o], e)
      /\ \A u \in Topics, x \in Orders : u # t \/ x # o => topic'[u][x] = topic[u][x]
  BY <1>1, <1>2 DEF SagaType, Sent
<1>4. Range(topic'[t][o]) = Range(topic[t][o]) \cup {e}
  BY <1>1, <1>3, RangeAppend
<1> QED  BY <1>1, <1>2, <1>3, <1>4 DEF Longer

\* What a step leaves behind at subscription s of order o: records may be
\* appended, processed and redriven.
LEMMA DeliveredKeeps ==
    ASSUME SagaType, NEW s \in Subscriptions, NEW o \in Orders, Delivered(s, o),
           inbox[s][o] \subseteq inbox'[s][o], pos'[s][o] = pos[s][o],
           \/ /\ topic'[s[2]][o] = topic[s[2]][o]
              /\ \A rec : <<s[2], o, rec>> \in dlt => <<s[2], o, rec>> \in dlt'
           \/ \E e : /\ topic'[s[2]][o] = Append(topic[s[2]][o], e)
                     /\ \A rec : <<s[2], o, rec>> \in dlt =>
                                    <<s[2], o, rec>> \in dlt' \/ rec = e
    PROVE  Delivered(s, o)'
<1>1. topic[s[2]][o] \in Seq(Records) /\ pos[s][o] \in Nat
  BY TopicOf DEF SagaType
<1>2. Behind(topic[s[2]][o], pos[s][o], inbox[s][o], dlt, s[2], o)
  BY DEF Delivered
<1>3. CASE /\ topic'[s[2]][o] = topic[s[2]][o]
           /\ \A rec : <<s[2], o, rec>> \in dlt => <<s[2], o, rec>> \in dlt'
  <2>1. Behind(topic[s[2]][o], pos[s][o], inbox'[s][o], dlt', s[2], o)
    BY <1>1, <1>2, <1>3, BehindGrows
  <2> QED  BY <1>3, <2>1 DEF Delivered
<1>4. ASSUME NEW e, topic'[s[2]][o] = Append(topic[s[2]][o], e),
             \A rec : <<s[2], o, rec>> \in dlt => <<s[2], o, rec>> \in dlt' \/ rec = e
      PROVE  Delivered(s, o)'
  <2>1. Behind(topic[s[2]][o], pos[s][o], inbox'[s][o], dlt, s[2], o)
    BY <1>1, <1>2, BehindGrows
  <2>2. Behind(Append(topic[s[2]][o], e), pos[s][o], inbox'[s][o], dlt', s[2], o)
    BY <1>1, <1>4, <2>1, BehindAppends
  <2> QED  BY <1>4, <2>2 DEF Delivered
<1> QED  BY <1>3, <1>4

-----------------------------------------------------------------------------
(* Fresh message ids.                                                      *)

LEMMA FreshIds ==
    ASSUME SagaType, NEW o \in Orders, StoreInv(o)
    PROVE  /\ orders[o].status = "none" => FreshId(OE, o) = 1
           /\ orders[o].status = "created" => FreshId(OE, o) = 2
           /\ payments[o] = <<>> => FreshId(PE, o) = 1
<1>1. ASSUME NEW t \in Topics
      PROVE  FreshId(t, o) = Cardinality({rec.id : rec \in Range(topic[t][o])}) + 1
  <2>1. {topic[t][o][k].id : k \in DOMAIN topic[t][o]} = {rec.id : rec \in Range(topic[t][o])}
    BY DEF Range
  <2> QED  BY <2>1 DEF FreshId
<1>2. {rec.id : rec \in {}} = {} /\ Cardinality({}) = 0
  BY EmptyCount
<1>3. {rec.id : rec \in {Created(orders[o])}} = {1} /\ Cardinality({1}) = 1
  <2>1. Created(orders[o]).id = 1
    BY SMT DEF Created
  <2>2. {rec.id : rec \in {Created(orders[o])}} = {Created(orders[o]).id}
    OBVIOUS
  <2> QED  BY <2>1, <2>2, SingleCount
<1>4. OE \in Topics /\ PE \in Topics
  BY TopicNames
<1>5. ASSUME orders[o].status = "none" PROVE FreshId(OE, o) = 1
  <2>1. Range(topic[OE][o]) = {}
    BY <1>5 DEF StoreInv, OrderEvents
  <2> QED  BY SMT, <1>1, <1>2, <1>4, <2>1
<1>6. ASSUME orders[o].status = "created" PROVE FreshId(OE, o) = 2
  <2>1. Range(topic[OE][o]) = {Created(orders[o])}
    BY <1>6 DEF StoreInv, OrderEvents
  <2> QED  BY SMT, <1>1, <1>3, <1>4, <2>1
<1>7. ASSUME payments[o] = <<>> PROVE FreshId(PE, o) = 1
  <2>1. Range(topic[PE][o]) = {}
    BY <1>7 DEF StoreInv
  <2> QED  BY SMT, <1>1, <1>2, <1>4, <2>1
<1> QED  BY <1>5, <1>6, <1>7

-----------------------------------------------------------------------------
(* The gateway.                                                            *)

\* Topics only grow: dead letters and acknowledged commands stay in them.
Grown ==
    \A t \in Topics, x \in Orders :
        /\ Range(topic[t][x]) \subseteq Range(topic'[t][x])
        /\ topic[t][x] # <<>> => topic'[t][x] # <<>>

LEMMA LongerGrown ==
    ASSUME NEW t \in Topics, NEW o \in Orders, NEW e, Longer(t, o, e)
    PROVE  Grown
<1> SUFFICES ASSUME NEW u \in Topics, NEW x \in Orders
             PROVE  /\ Range(topic[u][x]) \subseteq Range(topic'[u][x])
                    /\ topic[u][x] # <<>> => topic'[u][x] # <<>>
  BY DEF Grown
<1>1. CASE u = t /\ x = o
  BY <1>1 DEF Longer
<1>2. CASE u # t \/ x # o
  BY <1>2 DEF Longer
<1> QED  BY <1>1, <1>2

LEMMA TouchKeeps ==
    ASSUME SagaInv, NEW o \in Orders, SagaType', Grown, dlt' \subseteq dlt, ReqInv',
           OrderInv(o)', \A x \in Orders \ {o} : Same(x)
    PROVE  SagaInv'
<1>1. DeadInv'
  <2> SUFFICES ASSUME NEW d \in dlt'
               PROVE  \E t \in Topics, x \in Orders :
                        \E rec \in Range(topic'[t][x]) : d = <<t, x, rec>>
    BY DEF DeadInv
  <2>1. PICK t \in Topics, x \in Orders : \E rec \in Range(topic[t][x]) : d = <<t, x, rec>>
    BY DEF SagaInv, DeadInv
  <2> QED  BY <2>1 DEF Grown
<1>2. \A x \in Orders : OrderInv(x)'
  BY SameKeeps DEF SagaInv
<1> QED  BY <1>1, <1>2 DEF SagaInv

LEMMA ReqKept ==
    ASSUME SagaInv, Grown, UNCHANGED req
    PROVE  ReqInv'
<1>1. \A r \in Requests : Post[r].order \in Orders
  BY SagaAssumption
<1> QED  BY <1>1, TopicNames DEF SagaInv, ReqInv, Grown

LEMMA CheckKeeps ==
    ASSUME SagaInv, NEW r \in Requests, Check(r)
    PROVE  SagaInv'
<1>1. UNCHANGED <<topic, pos, inbox, orders, payments, view, warned, dlt>>
  BY DEF Check
<1>2. PICK place \in {"produce", "rejected"} :
        req' = [req EXCEPT ![r] = [at |-> place, tries |-> 0]]
  BY DEF Check, Goto
<1>3. SagaType'
  BY <1>1, <1>2 DEF SagaInv, SagaType, Progress
<1>4. ReqInv'
  <2> SUFFICES ASSUME NEW i \in Requests, req'[i].at \in {"insert", "done"}
               PROVE  topic[OC][Post[i].order] # <<>>
    BY <1>1 DEF ReqInv
  <2>1. req'[i] = IF i = r THEN [at |-> place, tries |-> 0] ELSE req[i]
    BY <1>2 DEF SagaInv, SagaType
  <2>2. i # r
    BY SMT, <2>1
  <2> QED  BY <2>1, <2>2 DEF SagaInv, ReqInv
<1> QED  BY <1>1, <1>3, <1>4, QuietKeeps

\* An order's command is on its topic, once more.
LEMMA CommandKeeps ==
    ASSUME SagaInv, NEW o \in Orders, NEW e \in Records, e.id = 0, Sent(OC, o, e),
           UNCHANGED <<pos, inbox, orders, payments, view, warned, dlt>>
    PROVE  OrderInv(o)'
<1>t. SagaType /\ OrderInv(o)
  BY DEF SagaInv
<1>l. Longer(OC, o, e)
  BY <1>t, SentIs, TopicNames
<1>1. /\ topic'[OE][o] = topic[OE][o] /\ topic'[PE][o] = topic[PE][o]
      /\ Range(topic'[OC][o]) = Range(topic[OC][o]) \cup {e}
      /\ topic'[OC][o] # <<>> /\ topic'[OC][o] = Append(topic[OC][o], e)
  BY <1>l, TopicNames DEF Longer
<1>g. \A u \in Topics, x \in Orders : Range(topic[u][x]) \subseteq Range(topic'[u][x])
  BY <1>l, LongerGrown, TopicNames DEF Grown
<1>2. StoreInv(o)'
  BY <1>t, <1>1 DEF OrderInv, StoreInv
<1>3. InboxInv(o)'
  <2>1. \A s \in Subscriptions :
          inbox'[s][o] \subseteq {rec.id : rec \in Range(topic'[s[2]][o])}
    BY SMT, <1>t, <1>g, TopicOf DEF OrderInv, InboxInv
  <2> QED  BY <1>t, <2>1 DEF OrderInv, InboxInv
<1>4. ViewInv(o)'
  BY <1>t, <1>1 DEF OrderInv, ViewInv
<1>5. ASSUME NEW s \in Subscriptions PROVE Delivered(s, o)'
  <2>1. topic'[s[2]][o] = topic[s[2]][o] \/ topic'[s[2]][o] = Append(topic[s[2]][o], e)
    BY <1>l, TopicOf DEF Longer
  <2> QED  BY <1>t, <2>1, DeliveredKeeps DEF OrderInv
<1> QED  BY <1>2, <1>3, <1>4, <1>5 DEF OrderInv

LEMMA ProduceKeeps ==
    ASSUME SagaInv, NEW r \in Requests, Produce(r)
    PROVE  SagaInv'
<1> DEFINE o == Post[r].order
<1>1. /\ UNCHANGED <<pos, inbox, orders, payments, view, warned, dlt>>
      /\ At(r, "produce")
  BY DEF Produce
<1>2. PICK written \in BOOLEAN, acked \in BOOLEAN :
         /\ acked => written
         /\ topic' = IF written
              THEN [topic EXCEPT !["orders.commands"][Post[r].order] = Append(@, Command(r))]
              ELSE topic
         /\ IF acked THEN Goto(r, "insert")
            ELSE IF req[r].tries + 1 < MaxAttempts
                 THEN req' = [req EXCEPT ![r].tries = @ + 1]
                 ELSE Goto(r, "failed")
  BY DEF Produce
<1>3. o \in Orders /\ Post[r].amount \in Nat
  BY SagaAssumption
<1>4. Command(r) \in Records /\ Command(r).id = 0
  BY <1>3 DEF Command, Records, Types
<1>t. SagaType
  BY DEF SagaInv
<1>5. /\ req' \in [Requests -> Progress]
      /\ \A i \in Requests : i # r => req'[i] = req[i]
      /\ req'[r].at = "insert" => acked
      /\ req'[r].at # "done"
  <2>1. req[r] \in Progress
        /\ req[r].at = "produce"
    BY <1>t, <1>1 DEF SagaType, At
  <2>2. PICK q \in Progress :
          req' = [req EXCEPT ![r] = q] /\ q.at # "done" /\ (q.at = "insert" => acked)
    <3>1. CASE acked
      <4> DEFINE q == [at |-> "insert", tries |-> 0]
      <4>1. req' = [req EXCEPT ![r] = q]
        BY <1>2, <3>1 DEF Goto
      <4>2. q \in Progress /\ q.at = "insert"
        BY DEF Progress
      <4> HIDE DEF q
      <4> QED  BY <3>1, <4>1, <4>2
    <3>2. CASE ~acked /\ req[r].tries + 1 < MaxAttempts
      <4> DEFINE q == [req[r] EXCEPT !.tries = @ + 1]
      <4>1. req' = [req EXCEPT ![r] = q]
        BY <1>2, <3>2
      <4>2. /\ q.at = "produce"
            /\ q \in Progress
        BY SMT, <2>1 DEF Progress
      <4> HIDE DEF q
      <4> QED  BY <4>1, <4>2
    <3>3. CASE ~acked /\ ~(req[r].tries + 1 < MaxAttempts)
      <4> DEFINE q == [at |-> "failed", tries |-> 0]
      <4>1. req' = [req EXCEPT ![r] = q]
        BY <1>2, <3>3 DEF Goto
      <4>2. q \in Progress /\ q.at = "failed"
        BY DEF Progress
      <4> HIDE DEF q
      <4> QED  BY <4>1, <4>2
    <3> QED  BY <3>1, <3>2, <3>3
  <2> QED  BY <1>t, <2>2 DEF SagaType
<1>6. CASE ~written
  <2>1. UNCHANGED topic
    BY <1>2, <1>6
  <2>2. SagaType'
    BY <1>t, <1>1, <1>5, <2>1 DEF SagaType
  <2>3. ReqInv'
    BY <1>2, <1>5, <1>6, <2>1 DEF SagaInv, ReqInv
  <2> QED  BY <1>1, <2>1, <2>2, <2>3, QuietKeeps
<1>7. CASE written
  <2>1. Sent(OC, o, Command(r))
    BY <1>2, <1>7 DEF Sent, OC
  <2>2. /\ Grown /\ topic' \in [Topics -> [Orders -> Seq(Records)]] /\ topic'[OC][o] # <<>>
        /\ \A t \in Topics, x \in Orders \ {o} : topic'[t][x] = topic[t][x]
    <3>1. Longer(OC, o, Command(r))
      BY <1>t, <1>3, <1>4, <2>1, SentIs, TopicNames
    <3>2. Grown
      BY <1>3, <3>1, LongerGrown, TopicNames
    <3> QED  BY <3>1, <3>2 DEF Longer
  <2>3. SagaType'
    BY <1>t, <1>1, <1>5, <2>2 DEF SagaType
  <2>4. ReqInv'
    <3> SUFFICES ASSUME NEW i \in Requests, req'[i].at \in {"insert", "done"}
                 PROVE  topic'[OC][Post[i].order] # <<>>
      BY DEF ReqInv
    <3>1. CASE i = r
      BY <2>2, <3>1
    <3>2. CASE i # r
      <4>1. topic[OC][Post[i].order] # <<>>
        BY <1>5, <3>2 DEF SagaInv, ReqInv
      <4> QED  BY <2>2, <4>1, SagaAssumption, TopicNames DEF Grown
    <3> QED  BY <3>1, <3>2
  <2>5. OrderInv(o)'
    BY <1>1, <1>3, <1>4, <2>1, CommandKeeps
  <2>6. \A x \in Orders \ {o} : Same(x)
    BY <1>1, <2>2 DEF Same
  <2> QED  BY <1>1, <1>3, <2>2, <2>3, <2>4, <2>5, <2>6, TouchKeeps
<1> QED  BY <1>6, <1>7

LEMMA InsertPendingOrderKeeps ==
    ASSUME SagaInv, NEW r \in Requests, InsertPendingOrder(r)
    PROVE  SagaInv'
<1> DEFINE o == Post[r].order
           v == [status |-> "pending", amount |-> Post[r].amount]
<1>t. SagaType
  BY DEF SagaInv
<1>1. /\ UNCHANGED <<topic, pos, inbox, orders, payments, warned, dlt>>
      /\ At(r, "insert") /\ Goto(r, "done")
      /\ (view[o] = NoRow /\ view' = [view EXCEPT ![o] = v]) \/ UNCHANGED view
  BY DEF InsertPendingOrder
<1>2. o \in Orders /\ v \in Rows
  BY SagaAssumption DEF Rows, Statuses
<1>3. /\ req' \in [Requests -> Progress]
      /\ \A i \in Requests : i # r => req'[i] = req[i]
  BY <1>t, <1>1 DEF SagaType, Goto, Progress
<1>4. topic[OC][o] # <<>>
  BY <1>1 DEF SagaInv, ReqInv, At
<1>5. ReqInv'
  BY <1>1, <1>3, <1>4 DEF SagaInv, ReqInv
<1>6. CASE UNCHANGED view
  <2>1. SagaType'
    BY <1>t, <1>1, <1>3, <1>6 DEF SagaType
  <2> QED  BY <1>1, <1>5, <1>6, <2>1, QuietKeeps
<1>7. CASE view[o] = NoRow /\ view' = [view EXCEPT ![o] = v]
  <2>1. SagaType' /\ view'[o] = v /\ \A x \in Orders \ {o} : view'[x] = view[x]
    BY <1>t, <1>1, <1>2, <1>3, <1>7 DEF SagaType
  <2>2. \A x \in Orders \ {o} : Same(x)
    BY <1>1, <2>1 DEF Same
  <2>3. StoreInv(o)' /\ InboxInv(o)' /\ \A s \in Subscriptions : Delivered(s, o)'
    <3>1. OrderInv(o)
      BY <1>2 DEF SagaInv
    <3>2. StoreInv(o)'
      BY <1>1, <3>1 DEF OrderInv, StoreInv
    <3>3. InboxInv(o)'
      BY <1>1, <3>1 DEF OrderInv, InboxInv
    <3>4. \A s \in Subscriptions : Delivered(s, o)'
      BY <1>1, <3>1 DEF OrderInv, Delivered
    <3> QED  BY <3>2, <3>3, <3>4
  <2>4. ViewInv(o)'
    <3>1. ViewInv(o) /\ view[o].status = "none" /\ view'[o].status = "pending"
      BY SMT, <1>2, <1>7, <2>1 DEF SagaInv, OrderInv, NoRow
    <3> QED  BY <1>1, <1>4, <3>1 DEF ViewInv, Terminal
  <2>5. Grown
    BY <1>1 DEF Grown
  <2> QED  BY <1>1, <1>2, <1>5, <2>1, <2>2, <2>3, <2>4, <2>5, TouchKeeps DEF OrderInv
<1> QED  BY <1>1, <1>6, <1>7

\* The clock, the watcher's list and a failed poll move nothing.
LEMMA ClockKeeps ==
    ASSUME SagaInv,
           UNCHANGED <<req, topic, pos, inbox, orders, payments, view, warned, dlt>>
    PROVE  SagaInv'
<1>1. SagaType' /\ ReqInv'
  BY DEF SagaInv, SagaType, ReqInv
<1> QED  BY <1>1, QuietKeeps

-----------------------------------------------------------------------------
(* Dead letters.                                                           *)

\* The next record of a subscription is a record of its topic.
LEMMA NextRecord ==
    ASSUME SagaType, NEW s \in Subscriptions, NEW o \in Orders, HasNext(s, o)
    PROVE  /\ Next1(s, o) \in Range(topic[s[2]][o]) /\ Next1(s, o) \in Records
           /\ topic[s[2]][o] \in Seq(Records) /\ pos[s][o] \in Nat
<1>1. topic[s[2]][o] \in Seq(Records) /\ pos[s][o] \in Nat
  BY SMT, TopicOf DEF SagaType
<1>2. pos[s][o] + 1 \in 1..Len(topic[s[2]][o])
  BY SMT, <1>1 DEF HasNext
<1>3. Next1(s, o) = topic[s[2]][o][pos[s][o] + 1]
  BY DEF Next1
<1>4. /\ pos[s][o] + 1 \in DOMAIN topic[s[2]][o]
      /\ topic[s[2]][o][pos[s][o] + 1] \in Records
  BY SMT, <1>1, <1>2
<1> QED  BY <1>1, <1>3, <1>4 DEF Range

\* A position stays, or passes a record that was processed or dead-lettered.
LEMMA DeliveredMoves ==
    ASSUME SagaType, NEW s \in Subscriptions, NEW o \in Orders, Delivered(s, o), HasNext(s, o),
           inbox[s][o] \subseteq inbox'[s][o], pos'[s][o] \in {pos[s][o], pos[s][o] + 1},
           topic'[s[2]][o] = topic[s[2]][o],
           \A rec : <<s[2], o, rec>> \in dlt => <<s[2], o, rec>> \in dlt',
           Next1(s, o).id \in inbox'[s][o] \/ <<s[2], o, Next1(s, o)>> \in dlt'
    PROVE  Delivered(s, o)'
<1> DEFINE q == topic[s[2]][o]
           n == pos[s][o]
<1>1. q \in Seq(Records) /\ n \in Nat /\ n < Len(q) /\ q[n + 1] = Next1(s, o)
  BY NextRecord DEF HasNext, Next1
<1>2. Behind(q, n, inbox[s][o], dlt, s[2], o)
  BY DEF Delivered
<1> HIDE DEF q, n
<1>3. Behind(q, n, inbox'[s][o], dlt', s[2], o)
  BY <1>1, <1>2, BehindGrows
<1>4. Behind(q, n + 1, inbox'[s][o], dlt', s[2], o)
  BY <1>1, <1>3, BehindMoves
<1> QED  BY <1>3, <1>4 DEF Delivered, q, n

LEMMA DeadLetterKeeps ==
    ASSUME SagaInv, NEW s \in Subscriptions, NEW o \in Orders, DeadLetter(s, o)
    PROVE  SagaInv'
<1>t. SagaType /\ OrderInv(o)
  BY DEF SagaInv
<1>1. /\ HasNext(s, o)
      /\ dlt' = dlt \cup {<<s[2], o, Next1(s, o)>>}
      /\ pos' = [pos EXCEPT ![s][o] = @ + 1]
      /\ UNCHANGED <<req, topic, inbox, orders, payments, view, warned>>
  BY DEF DeadLetter
<1>2. /\ pos' \in [Subscriptions -> [Orders -> Nat]] /\ pos'[s][o] = pos[s][o] + 1
      /\ \A i \in Subscriptions, x \in Orders : i # s \/ x # o => pos'[i][x] = pos[i][x]
  BY SMT, <1>t, <1>1 DEF SagaType
<1>3. SagaType' /\ ReqInv'
  BY <1>t, <1>1, <1>2 DEF SagaInv, SagaType, ReqInv
<1>4. DeadInv'
  <2>1. Next1(s, o) \in Range(topic[s[2]][o]) /\ s[2] \in Topics
    BY <1>t, <1>1, NextRecord, TopicOf
  <2>2. DeadInv
    BY DEF SagaInv
  <2> QED  BY SMT, <1>1, <2>1, <2>2 DEF DeadInv
<1>5. ASSUME NEW x \in Orders, x # o PROVE OrderInv(x)'
  <2>1. Same(x)
    BY <1>1, <1>2, <1>5 DEF Same
  <2> QED  BY <2>1, SameKeeps DEF SagaInv
<1>6. OrderInv(o)'
  <2>1. StoreInv(o)' /\ InboxInv(o)' /\ ViewInv(o)'
    BY <1>t, <1>1 DEF OrderInv, StoreInv, InboxInv, ViewInv
  <2>2. ASSUME NEW i \in Subscriptions PROVE Delivered(i, o)'
    <3>1. Delivered(i, o)
      BY <1>t DEF OrderInv
    <3>2. CASE i = s
      BY <1>t, <1>1, <1>2, <3>1, <3>2, DeliveredMoves
    <3>3. CASE i # s
      BY <1>t, <1>1, <1>2, <3>1, <3>3, DeliveredKeeps
    <3> QED  BY <3>2, <3>3
  <2> QED  BY <2>1, <2>2 DEF OrderInv
<1> QED  BY <1>3, <1>4, <1>5, <1>6 DEF SagaInv

LEMMA RedriveKeeps ==
    ASSUME SagaInv, NEW d \in dlt, Redrive(d)
    PROVE  SagaInv'
<1>t. SagaType /\ DeadInv
  BY DEF SagaInv
<1>1. /\ topic' = [topic EXCEPT ![d[1]][d[2]] = Append(@, d[3])]
      /\ dlt' = dlt \ {d} \/ dlt' = dlt
      /\ UNCHANGED <<req, pos, inbox, orders, payments, view, warned>>
  BY DEF Redrive
<1>2. PICK t \in Topics, o \in Orders : \E rec \in Range(topic[t][o]) : d = <<t, o, rec>>
  BY <1>t DEF DeadInv
<1>3. PICK rec \in Range(topic[t][o]) : d = <<t, o, rec>>
  BY <1>2
<1>4. rec \in Records /\ Sent(t, o, rec)
  <2>1. topic[t][o] \in Seq(Records)
    BY <1>t DEF SagaType
  <2>2. Range(topic[t][o]) \subseteq Records
    BY <2>1, InRange
  <2> QED  BY <1>1, <1>3, <2>2 DEF Sent
<1>5. Longer(t, o, rec)
  BY <1>t, <1>4, SentIs
<1>6. Grown
  BY <1>5, LongerGrown
<1>7. ASSUME NEW u \in Topics
      PROVE  /\ Range(topic'[u][o]) = Range(topic[u][o])
             /\ topic[u][o] # <<>> => topic'[u][o] # <<>>
             /\ topic'[u][o] = topic[u][o] \/ topic'[u][o] = Append(topic[u][o], rec)
  BY <1>5 DEF Longer
<1>8. SagaType'
  BY <1>t, <1>1, <1>5 DEF SagaType, Longer
<1>9. \A x \in Orders \ {o} : Same(x)
  <2> SUFFICES ASSUME NEW x \in Orders, x # o PROVE Same(x)
    OBVIOUS
  <2>1. \A u \in Topics : \A e : <<u, x, e>> # d
    BY <1>3
  <2>2. \A u \in Topics : \A e : <<u, x, e>> \in dlt => <<u, x, e>> \in dlt'
    BY <1>1, <2>1
  <2>3. \A u \in Topics : topic'[u][x] = topic[u][x]
    BY <1>5 DEF Longer
  <2> QED  BY <1>1, <2>2, <2>3 DEF Same
<1>10. OrderInv(o)'
  <2>1. OrderInv(o)
    BY DEF SagaInv
  <2>2. StoreInv(o)' /\ ViewInv(o)'
    BY <1>1, <1>7, <2>1, TopicNames DEF OrderInv, StoreInv, ViewInv
  <2>3. InboxInv(o)'
    <3>1. \A s \in Subscriptions :
            inbox'[s][o] \subseteq {e.id : e \in Range(topic'[s[2]][o])}
      BY <1>1, <1>7, <2>1, TopicOf DEF OrderInv, InboxInv
    <3> QED  BY <1>1, <2>1, <3>1 DEF OrderInv, InboxInv
  <2>4. ASSUME NEW s \in Subscriptions PROVE Delivered(s, o)'
    <3>1. Delivered(s, o) /\ s[2] \in Topics
      BY <2>1, TopicOf DEF OrderInv
    <3>2. CASE s[2] = t
      <4>1. topic'[s[2]][o] = Append(topic[s[2]][o], rec)
        BY <1>5, <3>2 DEF Longer
      <4>2. \A e : <<s[2], o, e>> \in dlt => <<s[2], o, e>> \in dlt' \/ e = rec
        BY <1>1, <1>3, <3>2
      <4> QED  BY <1>t, <1>1, <3>1, <4>1, <4>2, DeliveredKeeps
    <3>3. CASE s[2] # t
      <4>1. topic'[s[2]][o] = topic[s[2]][o]
        BY <1>5, <3>1, <3>3 DEF Longer
      <4>2. \A e : <<s[2], o, e>> \in dlt => <<s[2], o, e>> \in dlt'
        BY <1>1, <1>3, <3>3
      <4> QED  BY <1>t, <1>1, <3>1, <4>1, <4>2, DeliveredKeeps
    <3> QED  BY <3>2, <3>3
  <2> QED  BY <2>2, <2>3, <2>4 DEF OrderInv
<1>11. ReqInv'
  BY <1>1, <1>6, ReqKept
<1> QED  BY <1>1, <1>6, <1>8, <1>9, <1>10, <1>11, TouchKeeps

-----------------------------------------------------------------------------
(* Consumers.                                                              *)

\* Subscription s has processed its next record of order o, now or before.
Took(s, o) ==
    /\ HasNext(s, o)
    /\ pos' \in [Subscriptions -> [Orders -> Nat]]
    /\ pos'[s][o] \in {pos[s][o], pos[s][o] + 1}
    /\ \A i \in Subscriptions, x \in Orders : i # s \/ x # o => pos'[i][x] = pos[i][x]
    /\ inbox' \in [Subscriptions -> [Orders -> SUBSET Nat]]
    /\ inbox'[s][o] = inbox[s][o] \cup {Next1(s, o).id}
    /\ \A i \in Subscriptions, x \in Orders : i # s \/ x # o => inbox'[i][x] = inbox[i][x]
    /\ UNCHANGED <<req, dlt>>

\* Each other topic of the order keeps its records or gets one more.
Fed(s, o) ==
    /\ topic' \in [Topics -> [Orders -> Seq(Records)]]
    /\ \A t \in Topics, x \in Orders \ {o} : topic'[t][x] = topic[t][x]
    /\ topic'[s[2]][o] = topic[s[2]][o]
    /\ \A t \in Topics : topic'[t][o] = topic[t][o] \/ \E e : topic'[t][o] = Append(topic[t][o], e)

LEMMA TookIs ==
    ASSUME SagaType, NEW s \in Subscriptions, NEW o \in Orders, Consume(s, o)
    PROVE  Took(s, o)
<1>1. /\ HasNext(s, o)
      /\ \/ Next1(s, o).id \in inbox[s][o] /\ inbox' = inbox
         \/ inbox' = [inbox EXCEPT ![s][o] = @ \cup {Next1(s, o).id}]
      /\ pos' = [pos EXCEPT ![s][o] = @ + 1] \/ pos' = pos
      /\ UNCHANGED <<req, dlt>>
  BY DEF Consume
<1>2. /\ pos' \in [Subscriptions -> [Orders -> Nat]]
      /\ pos'[s][o] \in {pos[s][o], pos[s][o] + 1}
      /\ \A i \in Subscriptions, x \in Orders : i # s \/ x # o => pos'[i][x] = pos[i][x]
  <2>1. CASE pos' = [pos EXCEPT ![s][o] = @ + 1]
    BY SMT, <2>1 DEF SagaType
  <2>2. CASE pos' = pos
    BY <2>2 DEF SagaType
  <2> QED  BY <1>1, <2>1, <2>2
<1>3. Next1(s, o).id \in Nat
  BY <1>1, NextRecord DEF Records
<1>4. /\ inbox' \in [Subscriptions -> [Orders -> SUBSET Nat]]
      /\ inbox'[s][o] = inbox[s][o] \cup {Next1(s, o).id}
      /\ \A i \in Subscriptions, x \in Orders : i # s \/ x # o => inbox'[i][x] = inbox[i][x]
  <2>1. CASE inbox' = [inbox EXCEPT ![s][o] = @ \cup {Next1(s, o).id}]
    BY <1>3, <2>1 DEF SagaType
  <2>2. CASE Next1(s, o).id \in inbox[s][o] /\ inbox' = inbox
    BY <2>2 DEF SagaType
  <2> QED  BY <1>1, <2>1, <2>2
<1> QED  BY <1>1, <1>2, <1>4 DEF Took

LEMMA TookDelivers ==
    ASSUME SagaType, NEW s \in Subscriptions, NEW o \in Orders, OrderInv(o), Took(s, o), Fed(s, o),
           NEW i \in Subscriptions
    PROVE  Delivered(i, o)'
<1>1. Delivered(i, o) /\ i[2] \in Topics
  BY TopicOf DEF OrderInv
<1>2. dlt' = dlt /\ inbox[i][o] \subseteq inbox'[i][o]
  BY DEF Took
<1>3. CASE i = s
  <2>1. HasNext(s, o) /\ pos'[s][o] \in {pos[s][o], pos[s][o] + 1} /\ Next1(s, o).id \in inbox'[s][o]
    BY DEF Took
  <2>2. topic'[s[2]][o] = topic[s[2]][o]
    BY DEF Fed
  <2> QED  BY <1>1, <1>2, <1>3, <2>1, <2>2, DeliveredMoves
<1>4. CASE i # s
  <2>1. pos'[i][o] = pos[i][o]
    BY <1>4 DEF Took
  <2>2. topic'[i[2]][o] = topic[i[2]][o] \/ \E e : topic'[i[2]][o] = Append(topic[i[2]][o], e)
    BY <1>1 DEF Fed
  <2> QED  BY <1>1, <1>2, <2>1, <2>2, DeliveredKeeps
<1> QED  BY <1>3, <1>4

LEMMA FedGrown ==
    ASSUME SagaType, NEW s \in Subscriptions, NEW o \in Orders, Fed(s, o)
    PROVE  Grown
<1> SUFFICES ASSUME NEW t \in Topics, NEW x \in Orders
             PROVE  /\ Range(topic[t][x]) \subseteq Range(topic'[t][x])
                    /\ topic[t][x] # <<>> => topic'[t][x] # <<>>
  BY DEF Grown
<1>1. CASE topic'[t][x] = topic[t][x]
  BY <1>1
<1>2. ASSUME NEW e, topic'[t][x] = Append(topic[t][x], e)
      PROVE  Range(topic[t][x]) \subseteq Range(topic'[t][x]) /\ topic'[t][x] # <<>>
  <2>1. topic[t][x] \in Seq(Records)
    BY DEF SagaType
  <2>2. Append(topic[t][x], e) # <<>>
    BY SMT, <2>1
  <2> QED  BY SMT, <1>2, <2>1, <2>2, RangeAppend
<1> QED  BY <1>1, <1>2 DEF Fed

LEMMA TookIds ==
    ASSUME SagaType, NEW s \in Subscriptions, NEW o \in Orders, InboxInv(o), Took(s, o), Grown,
           NEW i \in Subscriptions
    PROVE  inbox'[i][o] \subseteq {rec.id : rec \in Range(topic'[i[2]][o])}
<1>1. inbox[i][o] \subseteq {rec.id : rec \in Range(topic'[i[2]][o])}
  <2>1. inbox[i][o] \subseteq {rec.id : rec \in Range(topic[i[2]][o])}
    BY DEF InboxInv
  <2>2. Range(topic[i[2]][o]) \subseteq Range(topic'[i[2]][o])
    BY TopicOf DEF Grown
  <2> QED  BY <2>1, <2>2
<1>2. Next1(s, o).id \in {rec.id : rec \in Range(topic'[s[2]][o])}
  <2>1. Next1(s, o) \in Range(topic[s[2]][o])
    BY NextRecord DEF Took
  <2> QED  BY <2>1, TopicOf DEF Grown
<1> QED  BY <1>1, <1>2 DEF Took

\* What is left to show of a handler: the tables and the meaning of its inbox.
LEMMA HandlerKeeps ==
    ASSUME SagaInv, NEW s \in Subscriptions, NEW o \in Orders, Took(s, o), Fed(s, o),
           SagaType', warned \subseteq warned',
           \A x \in Orders \ {o} :
               orders'[x] = orders[x] /\ view'[x] = view[x] /\ payments'[x] = payments[x],
           StoreInv(o)', ViewInv(o)',
           0 \in inbox'[Creating][o] => orders'[o].status # "none",
           1 \in inbox'[Paying][o] <=> payments'[o] # <<>>,
           1 \in inbox'[Settling][o] =>
               /\ orders'[o].status \in Terminal
               /\ orders'[o].status = Result(orders'[o]) \/ <<o, Result(orders'[o])>> \in warned'
    PROVE  SagaInv'
<1>1. SagaType /\ OrderInv(o) /\ InboxInv(o)
  BY DEF SagaInv, OrderInv
<1>2. Grown
  BY <1>1, FedGrown
<1>3. \A i \in Subscriptions :
        inbox'[i][o] \subseteq {rec.id : rec \in Range(topic'[i[2]][o])}
  BY <1>1, <1>2, TookIds
<1>4. InboxInv(o)'
  BY <1>3 DEF InboxInv
<1>5. \A i \in Subscriptions : Delivered(i, o)'
  BY <1>1, TookDelivers
<1>6. OrderInv(o)'
  BY <1>4, <1>5 DEF OrderInv
<1>7. ASSUME NEW x \in Orders, x # o PROVE Same(x)
  <2>1. /\ \A i \in Subscriptions : pos'[i][x] = pos[i][x] /\ inbox'[i][x] = inbox[i][x]
        /\ dlt' = dlt
    BY <1>7 DEF Took
  <2>2. \A t \in Topics : topic'[t][x] = topic[t][x]
    BY <1>7 DEF Fed
  <2> QED  BY <1>7, <2>1, <2>2 DEF Same
<1>8. ReqInv' /\ dlt' \subseteq dlt
  BY <1>2, ReqKept DEF Took
<1> QED  BY <1>2, <1>6, <1>7, <1>8, TouchKeeps

\* A record that was processed before: only the position moves.
LEMMA DuplicateKeeps ==
    ASSUME SagaInv, NEW s \in Subscriptions, NEW o \in Orders, Took(s, o),
           UNCHANGED <<inbox, topic, orders, payments, view, warned>>
    PROVE  SagaInv'
<1>1. SagaType /\ StoreInv(o) /\ InboxInv(o) /\ ViewInv(o)
  BY DEF SagaInv, OrderInv
<1>2. Fed(s, o) /\ SagaType'
  BY <1>1 DEF Fed, SagaType, Took
<1>3. StoreInv(o)' /\ InboxInv(o)' /\ ViewInv(o)'
  BY <1>1 DEF StoreInv, InboxInv, ViewInv
<1> QED  BY <1>2, <1>3, HandlerKeeps DEF InboxInv

\* The inbox of the other subscriptions, named.
LEMMA OtherInboxes ==
    ASSUME NEW s \in Subscriptions, NEW o \in Orders, Took(s, o)
    PROVE  /\ s # Creating => inbox'[Creating][o] = inbox[Creating][o]
           /\ s # Paying => inbox'[Paying][o] = inbox[Paying][o]
           /\ s # Settling => inbox'[Settling][o] = inbox[Settling][o]
           /\ s # Viewing => inbox'[Viewing][o] = inbox[Viewing][o]
           /\ s # ViewingPayments => inbox'[ViewingPayments][o] = inbox[ViewingPayments][o]
  BY SMT, Subscribed DEF Took

LEMMA DistinctSubscriptions ==
    /\ Creating # Paying /\ Creating # Settling /\ Creating # Viewing /\ Creating # ViewingPayments
    /\ Paying # Settling /\ Paying # Viewing /\ Paying # ViewingPayments
    /\ Settling # Viewing /\ Settling # ViewingPayments /\ Viewing # ViewingPayments
  BY DEF Creating, Paying, Settling, Viewing, ViewingPayments, OC, OE, PE

\* A message on an event topic of an order whose row does not exist yet, or
\* that has no payment yet: there is none.
LEMMA NotSeen ==
    ASSUME SagaType, NEW o \in Orders, StoreInv(o), InboxInv(o)
    PROVE  /\ orders[o].status = "none" =>
                inbox[Viewing][o] = {} /\ inbox[Paying][o] = {} /\ payments[o] = <<>>
           /\ payments[o] = <<>> => inbox[Settling][o] = {} /\ inbox[ViewingPayments][o] = {}
<1>1. /\ inbox[Viewing][o] \subseteq {rec.id : rec \in Range(topic[OE][o])}
      /\ inbox[Paying][o] \subseteq {rec.id : rec \in Range(topic[OE][o])}
      /\ inbox[Settling][o] \subseteq {rec.id : rec \in Range(topic[PE][o])}
      /\ inbox[ViewingPayments][o] \subseteq {rec.id : rec \in Range(topic[PE][o])}
  BY Subscribed DEF InboxInv
<1>2. orders[o].status = "none" => Range(topic[OE][o]) = {} /\ payments[o] = <<>>
  BY DEF StoreInv, OrderEvents
<1>3. payments[o] = <<>> => Range(topic[PE][o]) = {}
  BY DEF StoreInv
<1> QED  BY <1>1, <1>2, <1>3

\* An event is enqueued on another topic of the order.
LEMMA EnqueueFeeds ==
    ASSUME SagaType, NEW s \in Subscriptions, NEW t \in Topics, t # s[2], NEW o \in Orders,
           NEW e \in Records, Sent(t, o, e)
    PROVE  Fed(s, o) /\ Longer(t, o, e)
<1>1. Longer(t, o, e)
  BY SentIs
<1>2. topic'[s[2]][o] = topic[s[2]][o]
  BY <1>1, TopicOf DEF Longer
<1>3. \A u \in Topics : topic'[u][o] = topic[u][o] \/ \E x : topic'[u][o] = Append(topic[u][o], x)
  <2> SUFFICES ASSUME NEW u \in Topics
               PROVE  topic'[u][o] = topic[u][o] \/ \E x : topic'[u][o] = Append(topic[u][o], x)
    OBVIOUS
  <2>1. CASE u = t
    BY <1>1, <2>1 DEF Longer
  <2>2. CASE u # t
    BY <1>1, <2>2 DEF Longer
  <2> QED  BY <2>1, <2>2
<1>4. \A u \in Topics, x \in Orders \ {o} : topic'[u][x] = topic[u][x]
  BY <1>1 DEF Longer
<1> QED  BY <1>1, <1>2, <1>3, <1>4 DEF Fed, Longer

LEMMA CreateKeeps ==
    ASSUME SagaInv, NEW o \in Orders, Took(Creating, o), Create(o, Next1(Creating, o))
    PROVE  SagaInv'
<1> DEFINE rec == Next1(Creating, o)
           row == [status |-> "created", amount |-> rec.amount]
<1>t. SagaType /\ StoreInv(o) /\ InboxInv(o) /\ ViewInv(o) /\ Creating \in Subscriptions /\ Creating[2] = OC
  BY Subscribed DEF SagaInv, OrderInv
<1>1. /\ orders[o].status = "none" /\ orders' = [orders EXCEPT ![o] = row]
      /\ Enqueue(OE, o, "OrderCreated", rec.amount) /\ UNCHANGED <<payments, view, warned>>
  BY DEF Create, OE
<1>2. rec \in Range(topic[OC][o]) /\ rec \in Records
  BY <1>t, NextRecord DEF Took
<1>3. rec.amount \in Nat /\ row \in Rows /\ row.status = "created" /\ row.amount = rec.amount
  BY <1>2 DEF Records, Rows, Statuses
<1>4. Created(row) \in Records /\ Sent(OE, o, Created(row))
  <2>1. FreshId(OE, o) = 1
    BY <1>t, <1>1, FreshIds
  <2>2. Created(row) = [id |-> 1, type |-> "OrderCreated", amount |-> rec.amount]
    BY DEF Created
  <2>3. Created(row) \in Records
    BY SMT, <1>3, <2>2 DEF Records, Types
  <2>4. Sent(OE, o, Created(row))
    BY <1>1, <2>1, <2>2 DEF Enqueue, Sent
  <2> QED  BY <2>3, <2>4
<1> HIDE DEF row
<1>5. Fed(Creating, o) /\ Longer(OE, o, Created(row))
  BY <1>t, <1>4, EnqueueFeeds, TopicNames
<1>6. orders'[o] = row /\ orders' \in [Orders -> Rows] /\ \A x \in Orders \ {o} : orders'[x] = orders[x]
  BY <1>t, <1>1, <1>3 DEF SagaType
<1>7. SagaType'
  BY <1>t, <1>1, <1>5, <1>6 DEF SagaType, Took, Longer
<1>8. payments[o] = <<>> /\ inbox[Viewing][o] = {} /\ inbox[Paying][o] = {} /\ inbox[Settling][o] = {}
      /\ inbox[ViewingPayments][o] = {}
  BY <1>t, <1>1, NotSeen
<1>9. /\ inbox'[Viewing][o] = {} /\ inbox'[Paying][o] = {} /\ inbox'[Settling][o] = {}
      /\ inbox'[ViewingPayments][o] = {}
  BY <1>t, <1>8, OtherInboxes, DistinctSubscriptions
<1>10. /\ Range(topic'[OE][o]) = Range(topic[OE][o]) \cup {Created(row)}
       /\ topic'[PE][o] = topic[PE][o] /\ topic'[OC][o] = topic[OC][o]
  BY <1>5, TopicNames DEF Longer
<1>11. StoreInv(o)'
  <2>1. Range(topic[OE][o]) = {}
    BY <1>t, <1>1 DEF StoreInv, OrderEvents
  <2>2. OrderEvents(row) = {Created(row)}
    BY <1>3 DEF OrderEvents
  <2> QED  BY <1>t, <1>1, <1>3, <1>6, <1>8, <1>10, <2>1, <2>2 DEF StoreInv
<1>12. ViewInv(o)'
  <2>1. topic[OC][o] # <<>>
    BY SMT, <1>2, InRange DEF Range
  <2> QED  BY <1>t, <1>1, <1>6, <1>8, <1>9, <1>10, <2>1 DEF ViewInv
<1>13. orders'[o].status # "none"
  BY <1>3, <1>6
<1> QED  BY <1>t, <1>1, <1>5, <1>6, <1>7, <1>8, <1>9, <1>11, <1>12, <1>13, HandlerKeeps

\* What is on an order's event topics.
LEMMA EventRecords ==
    ASSUME SagaType, NEW o \in Orders, StoreInv(o)
    PROVE  /\ \A rec \in Range(topic[OE][o]) :
                /\ orders[o].status \in {"created"} \cup Terminal
                /\ \/ rec = Created(orders[o])
                   \/ rec = TimedOut /\ orders[o].status = "payment_timeout"
           /\ \A rec \in Range(topic[PE][o]) :
                /\ rec = Paid(orders[o]) /\ payments[o] # <<>>
                /\ orders[o].status \in {"created"} \cup Terminal
<1>1. orders[o].status # "none" => orders[o].status \in {"created"} \cup Terminal
  BY DEF SagaType, StoreInv, Rows, Statuses
<1>2. ASSUME NEW rec \in Range(topic[OE][o])
      PROVE  /\ orders[o].status # "none"
             /\ rec = Created(orders[o]) \/ (rec = TimedOut /\ orders[o].status = "payment_timeout")
  <2>1. rec \in OrderEvents(orders[o])
    BY <1>2 DEF StoreInv
  <2>2. CASE orders[o].status = "none"
    BY <2>1, <2>2 DEF OrderEvents
  <2>3. CASE orders[o].status = "payment_timeout"
    BY <2>1, <2>3 DEF OrderEvents
  <2>4. CASE orders[o].status \notin {"none", "payment_timeout"}
    BY <2>1, <2>4 DEF OrderEvents
  <2> QED  BY <2>2, <2>3, <2>4
<1>3. ASSUME NEW rec \in Range(topic[PE][o])
      PROVE  rec = Paid(orders[o]) /\ payments[o] # <<>> /\ orders[o].status # "none"
  BY <1>3 DEF StoreInv
<1> QED  BY <1>1, <1>2, <1>3

LEMMA EventFields ==
    ASSUME NEW row
    PROVE  /\ Created(row).id = 1 /\ Created(row).type = "OrderCreated"
           /\ Created(row).amount = row.amount
           /\ TimedOut.id = 2 /\ TimedOut.type = "OrderPaymentTimedOut"
           /\ Outcome(TimedOut) = "payment_timeout"
           /\ Paid(row).id = 1 /\ Paid(row).type \in {"PaymentFailed", "PaymentProcessed"}
           /\ Outcome(Paid(row)) = Result(row)
           /\ Result(row) \in {"paid", "payment_failed"}
<1>1. /\ Created(row).id = 1 /\ Created(row).type = "OrderCreated"
      /\ Created(row).amount = row.amount
  BY DEF Created
<1>2. TimedOut.id = 2 /\ TimedOut.type = "OrderPaymentTimedOut"
  BY DEF TimedOut
<1>3. Outcome(TimedOut) = "payment_timeout"
  BY <1>2 DEF Outcome
<1>4. CASE isDeclined(row.amount)
  <2>1. Paid(row).id = 1 /\ Paid(row).type = "PaymentFailed" /\ Result(row) = "payment_failed"
    BY <1>4 DEF Paid, Result
  <2> QED  BY <1>1, <1>2, <1>3, <2>1 DEF Outcome
<1>5. CASE ~isDeclined(row.amount)
  <2>1. Paid(row).id = 1 /\ Paid(row).type = "PaymentProcessed" /\ Result(row) = "paid"
    BY <1>5 DEF Paid, Result
  <2> QED  BY <1>1, <1>2, <1>3, <2>1 DEF Outcome
<1> QED  BY <1>4, <1>5

LEMMA ProcessKeeps ==
    ASSUME SagaInv, NEW o \in Orders, Took(Paying, o), Next1(Paying, o) = Created(orders[o]),
           1 \notin inbox[Paying][o], Process(o, Next1(Paying, o))
    PROVE  SagaInv'
<1> DEFINE rec == Next1(Paying, o)
           pay == [status |-> IF isDeclined(rec.amount) THEN "failed" ELSE "processed",
                   amount |-> rec.amount]
<1>t. SagaType /\ StoreInv(o) /\ InboxInv(o) /\ ViewInv(o) /\ Paying \in Subscriptions /\ Paying[2] = OE
  BY Subscribed DEF SagaInv, OrderInv
<1>1. rec.id = 1 /\ rec.amount = orders[o].amount /\ orders[o].amount \in Nat
  BY SMT, <1>t, EventFields DEF SagaType, Rows
<1>2. /\ payments' = [payments EXCEPT ![o] = Append(@, pay)]
      /\ Enqueue(PE, o, IF isDeclined(rec.amount) THEN "PaymentFailed" ELSE "PaymentProcessed", 0)
      /\ UNCHANGED <<orders, view, warned>>
  BY DEF Process, PE
<1>3. payments[o] = <<>>
  BY <1>t DEF InboxInv
<1>4. /\ pay \in [status : {"processed", "failed"}, amount : Nat] /\ pay.amount = orders[o].amount
  BY <1>1
<1>5. orders[o].status # "none"
  <2>1. rec \in Range(topic[OE][o])
    BY <1>t, NextRecord DEF Took
  <2> QED  BY <1>t, <2>1, EventRecords DEF Terminal
<1>6. Paid(orders[o]) \in Records /\ Sent(PE, o, Paid(orders[o]))
  <2>1. FreshId(PE, o) = 1
    BY <1>t, <1>3, FreshIds
  <2>2. Paid(orders[o]) \in Records
    BY DEF Paid, Records, Types
  <2>3. Sent(PE, o, Paid(orders[o]))
    BY <1>1, <1>2, <2>1 DEF Enqueue, Sent, Paid
  <2> QED  BY <2>2, <2>3
<1> HIDE DEF pay
<1>7. Fed(Paying, o) /\ Longer(PE, o, Paid(orders[o]))
  BY <1>t, <1>6, EnqueueFeeds, TopicNames
<1>8. /\ payments' \in [Orders -> Seq([status : {"processed", "failed"}, amount : Nat])]
      /\ payments'[o] = Append(payments[o], pay) /\ \A x \in Orders \ {o} : payments'[x] = payments[x]
  <2>1. Append(payments[o], pay) \in Seq([status : {"processed", "failed"}, amount : Nat])
    BY SMT, <1>t, <1>4 DEF SagaType
  <2> QED  BY <1>t, <1>2, <2>1 DEF SagaType
<1>9. payments'[o] # <<>> /\ Len(payments'[o]) = 1 /\ payments'[o][1].amount = orders[o].amount
  <2>1. Append(<<>>, pay) # <<>> /\ Len(Append(<<>>, pay)) = 1 /\ Append(<<>>, pay)[1] = pay
    BY SMT
  <2> QED  BY <1>3, <1>4, <1>8, <2>1
<1>10. SagaType'
  BY <1>t, <1>2, <1>7, <1>8 DEF SagaType, Took, Longer
<1>11. /\ Range(topic'[PE][o]) = Range(topic[PE][o]) \cup {Paid(orders[o])}
       /\ topic'[OE][o] = topic[OE][o] /\ topic'[OC][o] = topic[OC][o]
  BY <1>7, TopicNames DEF Longer
<1>12. StoreInv(o)'
  <2>1. Range(topic[PE][o]) = {}
    BY <1>t, <1>3 DEF StoreInv
  <2> QED  BY SMT, <1>t, <1>2, <1>5, <1>9, <1>11, <2>1 DEF StoreInv
<1>13. /\ inbox'[Creating][o] = inbox[Creating][o] /\ inbox'[Settling][o] = inbox[Settling][o]
       /\ inbox'[Viewing][o] = inbox[Viewing][o]
       /\ inbox'[ViewingPayments][o] = inbox[ViewingPayments][o]
  BY <1>t, OtherInboxes, DistinctSubscriptions
<1>14. ViewInv(o)'
  BY <1>t, <1>2, <1>9, <1>11, <1>13 DEF ViewInv
<1>15. 1 \in inbox'[Paying][o]
  BY <1>1 DEF Took
<1> QED  BY <1>t, <1>2, <1>7, <1>8, <1>9, <1>10, <1>12, <1>13, <1>14, <1>15, HandlerKeeps DEF InboxInv

\* A handler that writes the orders table or the read model only.
LEMMA Unfed ==
    ASSUME SagaType, NEW s \in Subscriptions, NEW o \in Orders, Took(s, o), UNCHANGED topic
    PROVE  Fed(s, o)
  BY DEF Fed, SagaType

LEMMA ApplyPaymentOutcomeKeeps ==
    ASSUME SagaInv, NEW o \in Orders, Took(Settling, o), ApplyPaymentOutcome(o, Next1(Settling, o))
    PROVE  SagaInv'
<1> DEFINE rec == Next1(Settling, o)
           row == orders[o]
<1>t. SagaType /\ StoreInv(o) /\ InboxInv(o) /\ ViewInv(o) /\ Settling \in Subscriptions /\ Settling[2] = PE
  BY Subscribed DEF SagaInv, OrderInv
<1>1. rec = Paid(row) /\ payments[o] # <<>> /\ row.status \in {"created"} \cup Terminal
  <2>1. rec \in Range(topic[PE][o])
    BY <1>t, NextRecord DEF Took
  <2> QED  BY <1>t, <2>1, EventRecords
<1>2. Outcome(rec) = Result(row) /\ Result(row) \in {"paid", "payment_failed"} /\ row \in Rows
  BY <1>t, <1>1, EventFields DEF SagaType
<1>3. UNCHANGED <<topic, payments, view>> /\ warned \subseteq warned'
  BY DEF ApplyPaymentOutcome
<1>4. Fed(Settling, o)
  BY <1>t, <1>3, Unfed
<1>5. /\ inbox'[Creating][o] = inbox[Creating][o] /\ inbox'[Paying][o] = inbox[Paying][o]
      /\ inbox'[Viewing][o] = inbox[Viewing][o]
      /\ inbox'[ViewingPayments][o] = inbox[ViewingPayments][o]
  BY <1>t, OtherInboxes, DistinctSubscriptions
<1>6. CASE row.status = "created"
  <2> DEFINE settled == [row EXCEPT !.status = Result(row)]
  <2>1. orders' = [orders EXCEPT ![o] = settled] /\ warned' = warned
    BY <1>2, <1>6 DEF ApplyPaymentOutcome
  <2>2. settled \in Rows /\ settled.status = Result(row) /\ settled.amount = row.amount
    BY <1>2 DEF Rows, Statuses, Terminal
  <2> HIDE DEF settled
  <2>3. /\ orders' \in [Orders -> Rows] /\ orders'[o] = settled
        /\ \A x \in Orders \ {o} : orders'[x] = orders[x]
    BY <1>t, <2>1, <2>2 DEF SagaType
  <2>4. SagaType'
    BY <1>t, <1>3, <2>3 DEF SagaType, Took
  <2>5. /\ Created(settled) = Created(row) /\ Paid(settled) = Paid(row)
        /\ Result(settled) = Result(row)
    BY <2>2 DEF Created, Paid, Result
  <2>6. OrderEvents(settled) = OrderEvents(row)
    BY <1>2, <1>6, <2>2, <2>5 DEF OrderEvents
  <2>7. StoreInv(o)'
    BY <1>t, <1>1, <1>2, <1>3, <2>2, <2>3, <2>5, <2>6 DEF StoreInv
  <2>8. ViewInv(o)'
    BY <1>t, <1>2, <1>3, <1>5, <1>6, <2>2, <2>3, <2>5 DEF ViewInv
  <2>9. settled.status \in Terminal /\ settled.status # "none"
    BY <1>2, <2>2 DEF Terminal
  <2> QED  BY <1>t, <1>1, <1>3, <1>4, <1>5, <2>2, <2>3, <2>4, <2>5, <2>7, <2>8, <2>9, HandlerKeeps
              DEF InboxInv
<1>7. CASE row.status # "created"
  <2>1. orders' = orders /\ warned' = warned \cup {<<o, Result(row)>>}
    BY <1>2, <1>7 DEF ApplyPaymentOutcome
  <2>2. SagaType'
    BY <1>t, <1>3, <2>1 DEF SagaType, Took
  <2>3. StoreInv(o)' /\ ViewInv(o)'
    BY <1>t, <1>3, <1>5, <2>1 DEF StoreInv, ViewInv
  <2> QED  BY <1>t, <1>1, <1>3, <1>4, <1>5, <1>7, <2>1, <2>2, <2>3, HandlerKeeps DEF InboxInv
<1> QED  BY <1>6, <1>7

\* payments skips the timeout event.
LEMMA SkipKeeps ==
    ASSUME SagaInv, NEW o \in Orders, Took(Paying, o), Next1(Paying, o).id # 1,
           UNCHANGED <<topic, orders, payments, view, warned>>
    PROVE  SagaInv'
<1>t. SagaType /\ StoreInv(o) /\ InboxInv(o) /\ ViewInv(o) /\ Paying \in Subscriptions
  BY Subscribed DEF SagaInv, OrderInv
<1>1. Fed(Paying, o)
  BY <1>t, Unfed
<1>2. SagaType'
  BY <1>t DEF SagaType, Took
<1>3. /\ inbox'[Creating][o] = inbox[Creating][o] /\ inbox'[Settling][o] = inbox[Settling][o]
      /\ inbox'[Viewing][o] = inbox[Viewing][o]
      /\ inbox'[ViewingPayments][o] = inbox[ViewingPayments][o]
  BY <1>t, OtherInboxes, DistinctSubscriptions
<1>4. 1 \in inbox'[Paying][o] <=> 1 \in inbox[Paying][o]
  BY DEF Took
<1>5. StoreInv(o)' /\ ViewInv(o)'
  BY <1>t, <1>3 DEF StoreInv, ViewInv
<1> QED  BY <1>t, <1>1, <1>2, <1>3, <1>4, <1>5, HandlerKeeps DEF InboxInv

\* The projection writes the row of the read model.
LEMMA ProjectionKeeps ==
    ASSUME SagaInv, NEW s \in {Viewing, ViewingPayments}, NEW o \in Orders, Took(s, o),
           UNCHANGED <<topic, orders, payments, warned>>,
           NEW row \in Rows, view' = [view EXCEPT ![o] = row], ViewInv(o)'
    PROVE  SagaInv'
<1>t. SagaType /\ StoreInv(o) /\ InboxInv(o) /\ s \in Subscriptions
  BY Subscribed DEF SagaInv, OrderInv
<1>1. Fed(s, o)
  BY <1>t, Unfed
<1>2. view' \in [Orders -> Rows] /\ \A x \in Orders \ {o} : view'[x] = view[x]
  BY <1>t DEF SagaType
<1>3. SagaType'
  BY <1>t, <1>2 DEF SagaType, Took
<1>4. /\ inbox'[Creating][o] = inbox[Creating][o] /\ inbox'[Settling][o] = inbox[Settling][o]
      /\ inbox'[Paying][o] = inbox[Paying][o]
  BY <1>t, OtherInboxes, DistinctSubscriptions
<1>5. StoreInv(o)'
  BY <1>t DEF StoreInv
<1> QED  BY <1>t, <1>1, <1>2, <1>3, <1>4, <1>5, HandlerKeeps DEF InboxInv

LEMMA UpsertOrderCreatedKeeps ==
    ASSUME SagaInv, NEW o \in Orders, Took(Viewing, o), Next1(Viewing, o) = Created(orders[o]),
           UpsertOrderCreated(o, Next1(Viewing, o))
    PROVE  SagaInv'
<1> DEFINE row == [status |-> IF view[o].status \in Terminal THEN view[o].status ELSE "created",
                   amount |-> Next1(Viewing, o).amount]
<1>t. SagaType /\ StoreInv(o) /\ ViewInv(o) /\ Viewing \in Subscriptions /\ Viewing[2] = OE
  BY Subscribed DEF SagaInv, OrderInv
<1>1. view' = [view EXCEPT ![o] = row] /\ UNCHANGED <<topic, orders, payments, warned>>
  BY DEF UpsertOrderCreated
<1>2. Next1(Viewing, o).amount = orders[o].amount /\ orders[o].amount \in Nat
  BY <1>t, EventFields DEF SagaType, Rows
<1>3. /\ row \in Rows /\ row.amount = orders[o].amount /\ row.status \in {"created"} \cup Terminal
      /\ row.status = view[o].status \/ (row.status = "created" /\ view[o].status \notin Terminal)
  BY <1>2 DEF Rows, Statuses, Terminal
<1> HIDE DEF row
<1>4. view'[o] = row
  BY <1>t, <1>1 DEF SagaType
<1>5. orders[o].status # "none"
  <2>1. Next1(Viewing, o) \in Range(topic[OE][o])
    BY <1>t, NextRecord DEF Took
  <2> QED  BY <1>t, <2>1, EventRecords DEF Terminal
<1>6. inbox'[ViewingPayments][o] = inbox[ViewingPayments][o]
  BY <1>t, OtherInboxes, DistinctSubscriptions
<1>7. ViewInv(o)'
  BY <1>t, <1>1, <1>3, <1>4, <1>5, <1>6 DEF ViewInv, Terminal
<1> QED  BY <1>1, <1>3, <1>7, ProjectionKeeps

\* MarkPaid, MarkPaymentFailed and MarkPaymentTimeout
LEMMA MarkTerminalKeeps ==
    ASSUME SagaInv, NEW s \in {Viewing, ViewingPayments}, NEW o \in Orders, Took(s, o),
           s = Viewing => Next1(s, o) = TimedOut,
           MarkTerminal(o, Next1(s, o))
    PROVE  SagaInv'
<1> DEFINE rec == Next1(s, o)
           row == IF view[o].status \in Terminal THEN view[o]
                  ELSE [view[o] EXCEPT !.status = Outcome(rec)]
<1>t. SagaType /\ StoreInv(o) /\ ViewInv(o) /\ s \in Subscriptions
  BY Subscribed DEF SagaInv, OrderInv
<1>1. view' = [view EXCEPT ![o] = row] /\ UNCHANGED <<topic, orders, payments, warned>>
  <2>1. view = [view EXCEPT ![o] = view[o]]
    BY <1>t DEF SagaType
  <2> QED  BY <2>1 DEF MarkTerminal
<1>2. /\ orders[o].status # "none"
      /\ \/ Outcome(rec) = "payment_timeout" /\ orders[o].status = "payment_timeout" /\ rec.id = 2
         \/ /\ Outcome(rec) = Result(orders[o]) /\ payments[o] # <<>>
            /\ Result(orders[o]) \in {"paid", "payment_failed"}
  <2>1. rec \in Range(topic[s[2]][o])
    BY <1>t, NextRecord DEF Took
  <2>2. CASE s = Viewing
    <3>1. rec = TimedOut /\ rec \in Range(topic[OE][o]) /\ TimedOut.id = 2
      BY <2>1, <2>2, Subscribed, EventFields
    <3>2. Created(orders[o]).id = 1
      BY EventFields
    <3> QED  BY <1>t, <3>1, <3>2, EventRecords, EventFields DEF Terminal
  <2>3. CASE s = ViewingPayments
    <3>1. rec \in Range(topic[PE][o])
      BY <2>1, <2>3, Subscribed
    <3> QED  BY SMT, <1>t, <3>1, EventRecords, EventFields DEF Terminal
  <2> QED  BY <2>2, <2>3
<1>3. view[o] \in Rows /\ Outcome(rec) \in Terminal
  BY <1>t, <1>2 DEF SagaType, Terminal
<1>4. /\ row \in Rows /\ row.amount = view[o].amount /\ row.status \in Terminal
      /\ row.status = view[o].status \/ row.status = Outcome(rec)
  BY <1>3 DEF Rows, Statuses
<1> HIDE DEF row
<1>5. view'[o] = row
  BY <1>t, <1>1 DEF SagaType
<1>6. 1 \in inbox'[Viewing][o] => 1 \in inbox[Viewing][o]
  <2>1. CASE s = Viewing
    <3>1. rec.id = 2
      BY <2>1, EventFields
    <3> QED  BY SMT, <2>1, <3>1 DEF Took
  <2>2. CASE s # Viewing
    BY <1>t, <2>2, OtherInboxes
  <2> QED  BY <2>1, <2>2
<1>7. row.status # "none"
  BY <1>4 DEF Terminal
<1>8. row.status = view[o].status =>
        /\ row.status = "payment_timeout" => orders[o].status = "payment_timeout"
        /\ row.status \in {"paid", "payment_failed"} =>
             payments[o] # <<>> /\ row.status = Result(orders[o])
  BY <1>t DEF ViewInv
<1>9. ViewInv(o)'
  BY <1>t, <1>1, <1>2, <1>4, <1>5, <1>6, <1>7, <1>8 DEF ViewInv
<1> QED  BY <1>1, <1>4, <1>9, ProjectionKeeps

LEMMA ConsumeKeeps ==
    ASSUME SagaInv, NEW s \in Subscriptions, NEW o \in Orders, Consume(s, o)
    PROVE  SagaInv'
<1> DEFINE rec == Next1(s, o)
<1>t. SagaType /\ StoreInv(o)
  BY DEF SagaInv, OrderInv
<1>1. Took(s, o)
  BY <1>t, TookIs
<1>2. rec \in Range(topic[s[2]][o])
  BY <1>t, <1>1, NextRecord DEF Took
<1>3. CASE rec.id \in inbox[s][o]
  <2>1. UNCHANGED <<inbox, topic, orders, payments, view, warned>>
    BY <1>3 DEF Consume
  <2> QED  BY <1>1, <2>1, DuplicateKeeps
<1>4. CASE rec.id \notin inbox[s][o]
  <2>1. Handler(s, o, rec)
    BY <1>4 DEF Consume
  <2>2. CASE s = Creating
    <3>1. Create(o, rec)
      BY <2>1, <2>2 DEF Handler, Creating
    <3> QED  BY <1>1, <2>2, <3>1, CreateKeeps
  <2>3. CASE s = Paying
    <3>1. rec \in Range(topic[OE][o])
      BY <1>2, <2>3, Subscribed
    <3>2. CASE rec = Created(orders[o])
      <4>1. rec.id = 1 /\ rec.type = "OrderCreated"
        BY <3>2, EventFields
      <4>2. Process(o, rec)
        BY <2>1, <2>3, <4>1 DEF Handler, Paying
      <4> QED  BY <1>1, <1>4, <2>3, <3>2, <4>1, <4>2, ProcessKeeps
    <3>3. CASE rec = TimedOut
      <4>1. rec.id = 2 /\ rec.type = "OrderPaymentTimedOut"
        BY <3>3, EventFields
      <4>2. UNCHANGED <<topic, orders, payments, view, warned>>
        BY <2>1, <2>3, <4>1 DEF Handler, Paying
      <4> QED  BY SMT, <1>1, <2>3, <4>1, <4>2, SkipKeeps
    <3> QED  BY <1>t, <3>1, <3>2, <3>3, EventRecords
  <2>4. CASE s = Settling
    <3>1. ApplyPaymentOutcome(o, rec)
      BY <2>1, <2>4 DEF Handler, Settling
    <3> QED  BY <1>1, <2>4, <3>1, ApplyPaymentOutcomeKeeps
  <2>5. CASE s = Viewing
    <3>1. rec \in Range(topic[OE][o])
      BY <1>2, <2>5, Subscribed
    <3>2. CASE rec = Created(orders[o])
      <4>1. rec.type = "OrderCreated"
        BY <3>2, EventFields
      <4>2. UpsertOrderCreated(o, rec)
        BY <2>1, <2>5, <4>1 DEF Handler, Viewing
      <4> QED  BY <1>1, <2>5, <3>2, <4>2, UpsertOrderCreatedKeeps
    <3>3. CASE rec = TimedOut
      <4>1. rec.type = "OrderPaymentTimedOut"
        BY <3>3, EventFields
      <4>2. MarkTerminal(o, rec)
        BY <2>1, <2>5, <4>1 DEF Handler, Viewing
      <4> QED  BY <1>1, <2>5, <3>3, <4>2, MarkTerminalKeeps
    <3> QED  BY <1>t, <3>1, <3>2, <3>3, EventRecords
  <2>6. CASE s = ViewingPayments
    <3>1. rec \in Range(topic[PE][o])
      BY <1>2, <2>6, Subscribed
    <3>2. rec.type # "OrderCreated"
      BY <1>t, <3>1, EventRecords, EventFields
    <3>3. MarkTerminal(o, rec)
      BY <2>1, <2>6, <3>2 DEF Handler, ViewingPayments
    <3> QED  BY <1>1, <2>6, <3>3, MarkTerminalKeeps, DistinctSubscriptions
  <2> QED  BY <2>2, <2>3, <2>4, <2>5, <2>6, Subscribed
<1> QED  BY <1>3, <1>4

-----------------------------------------------------------------------------
(* The watcher claims an order that is still unpaid.                       *)

LEMMA EmitPaymentTimeoutKeeps ==
    ASSUME SagaInv, NEW w \in Watchers, NEW o \in Orders, EmitPaymentTimeout(w, o)
    PROVE  SagaInv'
<1>t. SagaType /\ OrderInv(o) /\ StoreInv(o) /\ InboxInv(o) /\ ViewInv(o)
  BY DEF SagaInv, OrderInv
<1>1. UNCHANGED <<req, pos, inbox, payments, view, warned, dlt>>
  BY DEF EmitPaymentTimeout
<1>2. CASE ~MarkTimeoutEmitted(o)
  <2>1. UNCHANGED <<orders, topic>>
    BY <1>2 DEF EmitPaymentTimeout
  <2> QED  BY <1>1, <2>1, ClockKeeps
<1>3. CASE MarkTimeoutEmitted(o)
  <2> DEFINE row == orders[o]
             late == [row EXCEPT !.status = "payment_timeout"]
  <2>1. /\ row.status = "created" /\ orders' = [orders EXCEPT ![o] = late]
        /\ Enqueue(OE, o, "OrderPaymentTimedOut", 0)
    BY <1>3 DEF EmitPaymentTimeout, MarkTimeoutEmitted, OE
  <2>2. late \in Rows /\ late.status = "payment_timeout" /\ late.amount = row.amount
    BY <1>t DEF SagaType, Rows, Statuses, Terminal
  <2>3. TimedOut \in Records /\ Sent(OE, o, TimedOut)
    <3>1. FreshId(OE, o) = 2
      BY <1>t, <2>1, FreshIds
    <3>2. TimedOut \in Records
      BY DEF TimedOut, Records, Types
    <3>3. Sent(OE, o, TimedOut)
      BY <2>1, <3>1 DEF Enqueue, Sent, TimedOut
    <3> QED  BY <3>2, <3>3
  <2> HIDE DEF late
  <2>4. Longer(OE, o, TimedOut)
    BY <1>t, <2>3, SentIs, TopicNames
  <2>5. Grown
    BY <2>4, LongerGrown, TopicNames
  <2>6. /\ orders' \in [Orders -> Rows] /\ orders'[o] = late
        /\ \A x \in Orders \ {o} : orders'[x] = orders[x]
    BY <1>t, <2>1, <2>2 DEF SagaType
  <2>7. SagaType'
    BY <1>t, <1>1, <2>4, <2>6 DEF SagaType, Longer
  <2>8. /\ Range(topic'[OE][o]) = Range(topic[OE][o]) \cup {TimedOut}
        /\ topic'[PE][o] = topic[PE][o] /\ topic'[OC][o] = topic[OC][o]
    BY <2>4, TopicNames DEF Longer
  <2>9. Created(late) = Created(row) /\ Paid(late) = Paid(row) /\ Result(late) = Result(row)
    BY <2>2 DEF Created, Paid, Result
  <2>10. OrderEvents(late) = OrderEvents(row) \cup {TimedOut}
    BY <2>1, <2>2, <2>9 DEF OrderEvents
  <2>11. StoreInv(o)'
    BY <1>t, <1>1, <2>1, <2>2, <2>6, <2>8, <2>9, <2>10 DEF StoreInv
  <2>12. ViewInv(o)'
    BY <1>t, <1>1, <2>1, <2>2, <2>6, <2>8, <2>9 DEF ViewInv
  <2>13. InboxInv(o)'
    <3>1. 1 \notin inbox[Settling][o]
      BY <1>t, <2>1 DEF InboxInv, Terminal
    <3>2. \A s \in Subscriptions :
            inbox'[s][o] \subseteq {rec.id : rec \in Range(topic'[s[2]][o])}
      BY <1>t, <1>1, <2>5, TopicOf DEF InboxInv, Grown
    <3> QED  BY <1>t, <1>1, <2>2, <2>6, <3>1, <3>2 DEF InboxInv
  <2>14. ASSUME NEW s \in Subscriptions PROVE Delivered(s, o)'
    <3>1. Delivered(s, o) /\ s[2] \in Topics
      BY <1>t, TopicOf DEF OrderInv
    <3>2. topic'[s[2]][o] = topic[s[2]][o] \/ topic'[s[2]][o] = Append(topic[s[2]][o], TimedOut)
      BY <2>4, <3>1 DEF Longer
    <3> QED  BY <1>t, <1>1, <3>1, <3>2, DeliveredKeeps
  <2>15. OrderInv(o)'
    BY <2>11, <2>12, <2>13, <2>14 DEF OrderInv
  <2>16. ASSUME NEW x \in Orders \ {o} PROVE Same(x)
    <3>1. \A t \in Topics : topic'[t][x] = topic[t][x]
      BY <2>4 DEF Longer
    <3> QED  BY <1>1, <2>6, <3>1 DEF Same
  <2>17. ReqInv'
    BY <1>1, <2>5, ReqKept
  <2> QED  BY <1>1, <2>5, <2>7, <2>15, <2>16, <2>17, TouchKeeps
<1> QED  BY <1>2, <1>3

-----------------------------------------------------------------------------
LEMMA SagaInit == Init => SagaInv
<1> SUFFICES ASSUME Init PROVE SagaInv
  OBVIOUS
<1>1. NoRow \in Rows /\ NoRow.status = "none"
  BY DEF NoRow, Rows, Statuses
<1>2. SagaType
  <2>1. req \in [Requests -> Progress]
    BY DEF Init, Progress
  <2>2. /\ topic \in [Topics -> [Orders -> Seq(Records)]]
        /\ payments \in [Orders -> Seq([status : {"processed", "failed"}, amount : Nat])]
    BY SMT DEF Init
  <2> QED  BY <1>1, <2>1, <2>2 DEF Init, SagaType
<1>3. DeadInv /\ ReqInv
  BY DEF Init, DeadInv, ReqInv
<1>4. ASSUME NEW o \in Orders PROVE OrderInv(o)
  <2>1. /\ \A t \in Topics : topic[t][o] = <<>> /\ Range(topic[t][o]) = {}
        /\ orders[o] = NoRow /\ view[o] = NoRow /\ payments[o] = <<>>
        /\ \A s \in Subscriptions : inbox[s][o] = {} /\ pos[s][o] = 0
    BY SMT DEF Init, Range
  <2>2. StoreInv(o)
    <3>1. OrderEvents(NoRow) = {}
      BY <1>1 DEF OrderEvents
    <3>2. Len(payments[o]) <= 1
      BY SMT, <2>1
    <3>3. Range(topic[OE][o]) = {} /\ Range(topic[PE][o]) = {} /\ Range(topic[OC][o]) = {}
      BY <2>1, TopicNames
    <3>4. orders[o].status = "none" /\ OrderEvents(orders[o]) = {} /\ payments[o] = <<>>
      BY <1>1, <2>1, <3>1
    <3> QED  BY <3>2, <3>3, <3>4 DEF StoreInv
  <2>3. InboxInv(o) /\ ViewInv(o)
    BY <1>1, <2>1, Subscribed DEF InboxInv, ViewInv, Terminal
  <2>4. ASSUME NEW s \in Subscriptions PROVE Delivered(s, o)
    BY SMT, <2>1, TopicOf DEF Delivered, Behind
  <2> QED  BY <2>2, <2>3, <2>4 DEF OrderInv
<1> QED  BY <1>2, <1>3, <1>4 DEF SagaInv

LEMMA SagaStep == SagaInv /\ [Next]_vars => SagaInv'
<1> SUFFICES ASSUME SagaInv, [Next]_vars PROVE SagaInv'
  OBVIOUS
<1>1. ASSUME NEW r \in Requests, Server(r) PROVE SagaInv'
  BY <1>1, CheckKeeps, ProduceKeeps, InsertPendingOrderKeeps DEF Server
<1>2. ASSUME NEW s \in Subscriptions, NEW o \in Orders, Consume(s, o) \/ DeadLetter(s, o)
      PROVE  SagaInv'
  BY <1>2, ConsumeKeeps, DeadLetterKeeps
<1>3. ASSUME NEW d \in dlt, Redrive(d) PROVE SagaInv'
  BY <1>3, RedriveKeeps
<1>4. ASSUME NEW o \in Orders, Expire(o) PROVE SagaInv'
  BY <1>4, ClockKeeps DEF Expire
<1>5. ASSUME NEW w \in Watchers, Watch(w) \/ PollFails(w) PROVE SagaInv'
  <2>1. CASE ListUnpaidExpired(w) \/ PollFails(w)
    BY <2>1, ClockKeeps DEF ListUnpaidExpired, PollFails
  <2>2. CASE \E o \in Orders : EmitPaymentTimeout(w, o)
    BY <2>2, EmitPaymentTimeoutKeeps
  <2> QED  BY <1>5, <2>1, <2>2 DEF Watch
<1>6. CASE UNCHANGED vars
  BY <1>6, ClockKeeps DEF vars
<1> QED  BY <1>1, <1>2, <1>3, <1>4, <1>5, <1>6 DEF Next

\* The inductive invariant holds.
LEMMA SagaInvariant == Spec => []SagaInv
  BY SagaInit, SagaStep, PTL DEF Spec

-----------------------------------------------------------------------------
(* Charges, timeouts and the read model.                                   *)

LEMMA RecordAt ==
    ASSUME SagaType, NEW t \in Topics, NEW o \in Orders, NEW k \in DOMAIN topic[t][o]
    PROVE  topic[t][o][k] \in Range(topic[t][o])
  BY DEF Range

\* However often a command or an OrderCreated event is sent, redelivered or
\* redriven, the payments service charges an order at most once and for the
\* amount of its row, and once ApplyPaymentOutcome has seen the outcome of the
\* payment the order has it or the compensation warning was given.
THEOREM ChargedOnce == Spec => []ChargesAccounted
<1>1. ASSUME SagaInv PROVE ChargesAccounted
  <2>1. ASSUME NEW o \in Orders, NEW k \in DOMAIN topic[PE][o],
               topic[PE][o][k].id \in inbox[Settling][o]
        PROVE  LET rec == topic[PE][o][k] IN
               orders[o].status = Outcome(rec) \/ <<o, Outcome(rec)>> \in warned
    <3>1. SagaType /\ StoreInv(o) /\ InboxInv(o)
      BY <1>1 DEF SagaInv, OrderInv
    <3>2. topic[PE][o][k] = Paid(orders[o])
      BY <3>1, RecordAt, EventRecords, TopicNames
    <3>3. 1 \in inbox[Settling][o] /\ Outcome(topic[PE][o][k]) = Result(orders[o])
      BY <2>1, <3>2, EventFields
    <3> QED  BY <3>1, <3>3 DEF InboxInv
  <2>2. \A o \in Orders : StoreInv(o)
    BY <1>1 DEF SagaInv, OrderInv
  <2> QED  BY <2>1, <2>2 DEF ChargesAccounted, StoreInv, PE, Settling
<1> QED  BY <1>1, SagaInvariant, PTL

\* The watchers emit one OrderPaymentTimedOut event for an order whose row says
\* payment_timeout and none for any other, whatever batches they hold: the
\* compare-and-set of MarkPaymentTimeoutEmitted lets one of them through.
THEOREM TimedOutOnce == Spec => []TimeoutExactlyOnce
<1>1. ASSUME SagaInv, NEW o \in Orders
      PROVE  Cardinality(TimeoutIds(o)) = IF orders[o].status = "payment_timeout" THEN 1 ELSE 0
  <2>1. SagaType /\ StoreInv(o)
    BY <1>1 DEF SagaInv, OrderInv
  <2> DEFINE late == {rec \in Range(topic[OE][o]) : rec.type = "OrderPaymentTimedOut"}
  <2>2. TimeoutIds(o) = {rec.id : rec \in late}
    BY DEF TimeoutIds, Range, OE
  <2>3. Created(orders[o]) \notin late
    BY EventFields
  <2>4. CASE orders[o].status = "payment_timeout"
    <3>1. TimedOut \in Range(topic[OE][o])
      BY <2>1, <2>4 DEF StoreInv, OrderEvents
    <3>2. late = {TimedOut}
      BY <2>1, <2>3, <3>1, EventRecords, EventFields
    <3>3. TimeoutIds(o) = {2}
      BY <2>2, <3>2, EventFields
    <3> QED  BY <2>4, <3>3, SingleCount
  <2>5. CASE orders[o].status # "payment_timeout"
    <3>1. late = {}
      BY <2>1, <2>3, <2>5, EventRecords
    <3>2. TimeoutIds(o) = {}
      BY <2>2, <3>1
    <3> QED  BY <2>5, <3>2, EmptyCount
  <2> QED  BY <2>4, <2>5
<1>2. SagaInv => TimeoutExactlyOnce
  BY <1>1 DEF TimeoutExactlyOnce
<1> QED  BY <1>2, SagaInvariant, PTL

\* When an order is drained, every subscription has processed every record.
LEMMA DrainedSeen ==
    ASSUME SagaInv, NEW o \in Orders, Drained(o), NEW s \in Subscriptions,
           NEW rec \in Range(topic[s[2]][o])
    PROVE  rec.id \in inbox[s][o]
<1> DEFINE q == topic[s[2]][o]
<1>1. q \in Seq(Records) /\ Behind(q, pos[s][o], inbox[s][o], dlt, s[2], o)
  BY TopicOf DEF SagaInv, SagaType, OrderInv, Delivered
<1>2. pos[s][o] = Len(q) /\ \A d \in dlt : d[2] # o
  BY DEF Drained
<1> HIDE DEF q
<1>3. PICK k \in 1..Len(q) : q[k] = rec
  BY SMT, <1>1, InRange DEF q
<1>4. <<s[2], o, rec>> \notin dlt
  BY <1>2
<1>5. Len(q) \in Nat
  BY SMT, <1>1
<1> QED  BY SMT, <1>1, <1>2, <1>3, <1>4, <1>5 DEF Behind

\* A drained order is settled in both stores.
LEMMA DrainedSettled ==
    ASSUME SagaInv, NEW o \in Orders, Drained(o), topic[OC][o] # <<>>
    PROVE  1 \in inbox[Settling][o] /\ 1 \in inbox[ViewingPayments][o]
<1>t. SagaType /\ StoreInv(o) /\ InboxInv(o)
  BY DEF SagaInv, OrderInv
<1>1. orders[o].status # "none"
  <2>1. topic[OC][o] \in Seq(Records)
    BY <1>t, TopicNames DEF SagaType
  <2>2. PICK rec \in Range(topic[OC][o]) : TRUE
    BY SMT, <2>1, InRange
  <2>3. rec.id \in inbox[Creating][o]
    BY DrainedSeen, Subscribed
  <2> QED  BY <1>t, <2>3 DEF StoreInv, InboxInv
<1>2. payments[o] # <<>>
  <2>1. Created(orders[o]) \in Range(topic[OE][o])
    BY <1>t, <1>1 DEF StoreInv, OrderEvents
  <2>2. Created(orders[o]).id \in inbox[Paying][o]
    BY <2>1, DrainedSeen, Subscribed
  <2> QED  BY <1>t, <2>2, EventFields DEF InboxInv
<1>3. Paid(orders[o]) \in Range(topic[PE][o])
  BY <1>t, <1>2 DEF StoreInv
<1>4. Paid(orders[o]).id \in inbox[Settling][o] /\ Paid(orders[o]).id \in inbox[ViewingPayments][o]
  BY <1>3, DrainedSeen, Subscribed
<1> QED  BY <1>4, EventFields

\* The read model never invents anything: after OrderCreated it shows the
\* amount of the order that exists, and where the settled stores disagree the
\* order timed out while its payment was under way and the read model shows the
\* outcome orders warned about.
THEOREM ReadModelIsTrue == Spec => []ViewIsTrue
<1>1. ASSUME SagaInv, NEW o \in Orders, NEW k \in DOMAIN topic[OE][o],
             topic[OE][o][k].type = "OrderCreated", topic[OE][o][k].id \in inbox[Viewing][o]
      PROVE  view[o].amount = orders[o].amount
  <2>1. SagaType /\ StoreInv(o) /\ ViewInv(o)
    BY <1>1 DEF SagaInv, OrderInv
  <2>2. topic[OE][o][k] \in Range(topic[OE][o])
    BY <2>1, RecordAt, TopicNames
  <2>3. topic[OE][o][k] = Created(orders[o])
    BY <1>1, <2>1, <2>2, EventRecords, EventFields
  <2> QED  BY <1>1, <2>1, <2>3, EventFields DEF ViewInv
<1>2. ASSUME SagaInv, NEW o \in Orders, Drained(o), view[o].status # orders[o].status
      PROVE  orders[o].status = "payment_timeout" /\ <<o, view[o].status>> \in warned
  <2>1. SagaType /\ StoreInv(o) /\ InboxInv(o) /\ ViewInv(o)
    BY <1>2 DEF SagaInv, OrderInv
  <2>2. topic[OC][o] # <<>>
    BY <1>2, <2>1 DEF ViewInv
  <2>3. 1 \in inbox[Settling][o] /\ 1 \in inbox[ViewingPayments][o]
    BY <1>2, <2>2, DrainedSettled
  <2>4. /\ orders[o].status \in Terminal /\ view[o].status \in Terminal
        /\ orders[o].status = Result(orders[o]) \/ <<o, Result(orders[o])>> \in warned
    BY <2>1, <2>3 DEF InboxInv, ViewInv
  <2>5. Result(orders[o]) \in {"paid", "payment_failed"}
    BY EventFields
  <2>6. view[o].status = "payment_timeout" => orders[o].status = "payment_timeout"
    BY <2>1 DEF ViewInv
  <2>7. view[o].status \in {"paid", "payment_failed"} => view[o].status = Result(orders[o])
    BY <2>1 DEF ViewInv
  <2>8. orders[o].status \in {"paid", "payment_failed"} => orders[o].status = Result(orders[o])
    BY <2>1 DEF StoreInv
  <2> QED  BY SMT, <1>2, <2>4, <2>5, <2>6, <2>7, <2>8 DEF Terminal
<1>3. SagaInv => ViewIsTrue
  BY <1>1, <1>2 DEF ViewIsTrue, OE, Viewing
<1> QED  BY <1>3, SagaInvariant, PTL

-----------------------------------------------------------------------------
(* The first outcome wins.                                                 *)

\* What FirstOutcomeWins allows a step to do to an order's rows.
Forward(o) ==
    /\ orders[o].status \in Terminal => orders'[o].status = orders[o].status
    /\ view[o].status \in Terminal => view'[o].status = view[o].status
    /\ Rank(view'[o].status) >= Rank(view[o].status)

LEMMA Ranks ==
    /\ Rank("none") = 0 /\ Rank("pending") = 1 /\ Rank("created") = 2
    /\ \A status \in Terminal : Rank(status) = 3
    /\ \A status \in Statuses : Rank(status) \in 0..3
  BY SMT DEF Rank, Terminal, Statuses

LEMMA UnmovedForward ==
    ASSUME SagaType, NEW o \in Orders, orders'[o] = orders[o], view'[o] = view[o]
    PROVE  Forward(o)
<1>1. view[o].status \in Statuses
  BY DEF SagaType, Rows
<1>2. Rank(view[o].status) \in 0..3
  BY <1>1, Ranks
<1> QED  BY SMT, <1>2 DEF Forward

LEMMA OrderForward ==
    ASSUME SagaType, NEW o \in Orders, orders[o].status \notin Terminal, view'[o] = view[o]
    PROVE  Forward(o)
<1>1. view[o].status \in Statuses
  BY DEF SagaType, Rows
<1>2. Rank(view[o].status) \in 0..3
  BY <1>1, Ranks
<1> QED  BY SMT, <1>2 DEF Forward

LEMMA ViewForward ==
    ASSUME SagaType, NEW o \in Orders, orders'[o] = orders[o],
           \/ view'[o].status = view[o].status
           \/ view[o].status \notin Terminal /\ view'[o].status \in {"created"} \cup Terminal
           \/ view[o].status = "none" /\ view'[o].status = "pending"
    PROVE  Forward(o)
<1>1. view[o].status \in Statuses
  BY DEF SagaType, Rows
<1>2. Rank(view[o].status) \in 0..3
  BY <1>1, Ranks
<1>3. CASE view'[o].status = view[o].status
  BY SMT, <1>2, <1>3 DEF Forward
<1>4. CASE view[o].status \notin Terminal /\ view'[o].status \in {"created"} \cup Terminal
  <2>1. Rank(view[o].status) <= 2
    BY SMT, <1>1, <1>4, Ranks DEF Statuses
  <2>2. Rank(view'[o].status) \in {2, 3}
    BY <1>4, Ranks
  <2>3. Rank(view'[o].status) >= Rank(view[o].status)
    BY SMT, <1>2, <2>1, <2>2
  <2> QED  BY <1>4, <2>3 DEF Forward
<1>5. CASE view[o].status = "none" /\ view'[o].status = "pending"
  <2>1. Rank(view'[o].status) >= Rank(view[o].status)
    BY SMT, <1>5, Ranks
  <2> QED  BY <1>5, <2>1 DEF Forward, Terminal
<1> QED  BY <1>3, <1>4, <1>5

LEMMA InsertForward ==
    ASSUME SagaType, NEW r \in Requests, InsertPendingOrder(r), NEW o \in Orders
    PROVE  Forward(o)
<1>1. /\ UNCHANGED orders
      /\ \/ /\ view[Post[r].order] = NoRow
            /\ view' = [view EXCEPT ![Post[r].order] =
                          [status |-> "pending", amount |-> Post[r].amount]]
         \/ UNCHANGED view
  BY DEF InsertPendingOrder
<1>2. view'[o] = view[o] \/ (view[o].status = "none" /\ view'[o].status = "pending")
  BY SMT, <1>1 DEF SagaType, NoRow
<1> QED  BY <1>1, <1>2, ViewForward

LEMMA EmitForward ==
    ASSUME SagaType, NEW w \in Watchers, NEW x \in Orders, EmitPaymentTimeout(w, x), NEW o \in Orders
    PROVE  Forward(o)
<1>1. /\ UNCHANGED view
      /\ \/ UNCHANGED orders
         \/ /\ orders[x].status = "created"
            /\ orders' = [orders EXCEPT ![x].status = "payment_timeout"]
  BY DEF EmitPaymentTimeout, MarkTimeoutEmitted
<1>2. orders'[o] = orders[o] \/ orders[o].status = "created"
  BY <1>1 DEF SagaType
<1>3. "created" \notin Terminal
  BY DEF Terminal
<1> QED  BY <1>1, <1>2, <1>3, UnmovedForward, OrderForward

LEMMA HandlerForward ==
    ASSUME SagaInv, NEW s \in Subscriptions, NEW x \in Orders, HasNext(s, x),
           Handler(s, x, Next1(s, x)), NEW o \in Orders
    PROVE  Forward(o)
<1> DEFINE rec == Next1(s, x)
<1>t. SagaType /\ StoreInv(x)
  BY DEF SagaInv, OrderInv
<1>1. rec \in Range(topic[s[2]][x])
  BY <1>t, NextRecord
<1>2. CASE s = Creating
  <2>1. Create(x, rec)
    BY <1>2 DEF Handler, Creating
  <2>2. /\ orders[x].status = "none" /\ UNCHANGED view
        /\ orders' = [orders EXCEPT ![x] = [status |-> "created", amount |-> rec.amount]]
    BY <2>1 DEF Create
  <2>3. orders'[o] = orders[o] \/ orders[o].status \notin Terminal
    BY <1>t, <2>2 DEF SagaType, Terminal
  <2> QED  BY <1>t, <2>2, <2>3, UnmovedForward, OrderForward
<1>3. CASE s = Settling
  <2>1. ApplyPaymentOutcome(x, rec)
    BY <1>3 DEF Handler, Settling
  <2>2. /\ UNCHANGED view
        /\ \/ orders[x].status = "created" /\ orders' = [orders EXCEPT ![x].status = Outcome(rec)]
           \/ UNCHANGED orders
    BY <2>1 DEF ApplyPaymentOutcome
  <2>3. orders'[o] = orders[o] \/ orders[o].status \notin Terminal
    BY <1>t, <2>2 DEF SagaType, Terminal
  <2> QED  BY <1>t, <2>2, <2>3, UnmovedForward, OrderForward
<1>4. CASE s = Paying
  <2>1. UNCHANGED <<orders, view>>
    BY <1>4 DEF Handler, Paying, Process
  <2> QED  BY <1>t, <2>1, UnmovedForward
<1>5. CASE s \in {Viewing, ViewingPayments}
  <2>1. CASE rec.type = "OrderCreated"
    <3>1. UpsertOrderCreated(x, rec)
      BY SMT, <1>5, <2>1 DEF Handler, Viewing, ViewingPayments
    <3>2. /\ UNCHANGED orders
          /\ view' = [view EXCEPT ![x] =
               [status |-> IF @.status \in Terminal THEN @.status ELSE "created",
                amount |-> rec.amount]]
      BY <3>1 DEF UpsertOrderCreated
    <3>3. \/ view'[o].status = view[o].status
          \/ view[o].status \notin Terminal /\ view'[o].status \in {"created"} \cup Terminal
      BY <1>t, <3>2 DEF SagaType
    <3> QED  BY <1>t, <3>2, <3>3, ViewForward
  <2>2. CASE rec.type # "OrderCreated"
    <3>1. MarkTerminal(x, rec)
      BY SMT, <1>5, <2>2 DEF Handler, Viewing, ViewingPayments
    <3>2. /\ UNCHANGED orders
          /\ view' = IF view[x].status \in Terminal THEN view
                     ELSE [view EXCEPT ![x].status = Outcome(rec)]
      BY <3>1 DEF MarkTerminal
    <3>3. Outcome(rec) \in Terminal
      <4>1. rec \in Range(topic[OE][x]) \/ rec \in Range(topic[PE][x])
        BY <1>1, <1>5, Subscribed
      <4>2. rec = TimedOut \/ rec = Paid(orders[x])
        BY SMT, <1>t, <2>2, <4>1, EventRecords, EventFields
      <4> QED  BY <4>2, EventFields DEF Terminal
    <3>4. \/ view'[o].status = view[o].status
          \/ view[o].status \notin Terminal /\ view'[o].status \in Terminal
      <4>1. view \in [Orders -> Rows] /\ view[x] \in Rows
        BY <1>t DEF SagaType
      <4>2. CASE view[x].status \in Terminal \/ o # x
        BY <3>2, <4>1, <4>2
      <4>3. CASE view[x].status \notin Terminal /\ o = x
        BY <3>2, <3>3, <4>1, <4>3 DEF Rows
      <4> QED  BY <4>2, <4>3
    <3> QED  BY <1>t, <3>2, <3>4, ViewForward
  <2> QED  BY <2>1, <2>2
<1> QED  BY <1>2, <1>3, <1>4, <1>5, Subscribed

\* A terminal status is final in both stores and the read model never moves
\* backwards, whatever arrives late, again or redriven: ApplyPaymentOutcome and
\* the watcher write a created row only, the projection keeps a terminal one.
THEOREM OutcomeIsFinal == Spec => FirstOutcomeWins
<1>1. ASSUME SagaInv, [Next]_vars, NEW o \in Orders PROVE Forward(o)
  <2>t. SagaType
    BY <1>1 DEF SagaInv
  <2>1. CASE UNCHANGED <<orders, view>>
    BY <2>t, <2>1, UnmovedForward
  <2>2. ASSUME NEW r \in Requests, Server(r) PROVE Forward(o)
    <3>1. CASE Check(r) \/ Produce(r)
      BY <2>1, <3>1 DEF Check, Produce
    <3> QED  BY <2>t, <2>2, <3>1, InsertForward DEF Server
  <2>3. ASSUME NEW s \in Subscriptions, NEW x \in Orders, Consume(s, x) PROVE Forward(o)
    <3>1. CASE Next1(s, x).id \in inbox[s][x]
      BY <2>1, <2>3, <3>1 DEF Consume
    <3>2. CASE Next1(s, x).id \notin inbox[s][x]
      <4>1. HasNext(s, x) /\ Handler(s, x, Next1(s, x))
        BY <2>3, <3>2 DEF Consume
      <4> QED  BY <1>1, <4>1, HandlerForward
    <3> QED  BY <3>1, <3>2
  <2>4. ASSUME NEW s \in Subscriptions, NEW x \in Orders, DeadLetter(s, x) PROVE Forward(o)
    BY <2>1, <2>4 DEF DeadLetter
  <2>5. ASSUME NEW d \in dlt, Redrive(d) PROVE Forward(o)
    BY <2>1, <2>5 DEF Redrive
  <2>6. ASSUME NEW x \in Orders, Expire(x) PROVE Forward(o)
    BY <2>1, <2>6 DEF Expire
  <2>7. ASSUME NEW w \in Watchers, Watch(w) \/ PollFails(w) PROVE Forward(o)
    <3>1. CASE ListUnpaidExpired(w) \/ PollFails(w)
      BY <2>1, <3>1 DEF ListUnpaidExpired, PollFails
    <3> QED  BY <2>t, <2>7, <3>1, EmitForward DEF Watch
  <2>8. CASE UNCHANGED vars
    BY <2>1, <2>8 DEF vars
  <2> QED  BY <1>1, <2>2, <2>3, <2>4, <2>5, <2>6, <2>7, <2>8 DEF Next
<1>2. SagaInv /\ [Next]_vars =>
        [\A o \in Orders :
            /\ orders[o].status \in Terminal => orders'[o].status = orders[o].status
            /\ view[o].status \in Terminal => view'[o].status = view[o].status
            /\ Rank(view'[o].status) >= Rank(view[o].status)]_vars
  BY <1>1 DEF Forward
<1> QED  BY <1>2, SagaInvariant, PTL DEF Spec, FirstOutcomeWins
==============================================================================
