------------------------------ MODULE LedgerStore ------------------------------
(* ledger.MemStore, the store's contract: a posting is applied whole or not at *)
(* all, once per idempotency key, to registered accounts of its assets.        *)
EXTENDS Integers, Sequences, FiniteSets, FiniteSetsExt

CONSTANTS
  Accounts,    \* account ids
  Postings,
  AssetOf,     \* account -> asset
  Normal,      \* account -> "debit" or "credit"
  KeyOf,       \* posting -> idempotency key
  Legs         \* posting -> sequence of [account, direction, amount, asset]

VARIABLES
  accounts,    \* registered ids
  book         \* applied postings, in order: [post, legs], legs the indices written

store == <<accounts, book>>

Whole(p) == [post |-> p, legs |-> DOMAIN Legs[p]]
seen == {KeyOf[book[i].post] : i \in DOMAIN book}

Init == accounts = {} /\ book = <<>>

\* A known id is refused here and ignored by PgStore: no change in either.
RegisterAccount(a) ==
  /\ accounts' = accounts \cup {a}
  /\ UNCHANGED book

--------------------------------------------------------------------------------
Signed(l) == IF l.direction = "credit" THEN -l.amount ELSE l.amount

Net(p, asset) ==
  MapThenSumSet(LAMBDA i : Signed(Legs[p][i]), {i \in DOMAIN Legs[p] : Legs[p][i].asset = asset})

\* Plausible slip: the assets are netted together.
ValidateTotal(p) ==
  /\ Legs[p] # <<>>
  /\ \A i \in DOMAIN Legs[p] : Legs[p][i].amount > 0
  /\ MapThenSumSet(LAMBDA i : Signed(Legs[p][i]), DOMAIN Legs[p]) = 0

\* Posting.Validate; the key is never empty here.
Validate(p) ==
  /\ Legs[p] # <<>>
  /\ \A i \in DOMAIN Legs[p] : Legs[p][i].amount > 0 /\ Net(p, Legs[p][i].asset) = 0

Accepts(l) == l.account \in accounts /\ AssetOf[l.account] = l.asset

Post(p) ==
  /\ book' = Append(book, Whole(p)) /\ UNCHANGED accounts
  /\ KeyOf[p] \notin seen
  /\ \A i \in DOMAIN Legs[p] : Accepts(Legs[p][i])
  /\ Validate(p)

Next == (\E a \in Accounts : RegisterAccount(a)) \/ (\E p \in Postings : Post(p))

Spec == Init /\ [][Next]_store

--------------------------------------------------------------------------------
\* An entry of account a counts with its amount on the normal side.
Delta(a, l) == IF l.account # a THEN 0 ELSE IF l.direction = Normal[a] THEN l.amount ELSE -l.amount

Balance(a) ==
  MapThenSumSet(LAMBDA j : MapThenSumSet(LAMBDA i : Delta(a, Legs[book[j].post][i]), book[j].legs),
                DOMAIN book)

DebitSide(a) == IF Normal[a] = "debit" THEN Balance(a) ELSE -Balance(a)

\* In every asset the balances of all accounts, debit side positive, come to
\* zero (Balance over what Post wrote).
TrialBalance ==
  \A asset \in {AssetOf[a] : a \in Accounts} :
    MapThenSumSet(DebitSide, {a \in accounts : AssetOf[a] = asset}) = 0
================================================================================
