--------------------------------- MODULE Ledger ---------------------------------
(* ledger.PgStore inside the caller's transaction (pg.RunInTx): the key row and *)
(* one row per entry are separate statements that become visible together.     *)
(* Postgres at READ COMMITTED: an insert of a key that an open transaction      *)
(* holds waits for that transaction's end.                                     *)
EXTENDS Integers, Sequences

CONSTANTS
  Posters, Accounts, Postings, AssetOf, Normal, KeyOf, Legs,
  MaxTx   \* transactions that insert their key

ASSUME LedgerAssumption ==
  \A p \in Postings : Legs[p] \in Seq([account : Accounts, direction : {"debit", "credit"},
                                       amount : Int, asset : STRING])

VARIABLES
  accounts,  \* ledger_accounts
  txs,       \* ledger_transactions in commit order: [id, post]
  entries,   \* ledger_entries: [id, leg]
  tx,        \* poster -> its open transaction, with leg entries written
  ids        \* uuids handed out

vars == <<accounts, txs, entries, tx, ids>>

NoTx == [pc |-> "idle", post |-> "none", id |-> 0, leg |-> 0]
Pc == {"idle", "key", "legs", "failed"}

TypeOK ==
  /\ accounts \subseteq Accounts
  /\ txs \in Seq([id : Nat, post : Postings])
  /\ entries \subseteq [id : Nat, leg : Nat]
  /\ ids \in Nat
  /\ tx \in [Posters -> [pc : Pc, post : Postings \cup {"none"}, id : Nat, leg : Nat]]

Init ==
  /\ accounts = {} /\ txs = <<>> /\ entries = {} /\ ids = 0
  /\ tx = [w \in Posters |-> NoTx]

\* The contract, at what is committed.
Written(t) == {e.leg : e \in {r \in entries : r.id = t.id}}
Store == INSTANCE LedgerStore WITH
           book <- [i \in DOMAIN txs |-> [post |-> txs[i].post, legs |-> Written(txs[i])]]

RegisterAccount(a) ==
  /\ accounts' = accounts \cup {a}
  /\ UNCHANGED <<txs, entries, tx, ids>>

--------------------------------------------------------------------------------
\* Post is called in a transaction of its own; a bad posting changes nothing.
Begin(w, p) ==
  /\ tx[w].pc = "idle" /\ Store!Validate(p)
  /\ tx' = [tx EXCEPT ![w] = [pc |-> "key", post |-> p, id |-> 0, leg |-> 0]]
  /\ UNCHANGED <<accounts, txs, entries, ids>>

Holds(w) == tx[w].id # 0
Blocked(w) ==
  \E v \in Posters \ {w} : Holds(v) /\ KeyOf[tx[v].post] = KeyOf[tx[w].post]
Posted(k) == \E i \in DOMAIN txs : KeyOf[txs[i].post] = k

\* insert into ledger_transactions ... on conflict do nothing: the key is new.
InsertKey(w) ==
  /\ tx[w].pc = "key" /\ ~Blocked(w) /\ ~Posted(KeyOf[tx[w].post])
  /\ ids < MaxTx /\ ids' = ids + 1
  /\ tx' = [tx EXCEPT ![w].pc = "legs", ![w].id = ids + 1]
  /\ UNCHANGED <<accounts, txs, entries>>

\* Plausible slip: the number of inserted rows is not looked at.
AlreadyPostedIgnored(w) ==
  /\ tx[w].pc = "key" /\ ~Blocked(w) /\ Posted(KeyOf[tx[w].post])
  /\ ids < MaxTx /\ ids' = ids + 1
  /\ tx' = [tx EXCEPT ![w].pc = "legs", ![w].id = ids + 1]
  /\ UNCHANGED <<accounts, txs, entries>>

\* No row was inserted: Post returns, and the transaction commits as it is.
AlreadyPosted(w) ==
  /\ tx[w].pc = "key" /\ ~Blocked(w) /\ Posted(KeyOf[tx[w].post])
  /\ tx' = [tx EXCEPT ![w] = NoTx]
  /\ UNCHANGED <<accounts, txs, entries, ids>>

NextLeg(w) == Legs[tx[w].post][tx[w].leg + 1]
LegsDone(w) == tx[w].leg = Len(Legs[tx[w].post])

\* The account is looked up and the entry inserted.
InsertEntry(w) ==
  /\ tx[w].pc = "legs" /\ ~LegsDone(w) /\ Store!Accepts(NextLeg(w))
  /\ tx' = [tx EXCEPT ![w].leg = @ + 1]
  /\ UNCHANGED <<accounts, txs, entries, ids>>

\* ErrUnknownAccount and ErrAccountAssetMismatch.
Refuse(w) ==
  /\ tx[w].pc = "legs" /\ ~LegsDone(w) /\ ~Store!Accepts(NextLeg(w))
  /\ tx' = [tx EXCEPT ![w].pc = "failed"]
  /\ UNCHANGED <<accounts, txs, entries, ids>>

\* The entries the transaction wrote become visible with it.
Wrote(w) == {[id |-> tx[w].id, leg |-> i] : i \in 1..tx[w].leg}

Commit(w) ==
  /\ tx[w].pc = "legs" /\ LegsDone(w)
  /\ txs' = Append(txs, [id |-> tx[w].id, post |-> tx[w].post])
  /\ entries' = entries \cup Wrote(w)
  /\ tx' = [tx EXCEPT ![w] = NoTx]
  /\ UNCHANGED <<accounts, ids>>

\* The caller saw an error, a statement failed or the process died.
Rollback(w) ==
  /\ tx[w].pc # "idle"
  /\ tx' = [tx EXCEPT ![w] = NoTx]
  /\ UNCHANGED <<accounts, txs, entries, ids>>

Step(w) ==
  \/ \E p \in Postings : Begin(w, p)
  \/ InsertKey(w) \/ AlreadyPosted(w) \/ InsertEntry(w) \/ Refuse(w) \/ Commit(w) \/ Rollback(w)

Next == (\E a \in Accounts : RegisterAccount(a)) \/ (\E w \in Posters : Step(w))

Spec == Init /\ [][Next]_vars

--------------------------------------------------------------------------------
\* A committed posting has all of its entries, and a key has one posting
\* (Post: "MUST commit together", "exactly-once").
WholeOnce ==
  /\ \A i \in DOMAIN txs : Written(txs[i]) = DOMAIN Legs[txs[i].post]
  /\ \A i, j \in DOMAIN txs : KeyOf[txs[i].post] = KeyOf[txs[j].post] => i = j

\* No entry is without its transaction row.
NoStray == \A e \in entries : \E i \in DOMAIN txs : txs[i].id = e.id

\* PgStore implements MemStore.
ImplementsStore == Store!Spec
================================================================================
