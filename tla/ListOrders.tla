------------------------------ MODULE ListOrders ------------------------------
(* The gateway's order list: keyset pages over every shard, merged by         *)
(* (created_at, order_id) descending, with one position per shard in the      *)
(* cursor. A row is its rank in that order. A client walks from the first     *)
(* page to the last with a limit of its choice, while rows are inserted and   *)
(* shards may be added; listSingleShard is the case of one shard.             *)
EXTENDS Integers, Sequences, FiniteSets

CONSTANTS
  Ranks,             \* the rows there may be: 1..R, newest highest
  Limits,            \* what clients ask for
  DefaultPageLimit, MaxPageLimit,
  Shards(_),         \* number of shards -> how a rank is routed: rank -> shard
  Counts             \* the shard counts a deployment goes through, ascending

VARIABLES
  rows,    \* ranks in the read model
  old,     \* those there when the walk began
  n,       \* number of shards
  pc,      \* "idle", "query", "merge" or "done"
  cursor,  \* the client's: None or [n, pos]
  limit,
  pos,     \* shard -> incoming position
  per,     \* shard -> rows fetched and not merged yet, or Pending
  next,    \* shard -> nextPos
  page,    \* emitted
  walked   \* what the client got in earlier pages

vars == <<rows, old, n, pc, cursor, limit, pos, per, next, page, walked>>

None == [n |-> 0, pos |-> <<>>]
Pending == <<0>>
Infinity == Cardinality(Ranks) + 1
startPos(k) == [i \in 1..k |-> Infinity]

TypeOK ==
  /\ rows \subseteq Ranks /\ old \subseteq rows /\ n \in Counts
  /\ pc \in {"idle", "query", "merge", "done"}
  /\ limit \in 1..MaxPageLimit /\ Len(page) <= limit
  /\ \A i \in DOMAIN next : next[i] \in 1..Infinity /\ next[i] <= pos[i]
  /\ \A i \in DOMAIN per : Len(per[i]) <= MaxPageLimit

Start ==
  /\ pc = "idle" /\ cursor = None /\ limit = MaxPageLimit
  /\ pos = <<>> /\ per = <<>> /\ next = <<>> /\ page = <<>> /\ walked = <<>>

Init ==
  /\ rows \in SUBSET Ranks /\ old = rows
  /\ n \in Counts
  /\ Start

--------------------------------------------------------------------------------
clampLimit(l) == IF l <= 0 THEN DefaultPageLimit ELSE IF l > MaxPageLimit THEN MaxPageLimit ELSE l

\* decodeCursor and decodeMultiCursor: a cursor is good for the shard count it
\* was made with.
Decodable(c) == c = None \/ c.n = n

Request(l) ==
  /\ pc = "idle" /\ Decodable(cursor)
  /\ limit' = clampLimit(l)
  /\ pos' = IF cursor = None THEN startPos(n) ELSE [i \in 1..n |-> cursor.pos[i]]
  /\ next' = pos'
  /\ per' = [i \in 1..n |-> Pending]
  /\ pc' = "query"
  /\ UNCHANGED <<rows, old, n, cursor, page, walked>>

\* ErrInvalidCursor: the client starts over.
InvalidCursor ==
  /\ pc = "idle" /\ ~Decodable(cursor)
  /\ cursor' = None /\ walked' = <<>> /\ old' = rows
  /\ UNCHANGED <<rows, n, pc, limit, pos, per, next, page>>

Descending(S) == [j \in 1..Cardinality(S) |-> CHOOSE r \in S : Cardinality({q \in S : q >= r}) = j]

\* The keyset predicate of ListOrders and ListOrdersByCustomer.
Qualifies(r, p) == r < p

\* queryShardPage on one shard; the shards are read one by one.
queryShardPage(i) ==
  LET found == Descending({r \in rows : Shards(n)[r] = i /\ Qualifies(r, pos[i])}) IN
  /\ pc = "query" /\ per[i] = Pending
  /\ per' = [per EXCEPT ![i] = SubSeq(found, 1, IF Len(found) < limit THEN Len(found) ELSE limit)]
  /\ pc' = IF \A j \in 1..n : j = i \/ per[j] # Pending THEN "merge" ELSE "query"
  /\ UNCHANGED <<rows, old, n, cursor, limit, pos, next, page, walked>>

\* A shard fails: no page, and the client asks again.
FanOutFails ==
  /\ pc = "query"
  /\ pc' = "idle" /\ pos' = <<>> /\ per' = <<>> /\ next' = <<>>
  /\ UNCHANGED <<rows, old, n, cursor, limit, page, walked>>

rowBefore(a, b) == a > b

Undrained == {i \in 1..n : per[i] # <<>>}
Best == CHOOSE i \in Undrained :
          \A j \in Undrained : i = j \/ rowBefore(Head(per[i]), Head(per[j]))

\* Plausible slip: the cursor moves to the end of what was fetched.
AdvancedToFetched(i) == per[i][Len(per[i])]
Advanced(i) == Head(per[i])

\* One turn of the k-way merge.
Take ==
  /\ pc = "merge" /\ Len(page) < limit /\ Undrained # {}
  /\ page' = Append(page, Head(per[Best]))
  /\ next' = [next EXCEPT ![Best] = Advanced(Best)]
  /\ per' = [per EXCEPT ![Best] = Tail(@)]
  /\ UNCHANGED <<rows, old, n, pc, cursor, limit, pos, walked>>

\* The page; a short one is the last.
Reply ==
  /\ pc = "merge" /\ (Len(page) = limit \/ Undrained = {})
  /\ walked' = walked \o page
  /\ IF Len(page) = limit
     THEN cursor' = [n |-> n, pos |-> next] /\ pc' = "idle"
     ELSE cursor' = None /\ pc' = "done"
  /\ page' = <<>> /\ pos' = <<>> /\ per' = <<>> /\ next' = <<>>
  /\ UNCHANGED <<rows, old, n, limit>>

--------------------------------------------------------------------------------
\* The projection inserts a row; created_at is the order's, so it may be old.
Insert(r) ==
  /\ r \notin rows /\ pc # "done"
  /\ rows' = rows \cup {r}
  /\ UNCHANGED <<old, n, pc, cursor, limit, pos, per, next, page, walked>>

\* A deployment with more shards; requests in flight end with the old one.
Rescale ==
  /\ pc = "idle"
  /\ \E k \in Counts : k > n /\ n' = k
  /\ UNCHANGED <<rows, old, pc, cursor, limit, pos, per, next, page, walked>>

Next ==
  \/ \E l \in Limits : Request(l)
  \/ \E i \in 1..n : queryShardPage(i)
  \/ \E r \in Ranks : Insert(r)
  \/ InvalidCursor \/ FanOutFails \/ Take \/ Reply \/ Rescale

--------------------------------------------------------------------------------
Got == walked \o page
Has(s, r) == \E j \in 1..Len(s) : s[j] = r

\* No row comes twice in a walk (listScatterGather: "no duplicates").
NoDuplicates == \A j, k \in 1..Len(Got) : Got[j] = Got[k] => j = k

\* The rows that were there when the walk began come newest first, across pages.
OldInOrder ==
  \A j, k \in 1..Len(Got) : j < k /\ Got[j] \in old /\ Got[k] \in old => Got[j] > Got[k]

\* A walk to its end shows every row that was there when it began.
NothingSkipped == pc = "done" => \A r \in old : Has(walked, r)
================================================================================
