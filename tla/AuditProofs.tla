------------------------------ MODULE AuditProofs ------------------------------
(***************************************************************************)
(* The audit log for any number of commands, drainers, batches and          *)
(* rollbacks: one unbroken chain, every committed command on it or waiting  *)
(* exactly once and in commit order, and an exact VerifyChain walk.         *)
(***************************************************************************)
EXTENDS AuditChain, TLAPS

\* The default prover; the leaves that need arithmetic or sequences name SMT.
USE Zenon

Hashes == Seq(Cmds \X Nat)
LogRows == [cmd : Cmds, at : Nat, prev : Hashes, hash : Hashes]
PendRows == [id : Nat, cmd : Durable, at : Nat]
Drains == [at : {"idle", "claim", "claimed", "locked"}, ids : SUBSET Nat, claimed : Seq(PendRows)]

ChainType ==
    /\ rows \in Seq(LogRows) /\ head \in Hashes /\ prev \in Hashes
    /\ cmd \in [Cmds -> {"new", "locked", "staged", "committed", "rolledback"}]
    /\ pending \subseteq PendRows /\ IsFiniteSet(pending) /\ visible \subseteq Nat /\ nextId \in Nat
    /\ staged \in [Cmds -> PendRows \cup {NoRow}]
    /\ drain \in [Drainers -> Drains]
    /\ clock \in Nat

\* The lock holder has read the head, and nobody else is inside the chain.
LockInv ==
    /\ lock # NoTx => prev = head
    /\ \A c \in Cmds : cmd[c] = "locked" => lock = c /\ c \notin Durable
    /\ \A d \in Drainers : drain[d].at = "locked" => lock = d

\* Each committed command has one row, on the chain or waiting.
OnceInv ==
    /\ \A k, l \in DOMAIN rows : rows[k].cmd = rows[l].cmd => k = l
    /\ \A k \in DOMAIN rows : cmd[rows[k].cmd] = "committed"
    /\ \A p \in pending :
         cmd[p.cmd] = "committed" /\ \A k \in DOMAIN rows : rows[k].cmd # p.cmd
    /\ \A p, q \in pending : p.cmd = q.cmd \/ p.id = q.id => p = q
    /\ \A c \in Cmds : cmd[c] = "committed" =>
         (\E k \in DOMAIN rows : rows[k].cmd = c) \/ (\E p \in pending : p.cmd = c)

\* Ids are handed out once, and an uncommitted row is seen by nobody.
StagedInv ==
    /\ \A c \in Cmds : cmd[c] = "staged" =>
         /\ staged[c] \in PendRows /\ staged[c].cmd = c
         /\ staged[c].id < nextId /\ staged[c].id \notin visible
         /\ \A d \in Drainers : staged[c].id \notin drain[d].ids
         /\ \A p \in pending : /\ p.id # staged[c].id
                               /\ <<p.cmd, c>> \in before => p.id < staged[c].id
         /\ \A b \in Cmds : cmd[b] = "staged" /\ staged[b].id = staged[c].id => b = c
    /\ \A p \in pending : p.id < nextId
    /\ \A i \in visible : i < nextId
    /\ \A d \in Drainers : \A i \in drain[d].ids : i < nextId

\* A claim is a batch of waiting rows, in the order of their ids, that no
\* other drainer holds.
ClaimInv ==
    /\ \A d \in Drainers :
         /\ Range(drain[d].claimed) \subseteq pending
         /\ drain[d].at \in {"claimed", "locked"} => drain[d].claimed # <<>>
         /\ \A i, j \in DOMAIN drain[d].claimed :
              i < j => drain[d].claimed[i].id < drain[d].claimed[j].id
    /\ \A d, e \in Drainers : d # e => Range(drain[d].claimed) \cap Range(drain[e].claimed) = {}

\* p waits, and was over when q began: whoever has picked up q has p as well.
Together(p, q) ==
    <<p.cmd, q.cmd>> \in before =>
        /\ p.id < q.id
        /\ q.id \in visible => p.id \in visible
        /\ \A d \in Drainers :
             /\ q.id \in drain[d].ids => p.id \in drain[d].ids
             /\ q \in Range(drain[d].claimed) => p \in Range(drain[d].claimed)

OrderInv ==
    /\ \A a, b \in Cmds : <<a, b>> \in before => cmd[a] = "committed" /\ cmd[b] # "new"
    /\ FollowsCommitOrder
    /\ \A p \in pending, k \in DOMAIN rows :
         rows[k].cmd \in Durable => <<p.cmd, rows[k].cmd>> \notin before
    /\ \A p, q \in pending : Together(p, q)

AuditInv ==
    ChainType /\ LockInv /\ ChainIntact /\ OnceInv /\ StagedInv /\ ClaimInv /\ OrderInv

-----------------------------------------------------------------------------
(* Sequences and finite sets.                                              *)

\* What the proofs take from the library: the naturals are well ordered, and
\* finite sets are counted by naturals, subsets by smaller ones. The lemmas
\* have it as a hypothesis; LibraryHolds, at the end, discharges it.
Library ==
    /\ \A T \in SUBSET Nat : T # {} => \E m \in T : \A k \in T : m <= k
    /\ \A S : IsFiniteSet(S) => Cardinality(S) \in Nat
    /\ \A S : IsFiniteSet(S) => \A T \in SUBSET S : Cardinality(T) <= Cardinality(S)

LEMMA Least ==
    ASSUME Library, NEW T \in SUBSET Nat, NEW n \in T
    PROVE  \E m \in T : \A k \in T : m <= k
  BY DEF Library

LEMMA FiniteCount ==
    ASSUME Library, NEW S, IsFiniteSet(S)
    PROVE  Cardinality(S) \in Nat
  BY DEF Library

LEMMA SmallerCount ==
    ASSUME Library, NEW S, IsFiniteSet(S), NEW T \in SUBSET S
    PROVE  Cardinality(T) <= Cardinality(S)
  BY DEF Library

\* Slices, concatenations and changed places of sequences.
LEMMA SliceIs ==
    ASSUME NEW S, NEW s \in Seq(S), NEW m \in 1..Len(s) + 1, NEW n \in m - 1..Len(s)
    PROVE  /\ SubSeq(s, m, n) \in Seq(S) /\ Len(SubSeq(s, m, n)) = n - m + 1
           /\ \A i \in 1..n - m + 1 : SubSeq(s, m, n)[i] = s[m + i - 1]
  BY SMT

LEMMA JoinIs ==
    ASSUME NEW S, NEW s \in Seq(S), NEW t \in Seq(S)
    PROVE  /\ s \o t \in Seq(S) /\ Len(s \o t) = Len(s) + Len(t)
           /\ \A i \in 1..Len(s) + Len(t) :
                (s \o t)[i] = IF i <= Len(s) THEN s[i] ELSE t[i - Len(s)]
  BY SMT

LEMMA ChangedIs ==
    ASSUME NEW S, NEW s \in Seq(S), NEW k \in 1..Len(s), NEW e \in S
    PROVE  /\ [s EXCEPT ![k] = e] \in Seq(S) /\ Len([s EXCEPT ![k] = e]) = Len(s)
           /\ \A i \in 1..Len(s) : [s EXCEPT ![k] = e][i] = IF i = k THEN e ELSE s[i]
  BY SMT

LEMMA FiniteEmpty == IsFiniteSet({})
<1>1. <<>> \in Seq({})
  BY SMT
<1> QED  BY <1>1 DEF IsFiniteSet

LEMMA FiniteAdd ==
    ASSUME NEW S, IsFiniteSet(S), NEW x
    PROVE  IsFiniteSet(S \cup {x})
<1>1. PICK q \in Seq(S) : \A s \in S : \E n \in 1..Len(q) : q[n] = s
  BY DEF IsFiniteSet
<1>2. /\ Append(q, x) \in Seq(S \cup {x}) /\ Len(Append(q, x)) = Len(q) + 1 /\ Len(q) \in Nat
      /\ Append(q, x)[Len(q) + 1] = x /\ \A n \in 1..Len(q) : Append(q, x)[n] = q[n]
  BY SMT
<1> DEFINE r == Append(q, x)
<1>3. r \in Seq(S \cup {x}) /\ \A s \in S \cup {x} : \E n \in 1..Len(r) : r[n] = s
  BY SMT, <1>1, <1>2
<1> HIDE DEF r
<1> QED  BY <1>3 DEF IsFiniteSet

LEMMA FiniteSubset ==
    ASSUME NEW S, IsFiniteSet(S), NEW T \in SUBSET S
    PROVE  IsFiniteSet(T)
<1>1. CASE T = {}
  BY <1>1, FiniteEmpty
<1>2. CASE T # {}
  <2>1. PICK t \in T : TRUE
    BY <1>2
  <2>2. PICK q \in Seq(S) : \A s \in S : \E n \in 1..Len(q) : q[n] = s
    BY DEF IsFiniteSet
  <2> DEFINE p == [n \in 1..Len(q) |-> IF q[n] \in T THEN q[n] ELSE t]
  <2>3. p \in Seq(T) /\ Len(p) = Len(q) /\ \A n \in 1..Len(q) : q[n] \in T => p[n] = q[n]
    <3>1. Len(q) \in Nat
      BY SMT
    <3>2. p \in [1..Len(q) -> T]
      OBVIOUS
    <3> QED  BY SMT, <3>1, <3>2
  <2> HIDE DEF p
  <2>4. \A s \in T : \E n \in 1..Len(p) : p[n] = s
    BY <2>2, <2>3
  <2> QED  BY <2>3, <2>4 DEF IsFiniteSet
<1> QED  BY <1>1, <1>2

LEMMA FiniteBelow ==
    ASSUME NEW j \in Nat
    PROVE  IsFiniteSet(0..j)
<1> DEFINE q == [n \in 1..j + 1 |-> n - 1]
<1>1. q \in Seq(0..j) /\ Len(q) = j + 1
  BY SMT
<1>2. ASSUME NEW s \in 0..j PROVE s + 1 \in 1..j + 1 /\ q[s + 1] = s
  BY SMT
<1> HIDE DEF q
<1>3. \A s \in 0..j : \E n \in 1..Len(q) : q[n] = s
  BY <1>1, <1>2
<1> QED  BY <1>1, <1>3 DEF IsFiniteSet

Counts(S, f) == f = [T \in SUBSET S |-> IF T = {} THEN 0 ELSE 1 + f[T \ {CHOOSE x : x \in T}]]

LEMMA CardinalityIs ==
    ASSUME NEW S
    PROVE  Cardinality(S) = (CHOOSE f : Counts(S, f))[S]
  BY DEF Cardinality, Counts

LEMMA EmptyCount == Cardinality({}) = 0
<1> DEFINE g == [T \in SUBSET {} |-> 0]
<1>1. Counts({}, g)
  <2>1. \A T \in SUBSET {} : T = {}
    OBVIOUS
  <2> QED  BY <2>1 DEF Counts
<1>2. PICK f : f = (CHOOSE h : Counts({}, h)) /\ Counts({}, f)
  BY <1>1
<1>3. f[{}] = 0
  BY <1>2 DEF Counts
<1> QED  BY <1>2, <1>3, CardinalityIs

LEMMA SingleCount ==
    ASSUME NEW a
    PROVE  Cardinality({a}) = 1
<1> DEFINE g == [T \in SUBSET {a} |-> IF T = {} THEN 0 ELSE 1]
<1>1. \A T \in SUBSET {a} : T # {} => T = {a} /\ (CHOOSE x : x \in T) = a /\ T \ {CHOOSE x : x \in T} = {}
  OBVIOUS
<1>2. Counts({a}, g)
  BY SMT, <1>1 DEF Counts
<1>3. PICK f : f = (CHOOSE h : Counts({a}, h)) /\ Counts({a}, f)
  BY <1>2
<1>4. f[{}] = 0
  BY <1>3 DEF Counts
<1>5. f[{a}] = 1 + f[{}]
  <2>1. {a} # {} /\ {a} \in SUBSET {a} /\ {a} \ {CHOOSE x : x \in {a}} = {}
    OBVIOUS
  <2> QED  BY <1>3, <2>1 DEF Counts
<1>6. f[{a}] = 1
  BY SMT, <1>4, <1>5
<1> QED  BY <1>3, <1>6, CardinalityIs

-----------------------------------------------------------------------------
(* Extending the chain.                                                    *)

LEMMA AppendIs ==
    ASSUME NEW p \in Seq(Cmds \X Nat), NEW e \in Cmds \X Nat
    PROVE  /\ Append(p, e) \in Seq(Cmds \X Nat) /\ Len(Append(p, e)) = Len(p) + 1
           /\ Append(p, e)[Len(p) + 1] = e /\ \A i \in 1..Len(p) : Append(p, e)[i] = p[i]
  BY SMT

LEMMA SameHash ==
    ASSUME NEW g \in Seq(Cmds \X Nat), NEW h \in Seq(Cmds \X Nat), Len(g) = Len(h),
           \A i \in 1..Len(h) : g[i] = h[i]
    PROVE  g = h
<1>1. DOMAIN g = 1..Len(h) /\ DOMAIN h = 1..Len(h)
  BY SMT
<1>2. g = [i \in 1..Len(h) |-> g[i]] /\ h = [i \in 1..Len(h) |-> h[i]]
  BY SMT, <1>1
<1> QED  BY <1>2

LEMMA HashAppend ==
    ASSUME NEW p \in Seq(Cmds \X Nat), NEW u \in Seq(Cmds \X Nat), NEW e \in Cmds \X Nat
    PROVE  p \o Append(u, e) = Append(p \o u, e)
<1> DEFINE v == Append(u, e)
           w == p \o u
           g == p \o v
           h == Append(w, e)
<1>1. /\ v \in Seq(Cmds \X Nat) /\ Len(v) = Len(u) + 1
      /\ v[Len(u) + 1] = e /\ \A i \in 1..Len(u) : v[i] = u[i]
  BY AppendIs
<1>2. /\ w \in Seq(Cmds \X Nat) /\ Len(w) = Len(p) + Len(u)
      /\ \A i \in 1..Len(p) + Len(u) : w[i] = IF i <= Len(p) THEN p[i] ELSE u[i - Len(p)]
  BY JoinIs
<1> HIDE DEF v, w
<1>3. /\ g \in Seq(Cmds \X Nat) /\ Len(g) = Len(p) + Len(v)
      /\ \A i \in 1..Len(p) + Len(v) : g[i] = IF i <= Len(p) THEN p[i] ELSE v[i - Len(p)]
  BY <1>1, JoinIs
<1>4. /\ h \in Seq(Cmds \X Nat) /\ Len(h) = Len(w) + 1
      /\ h[Len(w) + 1] = e /\ \A i \in 1..Len(w) : h[i] = w[i]
  BY <1>2, AppendIs
<1> HIDE DEF g, h
<1>5. Len(p) \in Nat /\ Len(u) \in Nat
  BY SMT
<1>6. PICK a \in Nat, b \in Nat :
         /\ a = Len(p) /\ b = Len(u) /\ Len(v) = b + 1 /\ Len(w) = a + b
         /\ Len(g) = a + (b + 1) /\ Len(h) = (a + b) + 1
  BY <1>1, <1>2, <1>3, <1>4, <1>5
<1>7. Len(g) = Len(h)
  BY SMT, <1>6
<1>8. ASSUME NEW i \in 1..Len(h) PROVE g[i] = h[i]
  <2>1. CASE i <= a
    <3>1. i \in 1..a + b /\ i \in 1..a + (b + 1)
      BY SMT, <1>6, <2>1
    <3>2. g[i] = p[i] /\ w[i] = p[i] /\ h[i] = w[i]
      BY <1>2, <1>3, <1>4, <1>6, <2>1, <3>1
    <3> QED  BY <3>2
  <2>2. CASE i = (a + b) + 1
    <3>1. i \in 1..a + (b + 1) /\ ~(i <= a) /\ i - a = b + 1
      BY SMT, <1>6, <2>2
    <3>2. g[i] = v[i - a] /\ v[b + 1] = e /\ h[i] = e
      BY <1>1, <1>3, <1>4, <1>6, <2>2, <3>1
    <3> QED  BY <3>1, <3>2
  <2>3. CASE ~(i <= a) /\ i <= a + b
    <3>1. i \in 1..a + b /\ i \in 1..a + (b + 1) /\ i - a \in 1..b
      BY SMT, <1>6, <2>3
    <3>2. g[i] = v[i - a] /\ w[i] = u[i - a] /\ h[i] = w[i]
      BY <1>2, <1>3, <1>4, <1>6, <2>3, <3>1
    <3>3. v[i - a] = u[i - a]
      BY <1>1, <1>6, <3>1
    <3> QED  BY <3>2, <3>3
  <2>4. i <= a \/ i = (a + b) + 1 \/ (~(i <= a) /\ i <= a + b)
    <3>1. i \in 1..(a + b) + 1
      BY <1>6
    <3>2. \A j \in 1..(a + b) + 1 : j <= a \/ j = (a + b) + 1 \/ (~(j <= a) /\ j <= a + b)
      BY SMT
    <3> QED  BY <3>1, <3>2
  <2> QED  BY <2>1, <2>2, <2>3, <2>4
<1>9. g = h
  BY <1>3, <1>4, <1>7, <1>8, SameHash
<1> QED  BY <1>9 DEF g, h, v, w

LEMMA RowsGrow ==
    ASSUME rows \in Seq(LogRows), NEW new \in Seq(LogRows), rows' = rows \o new
    PROVE  /\ rows' \in Seq(LogRows) /\ Len(rows') = Len(rows) + Len(new)
           /\ \A k \in 1..Len(rows) : rows'[k] = rows[k]
           /\ \A k \in 1..Len(new) : rows'[Len(rows) + k] = new[k]
  BY SMT

Pair(e) == <<e.cmd, e.at>>
Entries == [cmd : Cmds, at : Nat] \cup PendRows

\* The hashes of a batch on top of hash p.
IsHashing(h, p, E) ==
    h = [k \in 0..Len(E) |-> IF k = 0 THEN p ELSE computeEntryHash(h[k - 1], E[k].cmd, E[k].at)]

LEMMA HashingExists ==
    ASSUME NEW p \in Hashes, NEW E \in Seq(Entries)
    PROVE  \E h : IsHashing(h, p, E)
<1> DEFINE upto(k) == [j \in 1..k |-> Pair(E[j])]
           g == [k \in 0..Len(E) |-> p \o upto(k)]
<1>1. Len(E) \in Nat /\ \A k \in 1..Len(E) : Pair(E[k]) \in Cmds \X Nat
  BY SMT, ChainAssumption DEF Entries, PendRows, Pair
<1>2. ASSUME NEW k \in 0..Len(E) PROVE upto(k) \in Seq(Cmds \X Nat) /\ Len(upto(k)) = k
  BY SMT, <1>1, <1>2
<1>3. p \o upto(0) = p
  <2>1. upto(0) = <<>>
    BY SMT, <1>1
  <2> QED  BY SMT, <2>1 DEF Hashes
<1>4. ASSUME NEW k \in 1..Len(E)
      PROVE  p \o upto(k) = Append(p \o upto(k - 1), Pair(E[k]))
  <2>1. k \in 0..Len(E) /\ k - 1 \in 0..Len(E)
    BY SMT, <1>1
  <2>2. upto(k) = Append(upto(k - 1), Pair(E[k]))
    BY SMT, <1>1, <1>2, <2>1
  <2>3. upto(k - 1) \in Seq(Cmds \X Nat) /\ Pair(E[k]) \in Cmds \X Nat
    BY <1>1, <1>2, <2>1
  <2> HIDE DEF upto
  <2>4. p \in Seq(Cmds \X Nat)
    BY DEF Hashes
  <2>5. PICK u \in Seq(Cmds \X Nat) : u = upto(k - 1)
    BY <2>3
  <2>6. PICK e \in Cmds \X Nat : e = Pair(E[k])
    BY <2>3
  <2>7. p \o Append(u, e) = Append(p \o u, e)
    BY <2>4, HashAppend
  <2> QED  BY <2>2, <2>5, <2>6, <2>7
<1>5. ASSUME NEW k \in 0..Len(E)
      PROVE  g[k] = IF k = 0 THEN p ELSE computeEntryHash(g[k - 1], E[k].cmd, E[k].at)
  <2>1. \A j \in 0..Len(E) : g[j] = p \o upto(j)
    OBVIOUS
  <2> HIDE DEF g, upto
  <2>2. CASE k = 0
    BY <1>3, <2>1, <2>2
  <2>3. CASE k # 0
    <3>1. k \in 1..Len(E) /\ k - 1 \in 0..Len(E)
      BY SMT, <1>1, <2>3
    <3>2. g[k] = Append(g[k - 1], Pair(E[k]))
      BY <1>4, <2>1, <3>1
    <3> QED  BY <2>3, <3>2 DEF computeEntryHash, Pair
  <2> QED  BY <2>2, <2>3
<1>6. g = [k \in 0..Len(E) |-> IF k = 0 THEN p ELSE computeEntryHash(g[k - 1], E[k].cmd, E[k].at)]
  <2>1. g = [k \in 0..Len(E) |-> g[k]]
    OBVIOUS
  <2> HIDE DEF g
  <2> QED  BY <1>5, <2>1
<1> HIDE DEF g
<1> QED  BY <1>6 DEF IsHashing

LEMMA LinksAre ==
    ASSUME Library, NEW p \in Hashes, NEW E \in Seq(Entries)
    PROVE  \E h \in [0..Len(E) -> Hashes] :
             /\ h[0] = p
             /\ \A k \in 1..Len(E) : h[k] = computeEntryHash(h[k - 1], E[k].cmd, E[k].at)
             /\ Links(p, E) = [k \in 1..Len(E) |-> Link(h[k - 1], E[k].cmd, E[k].at)]
<1> DEFINE h == CHOOSE f : IsHashing(f, p, E)
<1>1. IsHashing(h, p, E)
  BY HashingExists
<1>2. Links(p, E) = [k \in 1..Len(E) |-> Link(h[k - 1], E[k].cmd, E[k].at)]
  BY DEF Links, IsHashing
<1> HIDE DEF h
<1>3. Len(E) \in Nat /\ \A k \in 1..Len(E) : <<E[k].cmd, E[k].at>> \in Cmds \X Nat
  BY SMT, ChainAssumption DEF Entries, PendRows
<1>4. /\ h = [k \in 0..Len(E) |-> h[k]] /\ h[0] = p
      /\ \A k \in 1..Len(E) : h[k] = computeEntryHash(h[k - 1], E[k].cmd, E[k].at)
  BY SMT, <1>1, <1>3 DEF IsHashing
<1>5. \A k \in 0..Len(E) : h[k] \in Hashes
  <2> DEFINE T == {k \in 0..Len(E) : h[k] \notin Hashes}
  <2> SUFFICES ASSUME NEW n \in T PROVE FALSE
    OBVIOUS
  <2>1. PICK m \in T : \A k \in T : m <= k
    <3>1. T \in SUBSET Nat
      BY SMT, <1>3
    <3> HIDE DEF T
    <3> QED  BY <3>1, Least
  <2>2. m \in 1..Len(E) /\ m - 1 \in 0..Len(E) /\ ~(m <= m - 1)
    BY SMT, <1>3, <1>4
  <2>3. h[m - 1] \in Hashes
    BY <2>1, <2>2
  <2>4. h[m] = Append(h[m - 1], <<E[m].cmd, E[m].at>>)
    BY <1>4, <2>2 DEF computeEntryHash
  <2>5. h[m] \notin Hashes
    OBVIOUS
  <2> HIDE DEF T
  <2>6. <<E[m].cmd, E[m].at>> \in Cmds \X Nat
    BY <1>3, <2>2
  <2>7. Append(h[m - 1], <<E[m].cmd, E[m].at>>) \in Hashes
    BY SMT, <2>3, <2>6 DEF Hashes
  <2> QED  BY <2>4, <2>5, <2>7
<1> QED  BY <1>2, <1>4, <1>5

\* What Extend adds to the table.
Grew(E) ==
    /\ rows' \in Seq(LogRows) /\ head' \in Hashes /\ Len(rows') = Len(rows) + Len(E)
    /\ \A k \in 1..Len(rows) : rows'[k] = rows[k]
    /\ \A k \in 1..Len(E) : rows'[Len(rows) + k].cmd = E[k].cmd

LEMMA ExtendGrows ==
    ASSUME Library, ChainType, NEW E \in Seq(Entries), Extend(E), E # <<>>
    PROVE  \E h \in [0..Len(E) -> Hashes] :
             /\ h[0] = prev /\ head' = h[Len(E)]
             /\ \A k \in 1..Len(E) :
                  /\ h[k] = computeEntryHash(h[k - 1], E[k].cmd, E[k].at)
                  /\ rows'[Len(rows) + k] = Link(h[k - 1], E[k].cmd, E[k].at)
             /\ Grew(E)
<1>1. PICK h \in [0..Len(E) -> Hashes] :
             /\ h[0] = prev
             /\ \A k \in 1..Len(E) : h[k] = computeEntryHash(h[k - 1], E[k].cmd, E[k].at)
             /\ Links(prev, E) = [k \in 1..Len(E) |-> Link(h[k - 1], E[k].cmd, E[k].at)]
  BY LinksAre DEF ChainType
<1> DEFINE new == [k \in 1..Len(E) |-> Link(h[k - 1], E[k].cmd, E[k].at)]
<1>2. rows' = rows \o new /\ head' = new[Len(new)].hash
  BY <1>1 DEF Extend
<1>3. Len(E) \in Nat /\ Len(E) \in 1..Len(E) /\ \A k \in 1..Len(E) : E[k].cmd \in Cmds /\ E[k].at \in Nat
  BY SMT, ChainAssumption DEF Entries, PendRows
<1>4. ASSUME NEW k \in 1..Len(E)
      PROVE  /\ Link(h[k - 1], E[k].cmd, E[k].at) \in LogRows
             /\ Link(h[k - 1], E[k].cmd, E[k].at).hash = h[k]
             /\ Link(h[k - 1], E[k].cmd, E[k].at).cmd = E[k].cmd
  <2>1. k - 1 \in 0..Len(E) /\ k \in 0..Len(E)
    BY SMT, <1>3
  <2>2. h[k - 1] \in Hashes /\ h[k] \in Hashes /\ h[k] = computeEntryHash(h[k - 1], E[k].cmd, E[k].at)
    BY <1>1, <2>1
  <2> QED  BY <1>3, <2>2 DEF Link, LogRows
<1>5. new \in Seq(LogRows) /\ Len(new) = Len(E) /\ \A k \in 1..Len(E) : new[k] = Link(h[k - 1], E[k].cmd, E[k].at)
  BY SMT, <1>3, <1>4
<1> HIDE DEF new
<1>6. head' = h[Len(E)]
  BY <1>2, <1>3, <1>4, <1>5
<1>7. /\ rows' \in Seq(LogRows) /\ Len(rows') = Len(rows) + Len(E)
      /\ \A k \in 1..Len(rows) : rows'[k] = rows[k]
      /\ \A k \in 1..Len(E) : rows'[Len(rows) + k] = new[k]
  <2>1. rows \in Seq(LogRows) /\ Len(rows) \in Nat
    BY SMT DEF ChainType
  <2>2. new \in Seq(LogRows) /\ Len(new) = Len(E)
    BY <1>5
  <2>3. rows' = rows \o new
    BY <1>2
  <2>4. /\ rows' \in Seq(LogRows) /\ Len(rows') = Len(rows) + Len(new)
        /\ \A k \in 1..Len(rows) : rows'[k] = rows[k]
        /\ \A k \in 1..Len(new) : rows'[Len(rows) + k] = new[k]
    BY <2>1, <2>2, <2>3, RowsGrow
  <2> QED  BY <2>2, <2>4
<1>8. head' \in Hashes
  BY SMT, <1>3, <1>6
<1>9. Grew(E)
  <2>1. ASSUME NEW k \in 1..Len(E) PROVE rows'[Len(rows) + k].cmd = E[k].cmd
    BY <1>4, <1>5, <1>7
  <2> QED  BY <1>7, <1>8, <2>1 DEF Grew
<1> QED  BY <1>1, <1>5, <1>6, <1>7, <1>9

LEMMA ExtendKeepsChain ==
    ASSUME Library, ChainType, ChainIntact, prev = head, NEW E \in Seq(Entries), Extend(E), E # <<>>
    PROVE  ChainIntact'
<1> DEFINE n == Len(rows)
           m == Len(E)
<1>1. PICK h \in [0..Len(E) -> Hashes] :
             /\ h[0] = prev /\ head' = h[Len(E)]
             /\ \A k \in 1..Len(E) :
                  /\ h[k] = computeEntryHash(h[k - 1], E[k].cmd, E[k].at)
                  /\ rows'[Len(rows) + k] = Link(h[k - 1], E[k].cmd, E[k].at)
             /\ Grew(E)
  BY ExtendGrows
<1>2. n \in Nat /\ m \in Nat \ {0} /\ Len(rows') = n + m /\ rows' \in Seq(LogRows)
  BY SMT, <1>1 DEF ChainType, Grew
<1>3. ASSUME NEW k \in 1..m
      PROVE  /\ rows'[n + k].prev = h[k - 1] /\ rows'[n + k].hash = h[k]
             /\ rows'[n + k].hash =
                  computeEntryHash(rows'[n + k].prev, rows'[n + k].cmd, rows'[n + k].at)
  <2>1. /\ rows'[n + k] = Link(h[k - 1], E[k].cmd, E[k].at)
        /\ h[k] = computeEntryHash(h[k - 1], E[k].cmd, E[k].at)
    BY <1>1
  <2> QED  BY SMT, <2>1 DEF Link
<1>4. \A k \in 1..n : rows'[k] = rows[k]
  BY <1>1 DEF Grew
<1>5. /\ n # 0 => rows[1].prev = Genesis
      /\ \A k \in 2..n : rows[k].prev = rows[k - 1].hash
      /\ \A k \in 1..n : rows[k].hash = computeEntryHash(rows[k].prev, rows[k].cmd, rows[k].at)
      /\ head = IF n = 0 THEN Genesis ELSE rows[n].hash
  <2>1. rows = <<>> <=> n = 0
    BY SMT DEF ChainType
  <2> QED  BY <2>1 DEF ChainIntact, Linked
<1>6. rows'[1].prev = Genesis
  <2>1. CASE n = 0
    BY SMT, <1>1, <1>2, <1>3, <1>5, <2>1
  <2>2. CASE n # 0
    <3>1. 1 \in 1..n
      BY SMT, <1>2, <2>2
    <3> QED  BY <1>4, <1>5, <2>2, <3>1
  <2> QED  BY <2>1, <2>2
<1>7. ASSUME NEW k \in 1..n + m
      PROVE  rows'[k].hash = computeEntryHash(rows'[k].prev, rows'[k].cmd, rows'[k].at)
  <2>1. CASE k \in 1..n
    BY <1>4, <1>5, <2>1
  <2>2. CASE k \notin 1..n
    <3>1. k - n \in 1..m /\ n + (k - n) = k
      BY SMT, <1>2, <2>2
    <3> QED  BY <1>3, <3>1
  <2> QED  BY <2>1, <2>2
<1>8. ASSUME NEW k \in 2..n + m PROVE rows'[k].prev = rows'[k - 1].hash
  <2>1. CASE k \in 2..n
    <3>1. k \in 1..n /\ k - 1 \in 1..n
      BY SMT, <1>2, <2>1
    <3> QED  BY <1>4, <1>5, <2>1, <3>1
  <2>2. CASE k = n + 1
    <3>1. rows'[k].prev = head /\ n \in 1..n
      BY SMT, <1>1, <1>2, <1>3, <2>2
    <3>2. rows'[k - 1] = rows[n]
      BY SMT, <1>2, <1>4, <2>2, <3>1
    <3> QED  BY SMT, <1>2, <1>5, <3>1, <3>2
  <2>3. CASE k > n + 1
    <3>1. /\ k - n \in 1..m /\ n + (k - n) = k
          /\ k - n - 1 \in 1..m /\ n + (k - n - 1) = k - 1
      BY SMT, <1>2, <2>3
    <3>2. rows'[k].prev = h[k - n - 1]
      BY <1>3, <3>1
    <3>3. rows'[k - 1].hash = h[k - n - 1]
      BY <1>3, <3>1
    <3> QED  BY <3>2, <3>3
  <2>4. k \in 2..n \/ k = n + 1 \/ k > n + 1
    BY SMT, <1>2
  <2> QED  BY <2>1, <2>2, <2>3, <2>4
<1>9. head' = rows'[Len(rows')].hash /\ rows' # <<>>
  <2>1. m \in 1..m /\ rows'[n + m].hash = h[m] /\ head' = h[m]
    BY SMT, <1>1, <1>2, <1>3
  <2>2. rows' # <<>>
    BY SMT, <1>2
  <2> QED  BY <1>2, <2>1, <2>2
<1> QED  BY <1>2, <1>6, <1>7, <1>8, <1>9 DEF ChainIntact, Linked

LEMMA CommandsOf ==
    ASSUME ChainType
    PROVE  /\ DOMAIN rows = 1..Len(rows) /\ Len(rows) \in Nat
           /\ \A k \in DOMAIN rows : rows[k].cmd \in Cmds
           /\ \A p \in pending : p.cmd \in Durable /\ p.cmd \in Cmds /\ p.id \in Nat
<1>1. rows \in Seq(LogRows)
  BY DEF ChainType
<1>2. DOMAIN rows = 1..Len(rows) /\ Len(rows) \in Nat /\ \A k \in 1..Len(rows) : rows[k] \in LogRows
  BY SMT, <1>1
<1>3. \A p \in pending : p.cmd \in Durable /\ p.cmd \in Cmds /\ p.id \in Nat
  BY ChainAssumption DEF ChainType, PendRows
<1> QED  BY <1>2, <1>3 DEF LogRows

-----------------------------------------------------------------------------
(* Steps that leave the tables alone.                                      *)

LEMMA QuietKeeps ==
    ASSUME AuditInv, clock' \in Nat,
           UNCHANGED <<tables, cmd, visible, nextId, staged, drain, before>>
    PROVE  AuditInv'
<1>1. ChainType' /\ LockInv'
  BY DEF AuditInv, ChainType, LockInv, tables
<1>2. ChainIntact' /\ OnceInv'
  BY SMT DEF AuditInv, ChainIntact, OnceInv, tables
<1>3. StagedInv' /\ ClaimInv'
  BY DEF AuditInv, StagedInv, ClaimInv, tables
<1>4. OrderInv'
  BY DEF AuditInv, OrderInv, FollowsCommitOrder, Together, tables
<1> QED  BY <1>1, <1>2, <1>3, <1>4 DEF AuditInv

LEMMA ReplicateKeeps ==
    ASSUME AuditInv, Replicate
    PROVE  AuditInv'
<1>1. /\ visible' = {p.id : p \in pending}
      /\ UNCHANGED <<rows, head, lock, prev, pending, cmd, nextId, staged, drain, before, clock>>
  BY DEF Replicate, tables
<1>2. ChainType' /\ LockInv'
  BY <1>1 DEF AuditInv, ChainType, LockInv, PendRows
<1>3. ChainIntact' /\ OnceInv' /\ ClaimInv'
  <2>1. ChainIntact'
    BY <1>1 DEF AuditInv, ChainIntact
  <2>2. OnceInv'
    BY <1>1 DEF AuditInv, OnceInv
  <2>3. ClaimInv'
    BY <1>1 DEF AuditInv, ClaimInv
  <2> QED  BY <2>1, <2>2, <2>3
<1>4. StagedInv'
  <2>1. \A i \in visible' : i < nextId
    BY SMT, <1>1 DEF AuditInv, StagedInv
  <2>2. \A c \in Cmds : cmd[c] = "staged" => staged[c].id \notin visible'
    BY <1>1 DEF AuditInv, StagedInv
  <2> QED  BY <1>1, <2>1, <2>2 DEF AuditInv, StagedInv
<1>5. OrderInv'
  <2>1. ASSUME NEW p \in pending, NEW q \in pending PROVE Together(p, q)'
    <3>1. Together(p, q) /\ p.id \in visible'
      BY <1>1 DEF AuditInv, OrderInv
    <3> QED  BY <1>1, <3>1 DEF Together
  <2>2. FollowsCommitOrder'
    BY <1>1 DEF AuditInv, OrderInv, FollowsCommitOrder
  <2> QED  BY <1>1, <2>1, <2>2 DEF AuditInv, OrderInv
<1> QED  BY <1>2, <1>3, <1>4, <1>5 DEF AuditInv

-----------------------------------------------------------------------------
(* Commands.                                                               *)

\* The history grows by the commands that were over when c began.
LEMMA BeginsKeepsOrder ==
    ASSUME AuditInv, NEW c \in Cmds, cmd[c] = "new", Begins(c),
           UNCHANGED <<rows, pending, visible, drain>>,
           \A b \in Cmds \ {c} : cmd'[b] = cmd[b], cmd'[c] \in {"locked", "staged"}
    PROVE  OrderInv'
<1>1. /\ \A a, b \in Cmds : <<a, b>> \in before' <=> <<a, b>> \in before \/ (b = c /\ cmd[a] = "committed")
  BY DEF Begins, Over
<1>2. /\ \A k \in DOMAIN rows : rows[k].cmd # c /\ rows[k].cmd \in Cmds
      /\ \A p \in pending : p.cmd # c /\ p.cmd \in Cmds
  <2>1. /\ \A k \in DOMAIN rows : rows[k].cmd \in Cmds
        /\ \A p \in pending : p.cmd \in Cmds
    BY CommandsOf DEF AuditInv
  <2> QED  BY <2>1 DEF AuditInv, OnceInv
<1>3. FollowsCommitOrder'
  BY SMT, <1>1, <1>2 DEF AuditInv, OrderInv, FollowsCommitOrder
<1>4. \A p \in pending, k \in DOMAIN rows :
         rows[k].cmd \in Durable => <<p.cmd, rows[k].cmd>> \notin before'
  BY SMT, <1>1, <1>2 DEF AuditInv, OrderInv
<1>5. ASSUME NEW p \in pending, NEW q \in pending PROVE Together(p, q)'
  BY SMT, <1>1, <1>2 DEF AuditInv, OrderInv, Together
<1>6. \A a, b \in Cmds : <<a, b>> \in before' => cmd'[a] = "committed" /\ cmd'[b] # "new"
  BY <1>1 DEF AuditInv, OrderInv
<1> QED  BY <1>3, <1>4, <1>5, <1>6 DEF OrderInv

LEMMA RecordKeeps ==
    ASSUME AuditInv, NEW c \in Cmds, Record(c)
    PROVE  AuditInv'
<1>1. /\ cmd[c] = "new" /\ lock = NoTx /\ lock' = c /\ prev' = head /\ Begins(c)
      /\ cmd' = [cmd EXCEPT ![c] = "locked"] /\ c \notin Durable
      /\ UNCHANGED <<rows, head, pending, visible, nextId, staged, drain, clock>>
  BY DEF Record, LockHead
<1>2. cmd'[c] = "locked" /\ (\A b \in Cmds \ {c} : cmd'[b] = cmd[b])
  BY <1>1 DEF AuditInv, ChainType
<1>3. ChainType'
  BY <1>1 DEF AuditInv, ChainType
<1>4. LockInv'
  BY <1>1, <1>2, ChainAssumption DEF AuditInv, LockInv
<1>5. ChainIntact' /\ ClaimInv'
  BY <1>1 DEF AuditInv, ChainIntact, ClaimInv
<1>6. OnceInv'
  <2>1. /\ \A k \in DOMAIN rows : rows[k].cmd \in Cmds
        /\ \A p \in pending : p.cmd \in Cmds
    BY CommandsOf DEF AuditInv
  <2> QED  BY SMT, <1>1, <1>2, <2>1 DEF AuditInv, OnceInv
<1>7. StagedInv'
  <2>1. \A a \in Cmds, b \in Cmds \ {c} : <<a, b>> \in before' => <<a, b>> \in before
    BY <1>1 DEF Begins
  <2>2. \A p \in pending : p.cmd \in Cmds
    BY CommandsOf DEF AuditInv
  <2> QED  BY SMT, <1>1, <1>2, <2>1, <2>2 DEF AuditInv, StagedInv
<1>8. OrderInv'
  BY <1>1, <1>2, BeginsKeepsOrder
<1> QED  BY <1>3, <1>4, <1>5, <1>6, <1>7, <1>8 DEF AuditInv

LEMMA InsertPendingKeeps ==
    ASSUME AuditInv, NEW c \in Cmds, InsertPending(c)
    PROVE  AuditInv'
<1> DEFINE p == [id |-> nextId, cmd |-> c, at |-> clock]
<1>1. /\ c \in Durable /\ cmd[c] = "new" /\ Begins(c)
      /\ staged' = [staged EXCEPT ![c] = p] /\ nextId' = nextId + 1
      /\ cmd' = [cmd EXCEPT ![c] = "staged"]
      /\ UNCHANGED <<rows, head, lock, prev, pending, visible, drain, clock>>
  BY DEF InsertPending, tables
<1>2. cmd'[c] = "staged" /\ (\A b \in Cmds \ {c} : cmd'[b] = cmd[b])
  BY <1>1 DEF AuditInv, ChainType
<1>3. nextId \in Nat /\ clock \in Nat
  BY DEF AuditInv, ChainType
<1>4. p \in PendRows /\ p.id = nextId /\ p.cmd = c
  BY <1>1, <1>3 DEF PendRows
<1> HIDE DEF p
<1>5. staged'[c] = p /\ (\A b \in Cmds \ {c} : staged'[b] = staged[b])
  BY <1>1 DEF AuditInv, ChainType
<1>6. ChainType'
  BY SMT, <1>1, <1>3, <1>4 DEF AuditInv, ChainType
<1>7. LockInv'
  BY <1>1, <1>2 DEF AuditInv, LockInv
<1>8. ChainIntact' /\ ClaimInv'
  BY <1>1 DEF AuditInv, ChainIntact, ClaimInv
<1>9. OnceInv'
  <2>1. /\ \A k \in DOMAIN rows : rows[k].cmd \in Cmds
        /\ \A q \in pending : q.cmd \in Cmds
    BY CommandsOf DEF AuditInv
  <2> QED  BY SMT, <1>1, <1>2, <2>1 DEF AuditInv, OnceInv
<1>10. StagedInv'
  <2>1. /\ \A q \in pending : q.id \in Nat /\ q.id < nextId
        /\ \A i \in visible : i \in Nat /\ i < nextId
        /\ \A d \in Drainers : \A i \in drain[d].ids : i \in Nat /\ i < nextId
    BY DEF AuditInv, StagedInv, ChainType, PendRows, Drains
  <2>2. ASSUME NEW b \in Cmds, b # c, cmd[b] = "staged"
        PROVE  staged[b].id \in Nat /\ staged[b].id < nextId
    BY <2>2 DEF AuditInv, StagedInv, PendRows
  <2>3. ASSUME NEW b \in Cmds, cmd'[b] = "staged"
        PROVE  /\ staged'[b] \in PendRows /\ staged'[b].cmd = b
               /\ staged'[b].id < nextId' /\ staged'[b].id \notin visible
               /\ \A d \in Drainers : staged'[b].id \notin drain[d].ids
               /\ \A q \in pending : /\ q.id # staged'[b].id
                                     /\ <<q.cmd, b>> \in before' => q.id < staged'[b].id
               /\ \A a \in Cmds : cmd'[a] = "staged" /\ staged'[a].id = staged'[b].id => a = b
    <3>1. CASE b = c
      BY SMT, <1>1, <1>2, <1>3, <1>4, <1>5, <2>1, <2>2, <3>1
    <3>2. CASE b # c
      <4>1. cmd[b] = "staged" /\ staged'[b] = staged[b]
        BY <1>2, <1>5, <2>3, <3>2
      <4>2. /\ staged[b] \in PendRows /\ staged[b].cmd = b
            /\ staged[b].id < nextId /\ staged[b].id \notin visible
            /\ \A d \in Drainers : staged[b].id \notin drain[d].ids
            /\ \A q \in pending : /\ q.id # staged[b].id
                                  /\ <<q.cmd, b>> \in before => q.id < staged[b].id
            /\ \A a \in Cmds : cmd[a] = "staged" /\ staged[a].id = staged[b].id => a = b
        BY <4>1 DEF AuditInv, StagedInv
      <4>3. staged[b].id \in Nat /\ staged[b].id < nextId + 1 /\ staged[b].id # nextId
        BY SMT, <1>3, <2>2, <3>2, <4>1
      <4>4. \A q \in pending : <<q.cmd, b>> \in before' => <<q.cmd, b>> \in before
        BY <1>1, <3>2 DEF Begins
      <4> QED  BY SMT, <1>1, <1>2, <1>4, <1>5, <4>1, <4>2, <4>3, <4>4
    <3> QED  BY <3>1, <3>2
  <2> QED  BY SMT, <1>1, <1>3, <2>1, <2>3 DEF StagedInv
<1>11. OrderInv'
  BY <1>1, <1>2, BeginsKeepsOrder
<1> QED  BY <1>6, <1>7, <1>8, <1>9, <1>10, <1>11 DEF AuditInv

LEMMA RollbackKeeps ==
    ASSUME AuditInv, NEW c \in Cmds, Rollback(c)
    PROVE  AuditInv'
<1>1. /\ cmd[c] \in {"locked", "staged"} /\ cmd' = [cmd EXCEPT ![c] = "rolledback"]
      /\ lock' = IF lock = c THEN NoTx ELSE lock
      /\ prev' = IF lock = c THEN Genesis ELSE prev
      /\ staged' = [staged EXCEPT ![c] = NoRow]
      /\ UNCHANGED <<rows, head, pending, visible, nextId, drain, before, clock>>
  BY DEF Rollback
<1>2. cmd'[c] = "rolledback" /\ (\A b \in Cmds \ {c} : cmd'[b] = cmd[b])
  BY <1>1 DEF AuditInv, ChainType
<1>3. \A b \in Cmds \ {c} : staged'[b] = staged[b]
  BY <1>1 DEF AuditInv, ChainType
<1>4. ChainType'
  <2>1. prev' \in Hashes
    BY SMT, <1>1 DEF AuditInv, ChainType, Hashes, Genesis
  <2> QED  BY <1>1, <2>1 DEF AuditInv, ChainType
<1>5. LockInv'
  BY <1>1, <1>2, ChainAssumption DEF AuditInv, LockInv
<1>6. ChainIntact' /\ ClaimInv'
  BY <1>1 DEF AuditInv, ChainIntact, ClaimInv
<1>7. OnceInv'
  <2>1. /\ \A k \in DOMAIN rows : rows[k].cmd \in Cmds
        /\ \A p \in pending : p.cmd \in Cmds
    BY CommandsOf DEF AuditInv
  <2> QED  BY SMT, <1>1, <1>2, <2>1 DEF AuditInv, OnceInv
<1>8. StagedInv'
  BY SMT, <1>1, <1>2, <1>3 DEF AuditInv, StagedInv
<1>9. OrderInv'
  <2>1. \A a, b \in Cmds : <<a, b>> \in before => cmd'[a] = "committed" /\ cmd'[b] # "new"
    BY <1>1, <1>2 DEF AuditInv, OrderInv
  <2>2. FollowsCommitOrder' /\ \A p, q \in pending : Together(p, q)'
    BY <1>1 DEF AuditInv, OrderInv, FollowsCommitOrder, Together
  <2> QED  BY <1>1, <2>1, <2>2 DEF AuditInv, OrderInv
<1> QED  BY <1>4, <1>5, <1>6, <1>7, <1>8, <1>9 DEF AuditInv

LEMMA CommitStagedKeeps ==
    ASSUME AuditInv, NEW c \in Cmds, CommitStaged(c)
    PROVE  AuditInv'
<1> DEFINE p == staged[c]
<1>1. /\ cmd[c] = "staged" /\ pending' = pending \cup {p}
      /\ cmd' = [cmd EXCEPT ![c] = "committed"]
      /\ UNCHANGED <<rows, head, lock, prev, visible, nextId, staged, drain, before, clock>>
  BY DEF CommitStaged
<1>2. cmd'[c] = "committed" /\ (\A b \in Cmds \ {c} : cmd'[b] = cmd[b])
  BY <1>1 DEF AuditInv, ChainType
<1>3. /\ p \in PendRows /\ p.cmd = c /\ p.id < nextId /\ p.id \notin visible
      /\ \A d \in Drainers : p.id \notin drain[d].ids
      /\ \A q \in pending : q.id # p.id /\ (<<q.cmd, c>> \in before => q.id < p.id)
      /\ \A b \in Cmds : cmd[b] = "staged" /\ staged[b].id = p.id => b = c
  BY <1>1 DEF AuditInv, StagedInv
<1> HIDE DEF p
<1>4. /\ \A k \in DOMAIN rows : rows[k].cmd \in Cmds /\ rows[k].cmd # c
      /\ \A q \in pending : q.cmd \in Cmds /\ q.cmd # c
  <2>1. /\ \A k \in DOMAIN rows : rows[k].cmd \in Cmds
        /\ \A q \in pending : q.cmd \in Cmds
    BY CommandsOf DEF AuditInv
  <2> QED  BY <1>1, <2>1 DEF AuditInv, OnceInv
<1>5. ChainType'
  <2>1. IsFiniteSet(pending')
    BY <1>1, FiniteAdd DEF AuditInv, ChainType
  <2> QED  BY <1>1, <1>3, <2>1 DEF AuditInv, ChainType
<1>6. LockInv'
  BY <1>1, <1>2 DEF AuditInv, LockInv
<1>7. ChainIntact'
  BY <1>1 DEF AuditInv, ChainIntact
<1>8. ClaimInv'
  BY <1>1 DEF AuditInv, ClaimInv
<1>9. OnceInv'
  <2>1. \A q, r \in pending' : q.cmd = r.cmd \/ q.id = r.id => q = r
    <3>1. \A q, r \in pending : q.cmd = r.cmd \/ q.id = r.id => q = r
      BY DEF AuditInv, OnceInv
    <3>2. \A q \in pending : q.cmd # p.cmd /\ q.id # p.id
      BY <1>3, <1>4
    <3> QED  BY <1>1, <3>1, <3>2
  <2>2. \A b \in Cmds : cmd'[b] = "committed" =>
         (\E k \in DOMAIN rows : rows[k].cmd = b) \/ (\E q \in pending' : q.cmd = b)
    BY SMT, <1>1, <1>2, <1>3 DEF AuditInv, OnceInv
  <2>3. \A q \in pending' :
          cmd'[q.cmd] = "committed" /\ \A k \in DOMAIN rows : rows[k].cmd # q.cmd
    BY SMT, <1>1, <1>2, <1>3, <1>4 DEF AuditInv, OnceInv
  <2> QED  BY SMT, <1>1, <1>2, <1>4, <2>1, <2>2, <2>3 DEF AuditInv, OnceInv
<1>10. StagedInv'
  <2>1. ASSUME NEW b \in Cmds, cmd'[b] = "staged"
        PROVE  /\ staged[b] \in PendRows /\ staged[b].cmd = b
               /\ staged[b].id < nextId /\ staged[b].id \notin visible
               /\ \A d \in Drainers : staged[b].id \notin drain[d].ids
               /\ \A q \in pending' : /\ q.id # staged[b].id
                                      /\ <<q.cmd, b>> \in before => q.id < staged[b].id
               /\ \A a \in Cmds : cmd'[a] = "staged" /\ staged[a].id = staged[b].id => a = b
    <3>1. b # c /\ cmd[b] = "staged"
      BY <1>2, <2>1
    <3>2. staged[b].id # p.id
      BY <1>3, <3>1
    <3>3. <<p.cmd, b>> \notin before
      BY <1>1, <1>3 DEF AuditInv, OrderInv
    <3> QED  BY <1>1, <1>2, <3>1, <3>2, <3>3 DEF AuditInv, StagedInv
  <2> QED  BY SMT, <1>1, <1>3, <2>1 DEF AuditInv, StagedInv
<1>11. OrderInv'
  <2>1. \A b \in Cmds : <<c, b>> \notin before
    BY <1>1 DEF AuditInv, OrderInv
  <2>2. \A a, b \in Cmds : <<a, b>> \in before => cmd'[a] = "committed" /\ cmd'[b] # "new"
    BY <1>1, <1>2 DEF AuditInv, OrderInv
  <2>3. FollowsCommitOrder'
    BY <1>1 DEF AuditInv, OrderInv, FollowsCommitOrder
  <2>4. ASSUME NEW q \in pending', NEW k \in DOMAIN rows, rows[k].cmd \in Durable
        PROVE  <<q.cmd, rows[k].cmd>> \notin before
    BY <1>1, <1>3, <1>4, <2>1, <2>4 DEF AuditInv, OrderInv
  <2>5. ASSUME NEW q \in pending', NEW r \in pending', <<q.cmd, r.cmd>> \in before
        PROVE  Together(q, r)'
    <3>1. q \in pending
      BY <1>1, <1>3, <1>4, <2>1, <2>5
    <3>2. CASE r \in pending
      BY <1>1, <3>1, <3>2 DEF AuditInv, OrderInv, Together
    <3>3. CASE r = p
      <4>1. q.id < p.id
        BY <1>3, <2>5, <3>1, <3>3
      <4>2. \A d \in Drainers : p \notin Range(drain[d].claimed)
        BY <1>3 DEF AuditInv, ClaimInv
      <4> QED  BY <1>1, <1>3, <3>3, <4>1, <4>2 DEF Together
    <3> QED  BY <1>1, <3>2, <3>3
  <2> QED  BY <1>1, <2>2, <2>3, <2>4, <2>5 DEF OrderInv, Together
<1> QED  BY <1>5, <1>6, <1>7, <1>8, <1>9, <1>10, <1>11 DEF AuditInv

\* The rows of the longer chain are the old ones and those of the batch.
LEMMA RowsOf ==
    ASSUME ChainType, NEW E \in Seq(Entries), Grew(E)
    PROVE  /\ DOMAIN rows' = 1..Len(rows) + Len(E) /\ DOMAIN rows = 1..Len(rows)
           /\ Len(rows) \in Nat /\ Len(E) \in Nat /\ DOMAIN E = 1..Len(E)
           /\ \A k \in DOMAIN rows' :
                \/ k \in DOMAIN rows /\ rows'[k] = rows[k]
                \/ \E j \in 1..Len(E) : k = Len(rows) + j /\ rows'[k].cmd = E[j].cmd
           /\ \A k \in DOMAIN rows : k \in DOMAIN rows' /\ rows'[k] = rows[k]
           /\ \A j \in 1..Len(E) :
                Len(rows) + j \in DOMAIN rows' /\ rows'[Len(rows) + j].cmd = E[j].cmd
<1>1. /\ DOMAIN rows = 1..Len(rows) /\ Len(rows) \in Nat /\ Len(E) \in Nat /\ DOMAIN E = 1..Len(E)
      /\ DOMAIN rows' = 1..Len(rows) + Len(E)
  BY SMT DEF ChainType, Grew
<1>2. ASSUME NEW k \in 1..Len(rows) + Len(E), k \notin 1..Len(rows)
      PROVE  \E j \in 1..Len(E) : k = Len(rows) + j /\ rows'[k].cmd = E[j].cmd
  <2>1. k - Len(rows) \in 1..Len(E) /\ k = Len(rows) + (k - Len(rows))
    BY SMT, <1>1, <1>2
  <2>2. rows'[Len(rows) + (k - Len(rows))].cmd = E[k - Len(rows)].cmd
    BY <2>1 DEF Grew
  <2> QED  BY <2>1, <2>2
<1>3. \A k \in DOMAIN rows : k \in DOMAIN rows' /\ rows'[k] = rows[k]
  BY SMT, <1>1 DEF Grew
<1>4. \A j \in 1..Len(E) :
        Len(rows) + j \in DOMAIN rows' /\ rows'[Len(rows) + j].cmd = E[j].cmd
  BY SMT, <1>1 DEF Grew
<1> QED  BY <1>1, <1>2, <1>3, <1>4

LEMMA CommitKeeps ==
    ASSUME Library, AuditInv, NEW c \in Cmds, Commit(c)
    PROVE  AuditInv'
<1> DEFINE E == <<[cmd |-> c, at |-> clock]>>
           n == Len(rows)
<1>1. /\ cmd[c] = "locked" /\ lock = c /\ Extend(E)
      /\ cmd' = [cmd EXCEPT ![c] = "committed"]
      /\ UNCHANGED <<pending, visible, nextId, staged, drain, before, clock>>
  BY DEF Commit
<1>2. E \in Seq(Entries) /\ E # <<>> /\ Len(E) = 1 /\ E[1].cmd = c
  <2>1. [cmd |-> c, at |-> clock] \in Entries
    BY DEF AuditInv, ChainType, Entries
  <2> QED  BY SMT, <2>1
<1> HIDE DEF E
<1>3. Grew(E) /\ ChainIntact'
  <2>1. prev = head
    BY <1>1, ChainAssumption DEF AuditInv, LockInv
  <2> QED  BY <1>1, <1>2, <2>1, ExtendGrows, ExtendKeepsChain DEF AuditInv
<1>4. cmd'[c] = "committed" /\ (\A b \in Cmds \ {c} : cmd'[b] = cmd[b])
  BY <1>1 DEF AuditInv, ChainType
<1>5. ChainType'
  BY SMT, <1>1, <1>3 DEF AuditInv, ChainType, Grew, Extend, Hashes, Genesis
<1>6. LockInv'
  BY <1>1, <1>4, ChainAssumption DEF AuditInv, LockInv, Extend
<1>7. /\ \A k \in DOMAIN rows' : \/ k \in DOMAIN rows /\ rows'[k] = rows[k]
                                 \/ k = n + 1 /\ rows'[k].cmd = c
      /\ \A k \in DOMAIN rows : k \in DOMAIN rows' /\ rows'[k] = rows[k] /\ k # n + 1 /\ k < n + 1
      /\ n + 1 \in DOMAIN rows' /\ rows'[n + 1].cmd = c
  <2>1. /\ DOMAIN rows = 1..n /\ n \in Nat /\ 1 \in 1..Len(E)
        /\ \A k \in DOMAIN rows' :
             \/ k \in DOMAIN rows /\ rows'[k] = rows[k]
             \/ \E j \in 1..Len(E) : k = n + j /\ rows'[k].cmd = E[j].cmd
        /\ \A k \in DOMAIN rows : k \in DOMAIN rows' /\ rows'[k] = rows[k]
        /\ \A j \in 1..Len(E) : n + j \in DOMAIN rows' /\ rows'[n + j].cmd = E[j].cmd
    <3>1. ChainType /\ 1 \in 1..Len(E)
      BY SMT, <1>2 DEF AuditInv
    <3> QED  BY <1>2, <1>3, <3>1, RowsOf
  <2> QED  BY SMT, <1>2, <2>1
<1> HIDE DEF n
<1>8. /\ \A k \in DOMAIN rows : rows[k].cmd \in Cmds /\ rows[k].cmd # c
      /\ \A p \in pending : p.cmd \in Cmds /\ p.cmd # c
  <2>1. /\ \A k \in DOMAIN rows : rows[k].cmd \in Cmds
        /\ \A q \in pending : q.cmd \in Cmds
    BY CommandsOf DEF AuditInv
  <2> QED  BY <1>1, <2>1 DEF AuditInv, OnceInv
<1>9. ClaimInv'
  BY <1>1 DEF AuditInv, ClaimInv
<1>10. StagedInv'
  BY SMT, <1>1, <1>4 DEF AuditInv, StagedInv
<1>11. OnceInv'
  <2>1. \A k, l \in DOMAIN rows' : rows'[k].cmd = rows'[l].cmd => k = l
    BY SMT, <1>7, <1>8 DEF AuditInv, OnceInv
  <2>2. \A k \in DOMAIN rows' : cmd'[rows'[k].cmd] = "committed"
    BY SMT, <1>4, <1>7, <1>8 DEF AuditInv, OnceInv
  <2>3. \A p \in pending :
          cmd'[p.cmd] = "committed" /\ \A k \in DOMAIN rows' : rows'[k].cmd # p.cmd
    BY SMT, <1>4, <1>7, <1>8 DEF AuditInv, OnceInv
  <2>4. ASSUME NEW b \in Cmds, cmd'[b] = "committed"
        PROVE  (\E k \in DOMAIN rows' : rows'[k].cmd = b) \/ (\E p \in pending : p.cmd = b)
    <3>1. CASE b = c
      BY <1>7, <3>1
    <3>2. CASE b # c
      <4>1. (\E k \in DOMAIN rows : rows[k].cmd = b) \/ (\E p \in pending : p.cmd = b)
        BY <1>4, <2>4, <3>2 DEF AuditInv, OnceInv
      <4> QED  BY <1>7, <4>1
    <3> QED  BY <3>1, <3>2
  <2>5. \A p, q \in pending : p.cmd = q.cmd \/ p.id = q.id => p = q
    BY DEF AuditInv, OnceInv
  <2> QED  BY <1>1, <2>1, <2>2, <2>3, <2>4, <2>5 DEF OnceInv
<1>12. OrderInv'
  <2>1. \A b \in Cmds : <<c, b>> \notin before
    BY <1>1 DEF AuditInv, OrderInv
  <2>2. \A a, b \in Cmds : <<a, b>> \in before => cmd'[a] = "committed" /\ cmd'[b] # "new"
    BY <1>1, <1>4 DEF AuditInv, OrderInv
  <2>3. ASSUME NEW k \in DOMAIN rows', NEW l \in DOMAIN rows', k < l,
               {rows'[k].cmd, rows'[l].cmd} \subseteq Durable
        PROVE  <<rows'[l].cmd, rows'[k].cmd>> \notin before
    <3>1. c \notin Durable
      BY <1>1 DEF AuditInv, LockInv
    <3>2. k \in DOMAIN rows /\ l \in DOMAIN rows /\ rows'[k] = rows[k] /\ rows'[l] = rows[l]
      BY <1>7, <2>3, <3>1
    <3> QED  BY <2>3, <3>2 DEF AuditInv, OrderInv, FollowsCommitOrder
  <2>4. ASSUME NEW p \in pending, NEW k \in DOMAIN rows', rows'[k].cmd \in Durable
        PROVE  <<p.cmd, rows'[k].cmd>> \notin before
    <3>1. c \notin Durable
      BY <1>1 DEF AuditInv, LockInv
    <3>2. k \in DOMAIN rows /\ rows'[k] = rows[k]
      BY <1>7, <2>4, <3>1
    <3> QED  BY <2>4, <3>2 DEF AuditInv, OrderInv
  <2>5. \A p, q \in pending : Together(p, q)'
    BY <1>1 DEF AuditInv, OrderInv, Together
  <2> QED  BY <1>1, <2>2, <2>3, <2>4, <2>5 DEF OrderInv, FollowsCommitOrder
<1> QED  BY <1>3, <1>5, <1>6, <1>9, <1>10, <1>11, <1>12 DEF AuditInv
-----------------------------------------------------------------------------
(* The drain.                                                              *)

\* Drainer d goes on with x, the others stay where they are.
Became(d, x) ==
    /\ drain' \in [Drainers -> Drains] /\ drain'[d] = x
    /\ \A e \in Drainers : e # d => drain'[e] = drain[e]

LEMMA DrainBecomes ==
    ASSUME ChainType, NEW d \in Drainers, NEW x \in Drains, drain' = [drain EXCEPT ![d] = x]
    PROVE  Became(d, x)
  BY DEF ChainType, Became

LEMMA QuietIsDrain == Quiet \in Drains /\ Range(Quiet.claimed) = {}
<1>1. <<>> \in Seq(PendRows)
  BY SMT
<1>2. Quiet \in Drains
  BY <1>1 DEF Quiet, Drains
<1> QED  BY SMT, <1>2 DEF Quiet, Range

\* The smallest ids contain all that are smaller than one of them.
LEMMA SmallestDown ==
    ASSUME Library, NEW S \in SUBSET Nat, NEW i \in S, NEW j \in Smallest(S), i < j
    PROVE  i \in Smallest(S)
<1> DEFINE B(k) == {h \in S : h < k}
<1>1. j \in S /\ Cardinality(B(j)) < BatchSize /\ i \in Nat /\ j \in Nat
  BY DEF Smallest
<1>2. IsFiniteSet(B(j)) /\ B(i) \subseteq B(j)
  <2>1. IsFiniteSet(0..j)
    BY <1>1, FiniteBelow
  <2>2. ASSUME NEW h \in B(j) PROVE h \in 0..j
    <3>1. h \in Nat /\ h < j
      OBVIOUS
    <3> QED  BY SMT, <1>1, <3>1
  <2>3. ASSUME NEW h \in B(i) PROVE h \in B(j)
    <3>1. h \in Nat /\ h \in S /\ h < i
      OBVIOUS
    <3>2. h < j
      BY SMT, <1>1, <3>1
    <3> QED  BY <3>1, <3>2
  <2>4. B(j) \subseteq 0..j /\ B(i) \subseteq B(j)
    BY <2>2, <2>3
  <2> HIDE DEF B
  <2> QED  BY <2>1, <2>4, FiniteSubset
<1>3. Cardinality(B(i)) <= Cardinality(B(j)) /\ Cardinality(B(i)) \in Nat /\ Cardinality(B(j)) \in Nat
  <2>1. IsFiniteSet(B(i))
    BY <1>2, FiniteSubset
  <2> HIDE DEF B
  <2> QED  BY <1>2, <2>1, FiniteCount, SmallerCount
<1>4. Cardinality(B(i)) < BatchSize
  BY SMT, <1>1, <1>3, ChainAssumption
<1> QED  BY <1>4 DEF Smallest

\* What a drainer reads or claims touches neither the chain nor the table.
LEMMA DrainKeeps ==
    ASSUME AuditInv, NEW d \in Drainers, NEW x \in Drains, Became(d, x),
           UNCHANGED <<rows, head, cmd, pending, visible, nextId, staged, before, clock>>,
           prev' \in Hashes, LockInv', ClaimInv',
           \A i \in x.ids : i \in visible \/ i \in drain[d].ids,
           \A p, q \in pending : <<p.cmd, q.cmd>> \in before =>
               /\ q.id \in x.ids => p.id \in x.ids
               /\ q \in Range(x.claimed) => p \in Range(x.claimed)
    PROVE  AuditInv'
<1>1. ChainType'
  BY DEF AuditInv, ChainType, Became
<1>2. ChainIntact'
  BY DEF AuditInv, ChainIntact, Linked
<1>3. OnceInv'
  BY DEF AuditInv, OnceInv
<1>4. StagedInv'
  <2>1. \A e \in Drainers : \A i \in drain'[e].ids : i \in drain[e].ids \/ i \in visible
    BY DEF Became
  <2>2. \A e \in Drainers : \A i \in drain'[e].ids : i < nextId
    BY <2>1 DEF AuditInv, StagedInv
  <2>3. \A c \in Cmds : cmd[c] = "staged" => \A e \in Drainers : staged[c].id \notin drain'[e].ids
    BY <2>1 DEF AuditInv, StagedInv
  <2> QED  BY <2>2, <2>3 DEF AuditInv, StagedInv
<1>5. OrderInv'
  <2>1. ASSUME NEW p \in pending, NEW q \in pending PROVE Together(p, q)'
    <3>1. SUFFICES ASSUME <<p.cmd, q.cmd>> \in before, NEW e \in Drainers
                   PROVE  /\ p.id < q.id /\ (q.id \in visible => p.id \in visible)
                          /\ q.id \in drain'[e].ids => p.id \in drain'[e].ids
                          /\ q \in Range(drain'[e].claimed) => p \in Range(drain'[e].claimed)
      BY <2>1 DEF Together
    <3>2. /\ p.id < q.id /\ (q.id \in visible => p.id \in visible)
          /\ q.id \in drain[e].ids => p.id \in drain[e].ids
          /\ q \in Range(drain[e].claimed) => p \in Range(drain[e].claimed)
      BY <3>1 DEF AuditInv, OrderInv, Together
    <3> QED  BY <3>1, <3>2 DEF Became
  <2> QED  BY <2>1 DEF AuditInv, OrderInv, FollowsCommitOrder
<1> QED  BY <1>1, <1>2, <1>3, <1>4, <1>5 DEF AuditInv

LEMMA DrainType ==
    ASSUME AuditInv, NEW d \in Drainers
    PROVE  drain[d] \in Drains /\ drain[d].claimed \in Seq(PendRows) /\ drain[d].ids \subseteq Nat
  BY DEF AuditInv, ChainType, Drains

LEMMA ReadPendingKeeps ==
    ASSUME Library, AuditInv, NEW d \in Drainers, ReadPending(d)
    PROVE  AuditInv'
<1> DEFINE x == [at |-> "claim", ids |-> Smallest(visible), claimed |-> drain[d].claimed]
<1>1. visible \subseteq Nat /\ Smallest(visible) \subseteq visible
  BY DEF AuditInv, ChainType, Smallest
<1>2. drain[d] \in Drains /\ drain[d].claimed \in Seq(PendRows)
  BY DrainType
<1>3. x \in Drains
  BY <1>1, <1>2 DEF Drains
<1>4. drain' = [drain EXCEPT ![d] = x]
  <2>1. PICK s \in Drains : s = drain[d]
    BY <1>2
  <2>2. [s EXCEPT !.at = "claim", !.ids = Smallest(visible)] = x
    <3> DEFINE t == [at |-> "claim", ids |-> s.ids, claimed |-> s.claimed]
    <3>1. [s EXCEPT !.at = "claim"] = t
      BY SMT DEF Drains
    <3>2. [t EXCEPT !.ids = Smallest(visible)] = x
      BY SMT, <2>1
    <3> QED  BY <3>1, <3>2
  <2>3. drain' = [drain EXCEPT ![d] = [s EXCEPT !.at = "claim", !.ids = Smallest(visible)]]
    BY <2>1 DEF ReadPending, AuditInv, ChainType
  <2> QED  BY <2>2, <2>3
<1>5. x.at = "claim" /\ x.ids = Smallest(visible) /\ x.claimed = drain[d].claimed
  OBVIOUS
<1> HIDE DEF x
<1>6. Became(d, x)
  BY <1>3, <1>4, DrainBecomes DEF AuditInv
<1>7. UNCHANGED <<rows, head, lock, prev, cmd, pending, visible, nextId, staged, before, clock>>
  BY DEF ReadPending, tables
<1>8. LockInv'
  BY <1>5, <1>6, <1>7 DEF AuditInv, LockInv, Became
<1>9. ClaimInv'
  <2>1. \A e \in Drainers : /\ drain'[e].claimed = drain[e].claimed
                            /\ drain'[e].at \in {"claimed", "locked"} => drain[e].at = drain'[e].at
    BY <1>5, <1>6 DEF Became
  <2> QED  BY <1>7, <2>1 DEF AuditInv, ClaimInv
<1>10. ASSUME NEW p \in pending, NEW q \in pending, <<p.cmd, q.cmd>> \in before
       PROVE  /\ q.id \in x.ids => p.id \in x.ids
              /\ q \in Range(x.claimed) => p \in Range(x.claimed)
  <2>1. /\ p.id < q.id /\ (q.id \in visible => p.id \in visible)
        /\ q \in Range(drain[d].claimed) => p \in Range(drain[d].claimed)
    BY <1>10 DEF AuditInv, OrderInv, Together
  <2>2. q.id \in Smallest(visible) => p.id \in Smallest(visible)
    BY <1>1, <2>1, SmallestDown
  <2> QED  BY <1>5, <2>1, <2>2
<1>11. prev' \in Hashes
  BY <1>7 DEF AuditInv, ChainType
<1>12. \A i \in x.ids : i \in visible
  BY <1>1, <1>5
<1> QED  BY <1>3, <1>6, <1>7, <1>8, <1>9, <1>10, <1>11, <1>12, DrainKeeps

\* A claim holds the rows it selects, each once, in the order of their ids.
LEMMA ByIdIs ==
    ASSUME Library, NEW S \in SUBSET PendRows, IsFiniteSet(S), NEW q \in ById(S)
    PROVE  /\ q \in Seq(PendRows) /\ Range(q) = S
           /\ S # {} => q # <<>>
           /\ \A i, j \in DOMAIN q : i < j => q[i].id < q[j].id
<1>1. Cardinality(S) \in Nat
  BY FiniteCount
<1>2. /\ q \in [1..Cardinality(S) -> S] /\ Range(q) = S
      /\ \A i, j \in DOMAIN q : i < j => q[i].id < q[j].id
  BY DEF ById
<1>3. q \in Seq(PendRows)
  <2>1. q \in [1..Cardinality(S) -> PendRows]
    BY <1>2
  <2> QED  BY SMT, <1>1, <2>1
<1>4. q = <<>> => Range(q) = {}
  BY SMT DEF Range
<1> QED  BY <1>2, <1>3, <1>4

LEMMA ClaimKeeps ==
    ASSUME Library, AuditInv, NEW d \in Drainers, Claim(d)
    PROVE  AuditInv'
<1> DEFINE got == {p \in pending : p.id \in drain[d].ids}
<1>1. drain[d].at = "claim" /\ got \cap Deleting = {}
  BY DEF Claim
<1>2. PICK q \in ById(got) :
        drain' = [drain EXCEPT ![d] = IF got = {} THEN Quiet
                     ELSE [at |-> "claimed", ids |-> {}, claimed |-> q]]
  BY DEF Claim
<1> DEFINE x == IF got = {} THEN Quiet ELSE [at |-> "claimed", ids |-> {}, claimed |-> q]
<1>3. got \in SUBSET PendRows /\ IsFiniteSet(got)
  BY FiniteSubset DEF AuditInv, ChainType
<1>4. /\ q \in Seq(PendRows) /\ Range(q) = got /\ (got # {} => q # <<>>)
      /\ \A i, j \in DOMAIN q : i < j => q[i].id < q[j].id
  <2> HIDE DEF got
  <2> QED  BY <1>3, ByIdIs
<1>5. /\ x \in Drains /\ x.ids = {} /\ Range(x.claimed) = got
      /\ x.at \in {"claimed", "locked"} => x.claimed # <<>>
      /\ x.at # "locked"
      /\ \A i, j \in DOMAIN x.claimed : i < j => x.claimed[i].id < x.claimed[j].id
  <2>1. CASE got = {}
    <3>1. x = Quiet
      BY <2>1
    <3> QED  BY SMT, <2>1, <3>1, QuietIsDrain DEF Quiet
  <2>2. CASE got # {}
    <3>1. x = [at |-> "claimed", ids |-> {}, claimed |-> q]
      BY <2>2
    <3> QED  BY <1>4, <2>2, <3>1 DEF Drains
  <2> QED  BY <2>1, <2>2
<1>6. drain' = [drain EXCEPT ![d] = x]
  BY <1>2
<1> HIDE DEF x
<1>7. Became(d, x)
  BY <1>5, <1>6, DrainBecomes DEF AuditInv
<1>8. UNCHANGED <<rows, head, lock, prev, cmd, pending, visible, nextId, staged, before, clock>>
  BY DEF Claim, tables
<1>9. LockInv'
  BY <1>5, <1>7, <1>8 DEF AuditInv, LockInv, Became
<1>10. ClaimInv'
  <2>1. \A e \in Drainers : Range(drain[e].claimed) \cap got = {}
    BY <1>1 DEF Deleting
  <2>2. ASSUME NEW e \in Drainers
        PROVE  /\ Range(drain'[e].claimed) \subseteq pending
               /\ drain'[e].at \in {"claimed", "locked"} => drain'[e].claimed # <<>>
               /\ \A i, j \in DOMAIN drain'[e].claimed :
                    i < j => drain'[e].claimed[i].id < drain'[e].claimed[j].id
    <3>1. CASE e = d
      BY <1>5, <1>7, <3>1 DEF Became
    <3>2. CASE e # d
      <4>1. drain'[e] = drain[e]
        BY <1>7, <3>2 DEF Became
      <4> QED  BY <4>1 DEF AuditInv, ClaimInv
    <3> QED  BY <3>1, <3>2
  <2>3. ASSUME NEW e \in Drainers, NEW f \in Drainers, e # f
        PROVE  Range(drain'[e].claimed) \cap Range(drain'[f].claimed) = {}
    <3>1. CASE e = d
      BY <1>5, <1>7, <2>1, <2>3, <3>1 DEF Became
    <3>2. CASE f = d
      BY <1>5, <1>7, <2>1, <2>3, <3>2 DEF Became
    <3>3. CASE e # d /\ f # d
      <4>1. drain'[e] = drain[e] /\ drain'[f] = drain[f]
        BY <1>7, <3>3 DEF Became
      <4> QED  BY <2>3, <4>1 DEF AuditInv, ClaimInv
    <3> QED  BY <3>1, <3>2, <3>3
  <2> QED  BY <1>8, <2>2, <2>3 DEF ClaimInv
<1>11. ASSUME NEW p \in pending, NEW r \in pending, <<p.cmd, r.cmd>> \in before
       PROVE  /\ r.id \in x.ids => p.id \in x.ids
              /\ r \in Range(x.claimed) => p \in Range(x.claimed)
  <2>1. r.id \in drain[d].ids => p.id \in drain[d].ids
    BY <1>11 DEF AuditInv, OrderInv, Together
  <2> QED  BY <1>5, <2>1
<1>12. prev' \in Hashes
  BY <1>8 DEF AuditInv, ChainType
<1>13. \A i \in x.ids : i \in visible
  BY <1>5
<1> QED  BY <1>5, <1>7, <1>8, <1>9, <1>10, <1>11, <1>12, <1>13, DrainKeeps

LEMMA DrainLocksKeeps ==
    ASSUME AuditInv, NEW d \in Drainers, DrainLocks(d)
    PROVE  AuditInv'
<1> DEFINE x == [at |-> "locked", ids |-> drain[d].ids, claimed |-> drain[d].claimed]
<1>1. /\ drain[d].at = "claimed" /\ lock = NoTx /\ lock' = d /\ prev' = head
      /\ drain' = [drain EXCEPT ![d].at = "locked"]
      /\ UNCHANGED <<rows, head, cmd, pending, visible, nextId, staged, before, clock>>
  BY DEF DrainLocks, LockHead
<1>2. drain[d] \in Drains /\ drain[d].claimed \in Seq(PendRows) /\ drain[d].ids \subseteq Nat
  BY DrainType
<1>3. x \in Drains
  BY <1>2 DEF Drains
<1>4. drain' = [drain EXCEPT ![d] = x]
  <2>1. [drain[d] EXCEPT !.at = "locked"] = x
    BY SMT, <1>2 DEF Drains
  <2> QED  BY <1>1, <2>1
<1>5. x.at = "locked" /\ x.ids = drain[d].ids /\ x.claimed = drain[d].claimed
  OBVIOUS
<1> HIDE DEF x
<1>6. Became(d, x)
  BY <1>3, <1>4, DrainBecomes DEF AuditInv
<1>7. LockInv'
  <2>1. \A c \in Cmds : cmd[c] # "locked"
    BY <1>1, ChainAssumption DEF AuditInv, LockInv
  <2>2. \A e \in Drainers : drain[e].at # "locked"
    BY <1>1, ChainAssumption DEF AuditInv, LockInv
  <2>3. \A e \in Drainers : drain'[e].at = "locked" => lock' = e
    BY <1>1, <1>6, <2>2 DEF Became
  <2> QED  BY <1>1, <2>1, <2>3 DEF LockInv
<1>8. ClaimInv'
  <2>1. \A e \in Drainers :
          /\ drain'[e].claimed = drain[e].claimed
          /\ drain'[e].at \in {"claimed", "locked"} => drain[e].at \in {"claimed", "locked"}
    BY <1>1, <1>5, <1>6 DEF Became
  <2> QED  BY <1>1, <2>1 DEF AuditInv, ClaimInv
<1>9. \A p, q \in pending : <<p.cmd, q.cmd>> \in before =>
         /\ q.id \in x.ids => p.id \in x.ids
         /\ q \in Range(x.claimed) => p \in Range(x.claimed)
  BY <1>5 DEF AuditInv, OrderInv, Together
<1>10. prev' \in Hashes
  BY <1>1 DEF AuditInv, ChainType
<1>11. \A i \in x.ids : i \in visible \/ i \in drain[d].ids
  BY <1>5
<1> QED  BY <1>1, <1>3, <1>6, <1>7, <1>8, <1>9, <1>10, <1>11, DrainKeeps

LEMMA ClaimShrinks ==
    ASSUME AuditInv, NEW d \in Drainers, Became(d, Quiet), pending' \subseteq pending,
           \A e \in Drainers : e # d => Range(drain[e].claimed) \subseteq pending'
    PROVE  ClaimInv'
<1>1. ASSUME NEW e \in Drainers
      PROVE  /\ Range(drain'[e].claimed) \subseteq pending'
             /\ drain'[e].at \in {"claimed", "locked"} => drain'[e].claimed # <<>>
             /\ \A i, j \in DOMAIN drain'[e].claimed :
                  i < j => drain'[e].claimed[i].id < drain'[e].claimed[j].id
  <2>1. CASE e = d
    <3>1. drain'[e] = Quiet
      BY <2>1 DEF Became
    <3> QED  BY SMT, <3>1, QuietIsDrain DEF Quiet
  <2>2. CASE e # d
    <3>1. drain'[e] = drain[e]
      BY <2>2 DEF Became
    <3> QED  BY <2>2, <3>1 DEF AuditInv, ClaimInv
  <2> QED  BY <2>1, <2>2
<1>2. ASSUME NEW e \in Drainers, NEW f \in Drainers, e # f
      PROVE  Range(drain'[e].claimed) \cap Range(drain'[f].claimed) = {}
  <2>1. \A g \in Drainers : Range(drain'[g].claimed) \subseteq Range(drain[g].claimed)
    BY QuietIsDrain DEF Became
  <2> QED  BY <1>2, <2>1 DEF AuditInv, ClaimInv
<1> QED  BY <1>1, <1>2 DEF ClaimInv

LEMMA DrainFailsKeeps ==
    ASSUME AuditInv, NEW d \in Drainers, DrainFails(d)
    PROVE  AuditInv'
<1>1. /\ drain' = [drain EXCEPT ![d] = Quiet]
      /\ lock' = IF lock = d THEN NoTx ELSE lock
      /\ prev' = IF lock = d THEN Genesis ELSE prev
      /\ UNCHANGED <<rows, head, cmd, pending, visible, nextId, staged, before, clock>>
  BY DEF DrainFails
<1>2. Became(d, Quiet) /\ Quiet \in Drains
  BY <1>1, QuietIsDrain, DrainBecomes DEF AuditInv
<1>3. LockInv'
  <2>1. lock' # NoTx => prev' = head'
    BY <1>1 DEF AuditInv, LockInv
  <2>2. \A c \in Cmds : cmd'[c] = "locked" => lock' = c /\ c \notin Durable
    BY <1>1, ChainAssumption DEF AuditInv, LockInv
  <2>3. \A e \in Drainers : drain'[e].at = "locked" => lock' = e
    BY <1>1, <1>2 DEF AuditInv, LockInv, Became, Quiet
  <2> QED  BY <2>1, <2>2, <2>3 DEF LockInv
<1>4. ClaimInv'
  <2>1. pending' = pending /\ \A e \in Drainers : Range(drain[e].claimed) \subseteq pending
    BY <1>1 DEF AuditInv, ClaimInv
  <2> QED  BY <1>2, <2>1, ClaimShrinks
<1>5. prev' \in Hashes
  <2>1. prev \in Hashes /\ Genesis \in Hashes
    BY SMT DEF AuditInv, ChainType, Genesis, Hashes
  <2> QED  BY <1>1, <2>1
<1>6. Quiet.ids = {} /\ Range(Quiet.claimed) = {}
  BY QuietIsDrain DEF Quiet
<1> QED  BY <1>1, <1>2, <1>3, <1>4, <1>5, <1>6, DrainKeeps

\* E holds rows that wait, each once, in the order of their ids.
Batch(E) ==
    /\ E \in Seq(Entries) /\ E \in Seq(PendRows) /\ Len(E) \in Nat /\ DOMAIN E = 1..Len(E)
    /\ \A j \in 1..Len(E) : E[j] \in pending /\ E[j].cmd \in Durable /\ E[j].id \in Nat
    /\ \A p \in Range(E) : \E j \in 1..Len(E) : E[j] = p
    /\ \A j \in 1..Len(E) : E[j] \in Range(E)
    /\ \A i, j \in 1..Len(E) : i < j => E[i].id < E[j].id
    /\ \A i, j \in 1..Len(E) : E[i].cmd = E[j].cmd => i = j

LEMMA ClaimEntries ==
    ASSUME AuditInv, NEW d \in Drainers, NEW E, E = drain[d].claimed
    PROVE  Batch(E)
<1>1. E \in Seq(PendRows)
  BY DrainType
<1>2. E \in Seq(Entries) /\ Len(E) \in Nat /\ DOMAIN E = 1..Len(E)
  BY SMT, <1>1 DEF Entries
<1>3. /\ \A p \in Range(E) : \E j \in 1..Len(E) : E[j] = p
      /\ \A j \in 1..Len(E) : E[j] \in Range(E)
  BY <1>2 DEF Range
<1>4. \A j \in 1..Len(E) : E[j] \in pending /\ E[j].cmd \in Durable /\ E[j].id \in Nat
  <2>1. Range(E) \subseteq pending /\ pending \subseteq PendRows
    BY DEF AuditInv, ClaimInv, ChainType
  <2> QED  BY <1>3, <2>1 DEF PendRows
<1>5. \A i, j \in 1..Len(E) : i < j => E[i].id < E[j].id
  BY <1>2 DEF AuditInv, ClaimInv
<1>6. ASSUME NEW i \in 1..Len(E), NEW j \in 1..Len(E), E[i].cmd = E[j].cmd PROVE i = j
  <2>1. E[i] = E[j]
    BY <1>4, <1>6 DEF AuditInv, OnceInv
  <2>2. ~(i < j) /\ ~(j < i)
    BY SMT, <1>4, <1>5, <2>1
  <2> QED  BY SMT, <1>2, <2>2
<1> QED  BY <1>1, <1>2, <1>3, <1>4, <1>5, <1>6 DEF Batch

\* The chain grew by the batch E, whose rows no longer wait.
Applied(E) ==
    /\ UNCHANGED <<cmd, before>> /\ pending' = pending \ Range(E)
    /\ \A k \in DOMAIN rows' :
         \/ k \in DOMAIN rows /\ rows'[k] = rows[k]
         \/ \E j \in 1..Len(E) : k = Len(rows) + j /\ rows'[k].cmd = E[j].cmd
    /\ \A k \in DOMAIN rows : k \in DOMAIN rows' /\ rows'[k] = rows[k] /\ k <= Len(rows) /\ k \in Nat
    /\ \A j \in 1..Len(E) :
         Len(rows) + j \in DOMAIN rows' /\ rows'[Len(rows) + j].cmd = E[j].cmd

LEMMA AppliedOnce ==
    ASSUME AuditInv, NEW d \in Drainers, NEW E, E = drain[d].claimed, Applied(E)
    PROVE  OnceInv'
<1>1. /\ \A j \in 1..Len(E) : E[j] \in pending
      /\ \A p \in Range(E) : \E j \in 1..Len(E) : E[j] = p
      /\ \A j \in 1..Len(E) : E[j] \in Range(E)
      /\ \A i, j \in 1..Len(E) : E[i].cmd = E[j].cmd => i = j
  <2>1. Batch(E)
    BY ClaimEntries
  <2> QED  BY <2>1 DEF Batch
<1>2. \A k, l \in DOMAIN rows' : rows'[k].cmd = rows'[l].cmd => k = l
  <2>1. SUFFICES ASSUME NEW k \in DOMAIN rows', NEW l \in DOMAIN rows', rows'[k].cmd = rows'[l].cmd
                 PROVE  k = l
    OBVIOUS
  <2>2. CASE k \in DOMAIN rows /\ rows'[k] = rows[k] /\ l \in DOMAIN rows /\ rows'[l] = rows[l]
    BY <2>1, <2>2 DEF AuditInv, OnceInv
  <2>3. ASSUME NEW g \in DOMAIN rows, NEW j \in 1..Len(E), rows[g].cmd = E[j].cmd PROVE FALSE
    BY SMT, <1>1, <2>3 DEF AuditInv, OnceInv
  <2>4. ASSUME NEW i \in 1..Len(E), NEW j \in 1..Len(E), k = Len(rows) + i, l = Len(rows) + j,
               rows'[k].cmd = E[i].cmd, rows'[l].cmd = E[j].cmd
        PROVE  k = l
    <3>1. E[i].cmd = E[j].cmd
      BY <2>1, <2>4
    <3>2. i = j
      BY <1>1, <3>1
    <3> QED  BY <2>4, <3>2
  <2>5. /\ \/ k \in DOMAIN rows /\ rows'[k] = rows[k]
           \/ \E i \in 1..Len(E) : k = Len(rows) + i /\ rows'[k].cmd = E[i].cmd
        /\ \/ l \in DOMAIN rows /\ rows'[l] = rows[l]
           \/ \E j \in 1..Len(E) : l = Len(rows) + j /\ rows'[l].cmd = E[j].cmd
    BY DEF Applied
  <2> QED  BY <2>1, <2>2, <2>3, <2>4, <2>5
<1>3. ASSUME NEW k \in DOMAIN rows' PROVE cmd[rows'[k].cmd] = "committed"
  <2>1. CASE k \in DOMAIN rows /\ rows'[k] = rows[k]
    BY <2>1 DEF AuditInv, OnceInv
  <2>2. CASE \E j \in 1..Len(E) : k = Len(rows) + j /\ rows'[k].cmd = E[j].cmd
    BY SMT, <1>1, <2>2 DEF AuditInv, OnceInv
  <2> QED  BY <2>1, <2>2 DEF Applied
<1>4. ASSUME NEW p \in pending \ Range(E)
      PROVE  cmd[p.cmd] = "committed" /\ \A k \in DOMAIN rows' : rows'[k].cmd # p.cmd
  <2>1. cmd[p.cmd] = "committed" /\ \A k \in DOMAIN rows : rows[k].cmd # p.cmd
    BY DEF AuditInv, OnceInv
  <2>2. \A j \in 1..Len(E) : E[j].cmd # p.cmd
    BY SMT, <1>1 DEF AuditInv, OnceInv
  <2> QED  BY SMT, <2>1, <2>2 DEF Applied
<1>5. ASSUME NEW c \in Cmds, cmd[c] = "committed"
      PROVE  \/ \E k \in DOMAIN rows' : rows'[k].cmd = c
             \/ \E p \in pending \ Range(E) : p.cmd = c
  <2>1. CASE \E k \in DOMAIN rows : rows[k].cmd = c
    BY <2>1 DEF Applied
  <2>2. CASE \E p \in pending : p.cmd = c
    <3>1. PICK p \in pending : p.cmd = c
      BY <2>2
    <3>2. CASE p \in Range(E)
      <4>1. PICK j \in 1..Len(E) : E[j] = p
        BY <1>1, <3>2
      <4>2. Len(rows) + j \in DOMAIN rows' /\ rows'[Len(rows) + j].cmd = c
        BY <3>1, <4>1 DEF Applied
      <4> QED  BY <4>2
    <3> QED  BY <3>1, <3>2
  <2> QED  BY <1>5, <2>1, <2>2 DEF AuditInv, OnceInv
<1>6. \A p, q \in pending : p.cmd = q.cmd \/ p.id = q.id => p = q
  BY DEF AuditInv, OnceInv
<1>7. cmd' = cmd /\ pending' = pending \ Range(E)
  BY DEF Applied
<1> QED  BY SMT, <1>2, <1>3, <1>4, <1>5, <1>6, <1>7 DEF OnceInv

LEMMA AppliedOrder ==
    ASSUME AuditInv, NEW d \in Drainers, NEW E, E = drain[d].claimed, Applied(E),
           Became(d, Quiet), visible' = visible
    PROVE  OrderInv'
<1>1. /\ \A j \in 1..Len(E) : E[j] \in pending /\ E[j].cmd \in Durable /\ E[j].id \in Nat
      /\ \A j \in 1..Len(E) : E[j] \in Range(E)
      /\ \A i, j \in 1..Len(E) : i < j => E[i].id < E[j].id
      /\ Len(E) \in Nat /\ Len(rows) \in Nat
  <2>1. Batch(E) /\ Len(rows) \in Nat
    BY SMT, ClaimEntries DEF AuditInv, ChainType
  <2> QED  BY <2>1 DEF Batch
<1>2. cmd' = cmd /\ before' = before /\ pending' = pending \ Range(E)
  BY DEF Applied
<1>3. FollowsCommitOrder'
  <2>1. SUFFICES ASSUME NEW k \in DOMAIN rows', NEW l \in DOMAIN rows', k < l,
                        {rows'[k].cmd, rows'[l].cmd} \subseteq Durable
                 PROVE  <<rows'[l].cmd, rows'[k].cmd>> \notin before
    BY <1>2 DEF FollowsCommitOrder
  <2>2. CASE l \in DOMAIN rows /\ rows'[l] = rows[l]
    <3>1. k \in DOMAIN rows /\ rows'[k] = rows[k]
      BY SMT, <1>1, <2>1, <2>2 DEF Applied
    <3> QED  BY <2>1, <2>2, <3>1 DEF AuditInv, OrderInv, FollowsCommitOrder
  <2>3. CASE \E j \in 1..Len(E) : l = Len(rows) + j /\ rows'[l].cmd = E[j].cmd
    <3>1. PICK j \in 1..Len(E) : l = Len(rows) + j /\ rows'[l].cmd = E[j].cmd
      BY <2>3
    <3>2. CASE k \in DOMAIN rows /\ rows'[k] = rows[k]
      BY <1>1, <2>1, <3>1, <3>2 DEF AuditInv, OrderInv
    <3>3. CASE \E i \in 1..Len(E) : k = Len(rows) + i /\ rows'[k].cmd = E[i].cmd
      <4>1. PICK i \in 1..Len(E) : k = Len(rows) + i /\ rows'[k].cmd = E[i].cmd
        BY <3>3
      <4>2. i < j
        BY SMT, <1>1, <2>1, <3>1, <4>1
      <4>3. E[i].id < E[j].id /\ E[i].id \in Nat /\ E[j].id \in Nat
        BY <1>1, <4>2
      <4>4. <<E[j].cmd, E[i].cmd>> \in before => E[j].id < E[i].id
        BY <1>1 DEF AuditInv, OrderInv, Together
      <4> QED  BY SMT, <3>1, <4>1, <4>3, <4>4
    <3> QED  BY <3>2, <3>3 DEF Applied
  <2> QED  BY <2>2, <2>3 DEF Applied
<1>4. ASSUME NEW p \in pending \ Range(E), NEW k \in DOMAIN rows', rows'[k].cmd \in Durable
      PROVE  <<p.cmd, rows'[k].cmd>> \notin before
  <2>1. CASE k \in DOMAIN rows /\ rows'[k] = rows[k]
    BY <1>4, <2>1 DEF AuditInv, OrderInv
  <2>2. CASE \E j \in 1..Len(E) : k = Len(rows) + j /\ rows'[k].cmd = E[j].cmd
    <3>1. PICK j \in 1..Len(E) : rows'[k].cmd = E[j].cmd
      BY <2>2
    <3>2. <<p.cmd, E[j].cmd>> \in before => p \in Range(E)
      BY <1>1 DEF AuditInv, OrderInv, Together
    <3> QED  BY <3>1, <3>2
  <2> QED  BY <2>1, <2>2 DEF Applied
<1>5. ASSUME NEW p \in pending \ Range(E), NEW q \in pending \ Range(E) PROVE Together(p, q)'
  <2>1. SUFFICES ASSUME <<p.cmd, q.cmd>> \in before, NEW e \in Drainers
                 PROVE  /\ p.id < q.id /\ (q.id \in visible => p.id \in visible)
                        /\ q.id \in drain'[e].ids => p.id \in drain'[e].ids
                        /\ q \in Range(drain'[e].claimed) => p \in Range(drain'[e].claimed)
    BY <1>2 DEF Together
  <2>2. /\ p.id < q.id /\ (q.id \in visible => p.id \in visible)
        /\ q.id \in drain[e].ids => p.id \in drain[e].ids
        /\ q \in Range(drain[e].claimed) => p \in Range(drain[e].claimed)
    BY <2>1 DEF AuditInv, OrderInv, Together
  <2>3. Quiet.ids = {} /\ Range(Quiet.claimed) = {}
    BY QuietIsDrain DEF Quiet
  <2> QED  BY <2>1, <2>2, <2>3 DEF Became
<1>6. \A a, b \in Cmds : <<a, b>> \in before => cmd[a] = "committed" /\ cmd[b] # "new"
  BY DEF AuditInv, OrderInv
<1> QED  BY <1>2, <1>3, <1>4, <1>5, <1>6 DEF OrderInv

LEMMA ApplyKeeps ==
    ASSUME Library, AuditInv, NEW d \in Drainers, Apply(d)
    PROVE  AuditInv'
<1>1. PICK E \in Seq(PendRows) : E = drain[d].claimed
  BY DrainType
<1>2. /\ drain[d].at = "locked" /\ lock = d /\ Extend(E) /\ pending' = pending \ Range(E)
      /\ drain' = [drain EXCEPT ![d] = Quiet]
      /\ UNCHANGED <<cmd, visible, nextId, staged, before, clock>>
  BY <1>1 DEF Apply
<1>3. E \in Seq(Entries) /\ E # <<>>
  <2>1. Batch(E)
    BY <1>1, ClaimEntries
  <2>2. drain[d].at \in {"claimed", "locked"} => drain[d].claimed # <<>>
    BY DEF AuditInv, ClaimInv
  <2> QED  BY <1>1, <1>2, <2>1, <2>2 DEF Batch
<1>4. Grew(E) /\ ChainIntact'
  <2>1. prev = head
    BY <1>2, ChainAssumption DEF AuditInv, LockInv
  <2> QED  BY <1>2, <1>3, <2>1, ExtendGrows, ExtendKeepsChain DEF AuditInv
<1>5. Became(d, Quiet)
  BY <1>2, QuietIsDrain, DrainBecomes DEF AuditInv
<1>6. Applied(E)
  <2>1. ChainType
    BY DEF AuditInv
  <2>2. /\ \A k \in DOMAIN rows' :
             \/ k \in DOMAIN rows /\ rows'[k] = rows[k]
             \/ \E j \in 1..Len(E) : k = Len(rows) + j /\ rows'[k].cmd = E[j].cmd
        /\ \A k \in DOMAIN rows : k \in DOMAIN rows' /\ rows'[k] = rows[k]
        /\ \A j \in 1..Len(E) :
             Len(rows) + j \in DOMAIN rows' /\ rows'[Len(rows) + j].cmd = E[j].cmd
        /\ DOMAIN rows = 1..Len(rows) /\ Len(rows) \in Nat
    BY <1>3, <1>4, <2>1, RowsOf
  <2>3. \A k \in DOMAIN rows : k <= Len(rows) /\ k \in Nat
    BY SMT, <2>2
  <2> QED  BY <1>2, <2>2, <2>3 DEF Applied
<1>7. ChainType'
  <2>1. IsFiniteSet(pending') /\ pending' \subseteq PendRows
    BY <1>2, FiniteSubset DEF AuditInv, ChainType
  <2>2. prev' \in Hashes
    BY SMT, <1>2 DEF Extend, Genesis, Hashes
  <2>3. rows' \in Seq(LogRows) /\ head' \in Hashes
    BY <1>4 DEF Grew
  <2>4. drain' \in [Drainers -> Drains]
    BY <1>5 DEF Became
  <2> QED  BY <1>2, <2>1, <2>2, <2>3, <2>4 DEF AuditInv, ChainType
<1>8. LockInv'
  <2>1. lock' = NoTx
    BY <1>2 DEF Extend
  <2>2. \A c \in Cmds : cmd[c] # "locked"
    BY <1>2, ChainAssumption DEF AuditInv, LockInv
  <2>3. \A e \in Drainers : drain'[e].at # "locked"
    BY <1>2, <1>5 DEF AuditInv, LockInv, Became, Quiet
  <2> QED  BY <1>2, <2>1, <2>2, <2>3 DEF LockInv
<1>9. OnceInv'
  BY <1>1, <1>6, AppliedOnce
<1>10. OrderInv'
  BY <1>1, <1>2, <1>5, <1>6, AppliedOrder
<1>11. ClaimInv'
  <2>1. \A e \in Drainers : e # d => Range(drain[e].claimed) \subseteq pending'
    BY <1>1, <1>2 DEF AuditInv, ClaimInv
  <2> QED  BY <1>2, <1>5, <2>1, ClaimShrinks
<1>12. StagedInv'
  <2>1. \A e \in Drainers : drain'[e].ids \subseteq drain[e].ids
    BY SMT, <1>5 DEF Became, Quiet
  <2>2. \A c \in Cmds : cmd[c] = "staged" => \A e \in Drainers : staged[c].id \notin drain'[e].ids
    BY SMT, <2>1 DEF AuditInv, StagedInv
  <2>3. \A e \in Drainers : \A i \in drain'[e].ids : i < nextId
    BY <2>1 DEF AuditInv, StagedInv
  <2>4. pending' \subseteq pending
    BY <1>2
  <2> QED  BY <1>2, <2>2, <2>3, <2>4 DEF AuditInv, StagedInv
<1> QED  BY <1>4, <1>7, <1>8, <1>9, <1>10, <1>11, <1>12 DEF AuditInv

-----------------------------------------------------------------------------
(* The invariant: it holds as long as nobody removes or changes rows.      *)

LEMMA AuditInit == Init => AuditInv
<1> SUFFICES ASSUME Init PROVE AuditInv
  OBVIOUS
<1>1. ChainType
  <2>1. IsFiniteSet({}) /\ <<>> \in Seq(LogRows) /\ <<>> \in Hashes
    BY SMT, FiniteEmpty DEF Hashes
  <2> QED  BY <2>1, QuietIsDrain DEF Init, ChainType, Genesis
<1>2. LockInv /\ OnceInv
  BY SMT DEF Init, LockInv, OnceInv, Quiet
<1>3. ChainIntact
  BY SMT DEF Init, ChainIntact, Linked, Genesis
<1>4. StagedInv
  BY DEF Init, StagedInv, Quiet
<1>5. ClaimInv
  BY SMT, QuietIsDrain DEF Init, ClaimInv, Quiet
<1>6. OrderInv
  BY DEF Init, OrderInv, FollowsCommitOrder
<1> QED  BY <1>1, <1>2, <1>3, <1>4, <1>5, <1>6 DEF AuditInv

LEMMA AuditStep ==
    ASSUME Library, ~edited => AuditInv, [Next]_vars
    PROVE  ~edited' => AuditInv'
<1> SUFFICES ASSUME ~edited' PROVE AuditInv'
  OBVIOUS
<1>1. ~(Cleanup \/ Edit)
  BY DEF Cleanup, Edit, RowsBecome
<1>2. CASE UNCHANGED vars
  <2>1. AuditInv /\ clock \in Nat
    BY <1>2 DEF vars, AuditInv, ChainType
  <2> QED  BY <1>2, <2>1, QuietKeeps DEF vars, tables
<1>3. CASE Tick
  <2>1. AuditInv /\ clock' \in Nat
    BY SMT, <1>3 DEF Tick, AuditInv, ChainType
  <2> QED  BY <1>3, <2>1, QuietKeeps DEF Tick
<1>4. CASE VerifyHead \/ VerifyReturns \/ \E since \in 0..clock : VerifyRows(since)
  <2>1. AuditInv /\ clock' \in Nat
    BY <1>4 DEF VerifyHead, VerifyReturns, VerifyRows, AuditInv, ChainType
  <2> QED  BY <1>4, <2>1, QuietKeeps DEF VerifyHead, VerifyReturns, VerifyRows
<1>5. CASE Replicate
  BY <1>5, ReplicateKeeps DEF Replicate
<1>6. ASSUME NEW c \in Cmds,
             Record(c) \/ Commit(c) \/ InsertPending(c) \/ CommitStaged(c) \/ Rollback(c)
      PROVE  AuditInv'
  <2>1. AuditInv
    BY <1>6 DEF Record, Commit, InsertPending, CommitStaged, Rollback
  <2> QED  BY <1>6, <2>1, RecordKeeps, CommitKeeps, InsertPendingKeeps, CommitStagedKeeps, RollbackKeeps
<1>7. ASSUME NEW d \in Drainers, Drain(d) \/ DrainFails(d)
      PROVE  AuditInv'
  <2>1. AuditInv
    BY <1>7 DEF Drain, ReadPending, Claim, DrainLocks, Apply, DrainFails
  <2> QED  BY <1>7, <2>1, ReadPendingKeeps, ClaimKeeps, DrainLocksKeeps, ApplyKeeps, DrainFailsKeeps
           DEF Drain
<1> QED  BY <1>1, <1>2, <1>3, <1>4, <1>5, <1>6, <1>7 DEF Next

\* A set that holds at most one thing has one element, or none.
LEMMA CountOne ==
    ASSUME NEW S, \A x, y \in S : x = y
    PROVE  Cardinality(S) = IF S = {} THEN 0 ELSE 1
<1>1. CASE S = {}
  BY <1>1, EmptyCount
<1>2. CASE S # {}
  <2>1. PICK x : x \in S
    BY <1>2
  <2>2. S = {x}
    BY <2>1
  <2> QED  BY <1>2, <2>2, SingleCount
<1> QED  BY <1>1, <1>2

LEMMA OnceOfInv == AuditInv => ExactlyOnce
<1> SUFFICES ASSUME AuditInv, NEW c \in Cmds
             PROVE  Cardinality(Recorded(c)) + Cardinality(Waiting(c)) =
                       IF cmd[c] = "committed" THEN 1 ELSE 0
  BY DEF ExactlyOnce
<1>1. \A x, y \in Recorded(c) : x = y
  BY SMT DEF AuditInv, OnceInv, Recorded
<1>2. \A x, y \in Waiting(c) : x = y
  BY SMT DEF AuditInv, OnceInv, Waiting
<1>3. /\ Cardinality(Recorded(c)) = IF Recorded(c) = {} THEN 0 ELSE 1
      /\ Cardinality(Waiting(c)) = IF Waiting(c) = {} THEN 0 ELSE 1
  BY <1>1, <1>2, CountOne
<1>4. Recorded(c) # {} \/ Waiting(c) # {} => cmd[c] = "committed"
  BY SMT DEF AuditInv, OnceInv, Recorded, Waiting
<1>5. Recorded(c) = {} \/ Waiting(c) = {}
  BY SMT DEF AuditInv, OnceInv, Recorded, Waiting
<1>6. cmd[c] = "committed" => Recorded(c) # {} \/ Waiting(c) # {}
  BY DEF AuditInv, OnceInv, Recorded, Waiting
<1> QED  BY SMT, <1>3, <1>4, <1>5, <1>6

-----------------------------------------------------------------------------
(* The walk. Rows carry prefixes of the head, whatever is removed or edited. *)

LEMMA Climb ==
    ASSUME Library, NEW m \in Nat, NEW T, 0 \in T, \A k \in 1..m : k - 1 \in T => k \in T
    PROVE  \A k \in 0..m : k \in T
<1> DEFINE U == {k \in 0..m : k \notin T}
<1>1. SUFFICES ASSUME NEW n \in U PROVE FALSE
  OBVIOUS
<1>2. U \in SUBSET Nat
  BY SMT
<1>3. PICK l \in U : \A k \in U : l <= k
  <2> HIDE DEF U
  <2> QED  BY <1>1, <1>2, Least
<1>4. l \in 1..m /\ l - 1 \in 0..m /\ l \notin T /\ ~(l <= l - 1)
  BY SMT, <1>3
<1>5. l - 1 \notin U
  BY <1>3, <1>4
<1> QED  BY <1>4, <1>5

\* The row r stands where its hash ends in h.
OnChain(r, h) ==
    /\ Len(r.hash) = Len(r.prev) + 1 /\ Len(r.hash) <= Len(h)
    /\ \A i \in 1..Len(r.hash) : r.hash[i] = h[i]
    /\ \A i \in 1..Len(r.prev) : r.prev[i] = h[i]

\* The rows of the table are some of the rows that made h, in their order.
Aligned(table, h) ==
    /\ \A k \in 1..Len(table) : OnChain(table[k], h)
    /\ \A j, k \in 1..Len(table) : j < k => Len(table[j].hash) < Len(table[k].hash)

LEMMA AlignedLonger ==
    ASSUME NEW table \in Seq(LogRows), NEW g \in Hashes, NEW h \in Hashes,
           Aligned(table, g), Extends(h, g)
    PROVE  Aligned(table, h)
<1>1. ASSUME NEW k \in 1..Len(table) PROVE OnChain(table[k], h)
  <2>1. OnChain(table[k], g)
    BY DEF Aligned
  <2>2. table[k] \in LogRows
    BY SMT
  <2>3. PICK r \in LogRows : r = table[k]
    BY <2>2
  <2>4. r.hash \in Hashes /\ r.prev \in Hashes
    BY DEF LogRows
  <2>5. Len(r.hash) \in Nat /\ Len(r.prev) \in Nat /\ Len(g) \in Nat /\ Len(h) \in Nat
    BY SMT, <2>4 DEF Hashes
  <2>6. OnChain(r, h)
    BY SMT, <2>1, <2>3, <2>5 DEF OnChain, Extends
  <2> QED  BY <2>3, <2>6
<1> QED  BY <1>1 DEF Aligned

\* A table that holds only rows of another, in the same order.
Within(new, table) ==
    \E f \in [1..Len(new) -> 1..Len(table)] :
        /\ \A i \in 1..Len(new) : new[i].hash = table[f[i]].hash /\ new[i].prev = table[f[i]].prev
        /\ \A i, j \in 1..Len(new) : i < j => f[i] < f[j]

LEMMA AlignedWithin ==
    ASSUME NEW table \in Seq(LogRows), NEW new \in Seq(LogRows), NEW h \in Hashes,
           Aligned(table, h), Within(new, table)
    PROVE  Aligned(new, h)
<1>1. PICK f \in [1..Len(new) -> 1..Len(table)] :
        /\ \A i \in 1..Len(new) : new[i].hash = table[f[i]].hash /\ new[i].prev = table[f[i]].prev
        /\ \A i, j \in 1..Len(new) : i < j => f[i] < f[j]
  BY DEF Within
<1>2. ASSUME NEW i \in 1..Len(new) PROVE OnChain(new[i], h)
  <2>1. OnChain(table[f[i]], h)
    BY DEF Aligned
  <2> QED  BY <1>1, <2>1 DEF OnChain
<1>3. ASSUME NEW i \in 1..Len(new), NEW j \in 1..Len(new), i < j
      PROVE  Len(new[i].hash) < Len(new[j].hash)
  <2>1. f[i] \in 1..Len(table) /\ f[j] \in 1..Len(table) /\ f[i] < f[j]
    BY <1>1, <1>3
  <2>2. Len(table[f[i]].hash) < Len(table[f[j]].hash)
    BY <2>1 DEF Aligned
  <2> QED  BY <1>1, <2>2
<1> QED  BY <1>2, <1>3 DEF Aligned

\* The hashes that a batch passes through, each one entry longer.
LEMMA HashesClimb ==
    ASSUME Library, NEW m \in Nat, NEW h \in [0..m -> Hashes],
           \A k \in 1..m : \E e \in Cmds \X Nat : h[k] = Append(h[k - 1], e)
    PROVE  \A k \in 0..m :
             Len(h[k]) = Len(h[0]) + k /\ \A j \in 0..k : Extends(h[k], h[j])
<1> DEFINE Q(k) == Len(h[k]) = Len(h[0]) + k /\ \A j \in 0..k : Extends(h[k], h[j])
           T == {k \in 0..m : Q(k)}
<1>1. \A k \in 0..m : Len(h[k]) \in Nat
  BY SMT DEF Hashes
<1>2. 0 \in T
  <2>1. \A j \in 0..0 : j = 0
    BY SMT
  <2>2. Extends(h[0], h[0])
    BY SMT, <1>1 DEF Extends
  <2> QED  BY SMT, <1>1, <2>1, <2>2
<1>3. ASSUME NEW k \in 1..m, k - 1 \in T PROVE k \in T
  <2>1. k - 1 \in 0..m /\ k \in 0..m /\ Q(k - 1)
    BY SMT, <1>3
  <2>2. PICK e \in Cmds \X Nat : h[k] = Append(h[k - 1], e)
    OBVIOUS
  <2>3. PICK g \in Seq(Cmds \X Nat) : g = h[k - 1]
    BY <2>1 DEF Hashes
  <2>4. Len(h[k]) = Len(g) + 1 /\ \A i \in 1..Len(g) : h[k][i] = g[i]
    BY SMT, <2>2, <2>3
  <2>5. Len(h[k]) = Len(h[0]) + k
    BY SMT, <1>1, <2>1, <2>3, <2>4
  <2>6. ASSUME NEW j \in 0..k PROVE Extends(h[k], h[j])
    <3>1. CASE j = k
      BY SMT, <1>1, <2>1, <3>1 DEF Extends
    <3>2. CASE j # k
      <4>1. j \in 0..k - 1 /\ j \in 0..m
        BY SMT, <3>2
      <4>2. Extends(g, h[j]) /\ Len(h[j]) \in Nat /\ Len(g) \in Nat
        BY <1>1, <2>1, <2>3, <4>1
      <4>3. \A i \in 1..Len(h[j]) : i \in 1..Len(g) /\ g[i] = h[j][i]
        BY SMT, <4>2 DEF Extends
      <4>4. \A i \in 1..Len(h[j]) : h[k][i] = h[j][i]
        BY <2>4, <4>3
      <4>5. Len(h[j]) <= Len(h[k])
        BY SMT, <2>4, <4>2 DEF Extends
      <4> QED  BY <4>4, <4>5 DEF Extends
    <3> QED  BY <3>1, <3>2
  <2> QED  BY <2>1, <2>5, <2>6
<1>4. \A k \in 0..m : k \in T
  <2> HIDE DEF T
  <2> QED  BY <1>2, <1>3, Climb
<1> QED  BY <1>4

\* Writers keep the rows aligned with the head they advance.
LEMMA ExtendAligned ==
    ASSUME Library, ChainType, NEW E \in Seq(Entries), Extend(E), E # <<>>, prev = head, Aligned(rows, head)
    PROVE  Aligned(rows', head') /\ Extends(head', head) /\ rows' \in Seq(LogRows) /\ head' \in Hashes
<1> DEFINE n == Len(rows)
           m == Len(E)
<1>1. PICK h \in [0..Len(E) -> Hashes] :
             /\ h[0] = prev /\ head' = h[Len(E)]
             /\ \A k \in 1..Len(E) :
                  /\ h[k] = computeEntryHash(h[k - 1], E[k].cmd, E[k].at)
                  /\ rows'[Len(rows) + k] = Link(h[k - 1], E[k].cmd, E[k].at)
             /\ Grew(E)
  BY ExtendGrows
<1>2. m \in Nat /\ n \in Nat /\ rows \in Seq(LogRows) /\ head \in Hashes
  BY SMT DEF ChainType
<1>3. ASSUME NEW k \in 1..m PROVE \E e \in Cmds \X Nat : h[k] = Append(h[k - 1], e)
  <2>1. E[k].cmd \in Cmds /\ E[k].at \in Nat
    BY SMT, ChainAssumption DEF Entries, PendRows
  <2> QED  BY <1>1, <2>1 DEF computeEntryHash
<1>4. \A k \in 0..m : Len(h[k]) = Len(h[0]) + k /\ \A j \in 0..k : Extends(h[k], h[j])
  BY <1>2, <1>3, HashesClimb
<1>5. rows' \in Seq(LogRows) /\ head' \in Hashes /\ Len(rows') = n + m
  BY <1>1 DEF Grew
<1>6. Extends(head', head)
  <2>1. 0 \in 0..m /\ m \in 0..m
    BY SMT, <1>2
  <2> QED  BY <1>1, <1>4, <2>1
<1>7. Aligned(rows, head')
  BY <1>2, <1>5, <1>6, AlignedLonger
<1>8. ASSUME NEW k \in 1..m
      PROVE  /\ OnChain(rows'[n + k], head')
             /\ Len(rows'[n + k].hash) = Len(head) + k
  <2>1. k \in 0..m /\ k - 1 \in 0..m /\ m \in 0..m /\ k \in 0..m /\ k - 1 \in 0..k
    BY SMT, <1>2
  <2>2. rows'[n + k].hash = h[k] /\ rows'[n + k].prev = h[k - 1]
    <3>1. /\ rows'[n + k] = Link(h[k - 1], E[k].cmd, E[k].at)
          /\ h[k] = computeEntryHash(h[k - 1], E[k].cmd, E[k].at)
      BY <1>1
    <3> QED  BY SMT, <3>1 DEF Link
  <2>3. Len(h[k]) = Len(head) + k /\ Len(h[k - 1]) = Len(head) + (k - 1)
    BY <1>1, <1>4, <2>1
  <2>4. Extends(head', h[k]) /\ Extends(head', h[k - 1])
    BY <1>1, <1>2, <1>4, <2>1
  <2>5. Len(head) \in Nat
    BY SMT, <1>2 DEF Hashes
  <2> QED  BY SMT, <2>2, <2>3, <2>4, <2>5 DEF OnChain, Extends
<1>9. ASSUME NEW k \in 1..n + m
      PROVE  \/ k \in 1..n /\ rows'[k] = rows[k]
             \/ \E j \in 1..m : k = n + j
  <2>1. CASE k <= n
    <3>1. k \in 1..n
      BY SMT, <1>2, <2>1
    <3> QED  BY <1>1, <3>1 DEF Grew
  <2>2. CASE ~(k <= n)
    <3>1. k - n \in 1..m /\ k = n + (k - n)
      BY SMT, <1>2, <2>2
    <3> QED  BY <3>1
  <2> QED  BY <2>1, <2>2
<1>10. \A k \in 1..n : OnChain(rows[k], head')
  BY <1>7 DEF Aligned
<1>11. ASSUME NEW i \in 1..n + m, NEW k \in 1..n + m, i < k
       PROVE  Len(rows'[i].hash) < Len(rows'[k].hash)
  <2>1. Len(head) \in Nat /\ \A j \in 1..n : Len(rows[j].hash) \in Nat
    <3>1. \A r \in LogRows : r.hash \in Hashes
      BY DEF LogRows
    <3>2. \A j \in 1..n : rows[j] \in LogRows
      BY SMT, <1>2
    <3>3. \A g \in Hashes : Len(g) \in Nat
      BY SMT DEF Hashes
    <3> QED  BY <1>2, <3>1, <3>2, <3>3
  <2>2. CASE k \in 1..n /\ rows'[k] = rows[k]
    <3>1. i \in 1..n /\ rows'[i] = rows[i]
      BY SMT, <1>2, <1>9, <1>11, <2>2
    <3> QED  BY <1>7, <1>11, <2>2, <3>1 DEF Aligned
  <2>3. ASSUME NEW j \in 1..m, k = n + j PROVE Len(rows'[i].hash) < Len(rows'[k].hash)
    <3>1. Len(rows'[k].hash) = Len(head) + j
      BY <1>8, <2>3
    <3>2. CASE i \in 1..n /\ rows'[i] = rows[i]
      <4>1. Len(rows[i].hash) <= Len(head) /\ Len(rows[i].hash) \in Nat
        BY <2>1, <3>2 DEF Aligned, OnChain
      <4> QED  BY SMT, <2>1, <3>1, <3>2, <4>1
    <3>3. ASSUME NEW l \in 1..m, i = n + l PROVE Len(rows'[i].hash) < Len(rows'[k].hash)
      <4>1. Len(rows'[i].hash) = Len(head) + l /\ l < j
        BY SMT, <1>2, <1>8, <1>11, <2>3, <3>3
      <4> QED  BY SMT, <2>1, <3>1, <4>1
    <3> QED  BY <1>9, <3>2, <3>3
  <2> QED  BY <1>9, <2>2, <2>3
<1>12. ASSUME NEW k \in 1..n + m PROVE OnChain(rows'[k], head')
  BY <1>8, <1>9, <1>10
<1>13. Aligned(rows', head')
  BY <1>5, <1>11, <1>12 DEF Aligned
<1> QED  BY <1>5, <1>6, <1>13

\* Since, one row after the other.
Keeping(g, table, t) ==
    g = [k \in 0..Len(table) |->
           IF k = 0 THEN <<>>
           ELSE IF table[k].at >= t THEN Append(g[k - 1], table[k]) ELSE g[k - 1]]

\* What is kept of the first m rows.
Partly(g, table, t, m) ==
    /\ g \in [0..m -> Seq(LogRows)] /\ g[0] = <<>>
    /\ \A k \in 1..m :
         g[k] = IF table[k].at >= t THEN Append(g[k - 1], table[k]) ELSE g[k - 1]

LEMMA KeepingExists ==
    ASSUME Library, NEW table \in Seq(LogRows), NEW t \in Nat
    PROVE  \E g : Keeping(g, table, t)
<1> DEFINE n == Len(table)
           T == {m \in 0..n : \E g : Partly(g, table, t, m)}
<1>1. n \in Nat
  BY SMT
<1>2. 0 \in T
  <2> DEFINE g == [k \in 0..0 |-> <<>>]
  <2>1. g \in [0..0 -> Seq(LogRows)] /\ g[0] = <<>>
    BY SMT
  <2>2. Partly(g, table, t, 0)
    BY SMT, <2>1 DEF Partly
  <2> QED  BY SMT, <1>1, <2>2
<1>3. ASSUME NEW m \in 1..n, m - 1 \in T PROVE m \in T
  <2>1. PICK g : Partly(g, table, t, m - 1)
    BY <1>3
  <2>2. PICK r \in LogRows : r = table[m]
    BY SMT
  <2>3. g[m - 1] \in Seq(LogRows) /\ g \in [0..m - 1 -> Seq(LogRows)]
    BY SMT, <2>1 DEF Partly
  <2>4. PICK q \in Seq(LogRows) : q = IF r.at >= t THEN Append(g[m - 1], r) ELSE g[m - 1]
    <3>1. PICK p \in Seq(LogRows) : p = g[m - 1]
      BY <2>3
    <3>2. Append(p, r) \in Seq(LogRows)
      BY SMT
    <3> QED  BY <3>1, <3>2
  <2> DEFINE f == [k \in 0..m |-> IF k = m THEN q ELSE g[k]]
  <2>5. f \in [0..m -> Seq(LogRows)] /\ f[m] = q /\ (\A k \in 0..m - 1 : f[k] = g[k])
    <3>1. \A k \in 0..m : k = m \/ k \in 0..m - 1
      BY SMT
    <3>2. \A k \in 0..m - 1 : k \in 0..m /\ k # m /\ g[k] \in Seq(LogRows)
      BY SMT, <2>3
    <3>3. m \in 0..m
      BY SMT
    <3> QED  BY <3>1, <3>2, <3>3
  <2>6. f[0] = <<>>
    BY SMT, <2>1, <2>5 DEF Partly
  <2>7. ASSUME NEW k \in 1..m
        PROVE  f[k] = IF table[k].at >= t THEN Append(f[k - 1], table[k]) ELSE f[k - 1]
    <3>1. CASE k = m
      <4>1. m - 1 \in 0..m - 1
        BY SMT
      <4> QED  BY <2>2, <2>4, <2>5, <3>1, <4>1
    <3>2. CASE k # m
      <4>1. k \in 1..m - 1 /\ k \in 0..m - 1 /\ k - 1 \in 0..m - 1
        BY SMT, <3>2
      <4>2. g[k] = IF table[k].at >= t THEN Append(g[k - 1], table[k]) ELSE g[k - 1]
        BY <2>1, <4>1 DEF Partly
      <4>3. f[k] = g[k] /\ f[k - 1] = g[k - 1]
        BY <2>5, <4>1
      <4> HIDE DEF f
      <4> QED  BY <4>2, <4>3
    <3> QED  BY <3>1, <3>2
  <2> HIDE DEF f
  <2>8. Partly(f, table, t, m)
    BY <2>5, <2>6, <2>7 DEF Partly
  <2> QED  BY SMT, <1>1, <2>8
<1>4. n \in T
  <2>1. \A k \in 0..n : k \in T
    <3> HIDE DEF T
    <3> QED  BY <1>1, <1>2, <1>3, Climb
  <2> QED  BY SMT, <1>1, <2>1
<1>5. PICK g : Partly(g, table, t, n)
  BY <1>4
<1>6. ASSUME NEW k \in 0..n
      PROVE  g[k] = IF k = 0 THEN <<>>
                    ELSE IF table[k].at >= t THEN Append(g[k - 1], table[k]) ELSE g[k - 1]
  <2>1. k = 0 \/ k \in 1..n
    BY SMT, <1>1
  <2> QED  BY <1>5, <2>1 DEF Partly
<1>7. g = [k \in 0..n |-> g[k]]
  BY <1>5 DEF Partly
<1>8. Keeping(g, table, t)
  BY <1>6, <1>7 DEF Keeping
<1> QED  BY <1>8

LEMMA SinceIs ==
    ASSUME Library, NEW table \in Seq(LogRows), NEW t \in Nat
    PROVE  \E g : Keeping(g, table, t) /\ Since(table, t) = g[Len(table)]
<1> DEFINE g == CHOOSE x : Keeping(x, table, t)
<1>1. Keeping(g, table, t)
  BY KeepingExists
<1>2. Since(table, t) = g[Len(table)]
  BY DEF Since, Keeping
<1> QED  BY <1>1, <1>2

\* What is kept are rows of the table in their order; from time 0 on, all.
LEMMA SinceWithin ==
    ASSUME Library, NEW table \in Seq(LogRows), NEW t \in Nat
    PROVE  /\ Since(table, t) \in Seq(LogRows) /\ Within(Since(table, t), table)
           /\ t = 0 => Since(table, t) = table
<1> DEFINE n == Len(table)
<1>1. PICK g : Keeping(g, table, t) /\ Since(table, t) = g[Len(table)]
  BY SinceIs
<1>2. /\ n \in Nat /\ g[0] = <<>>
      /\ \A k \in 1..n : g[k] = IF table[k].at >= t THEN Append(g[k - 1], table[k]) ELSE g[k - 1]
  <2>1. g = [k \in 0..n |->
               IF k = 0 THEN <<>>
               ELSE IF table[k].at >= t THEN Append(g[k - 1], table[k]) ELSE g[k - 1]]
    BY <1>1 DEF Keeping
  <2>2. n \in Nat /\ 0 \in 0..n /\ \A k \in 1..n : k \in 0..n /\ k # 0
    BY SMT
  <2> QED  BY <2>1, <2>2
<1> DEFINE Sub(k, f) ==
             /\ f \in [1..Len(g[k]) -> 1..k]
             /\ \A i \in 1..Len(g[k]) : g[k][i] = table[f[i]]
             /\ \A i, j \in 1..Len(g[k]) : i < j => f[i] < f[j]
           Q(k) == /\ g[k] \in Seq(LogRows) /\ \E f : Sub(k, f)
                   /\ t = 0 => Len(g[k]) = k /\ \A i \in 1..k : g[k][i] = table[i]
           T == {k \in 0..n : Q(k)}
<1>3. 0 \in T
  <2> DEFINE f == [i \in 1..0 |-> 0]
  <2>1. 1..0 = {} /\ g[0] \in Seq(LogRows) /\ Len(g[0]) = 0
    BY SMT, <1>2
  <2>2. Sub(0, f)
    BY <2>1
  <2>3. Q(0)
    <3> HIDE DEF Sub, f
    <3> QED  BY <2>1, <2>2
  <2> HIDE DEF Q
  <2> QED  BY SMT, <1>2, <2>3
<1>4. ASSUME NEW k \in 1..n, k - 1 \in T PROVE k \in T
  <2>1. Q(k - 1) /\ k \in 0..n
    <3> HIDE DEF Q
    <3> QED  BY SMT, <1>4
  <2>2. PICK q \in Seq(LogRows) : q = g[k - 1]
    BY <2>1
  <2>3. PICK r \in LogRows : r = table[k]
    BY SMT
  <2>4. PICK f : Sub(k - 1, f)
    BY <2>1
  <2>5. /\ f \in [1..Len(q) -> 1..k - 1] /\ \A i \in 1..Len(q) : q[i] = table[f[i]]
        /\ \A i, j \in 1..Len(q) : i < j => f[i] < f[j]
        /\ Len(q) \in Nat
    BY SMT, <2>2, <2>4
  <2>6. CASE r.at >= t
    <3>1. g[k] = Append(q, r)
      BY <1>2, <2>2, <2>3, <2>6
    <3>2. /\ g[k] \in Seq(LogRows) /\ Len(g[k]) = Len(q) + 1 /\ g[k][Len(q) + 1] = r
          /\ \A i \in 1..Len(q) : g[k][i] = q[i]
      BY SMT, <3>1
    <3> DEFINE e == [i \in 1..Len(q) + 1 |-> IF i = Len(q) + 1 THEN k ELSE f[i]]
    <3>3. /\ e[Len(q) + 1] = k /\ \A i \in 1..Len(q) : e[i] = f[i]
      BY SMT, <2>5
    <3>4. e \in [1..Len(q) + 1 -> 1..k]
      BY SMT, <2>5
    <3> HIDE DEF e
    <3>5. \A i \in 1..Len(q) + 1 : i = Len(q) + 1 \/ i \in 1..Len(q)
      BY SMT, <2>5
    <3>6. \A i \in 1..Len(q) + 1 : g[k][i] = table[e[i]]
      BY <2>3, <2>5, <3>2, <3>3, <3>5
    <3>7. ASSUME NEW i \in 1..Len(q) + 1, NEW j \in 1..Len(q) + 1, i < j PROVE e[i] < e[j]
      <4>1. i \in 1..Len(q)
        BY SMT, <2>5, <3>7
      <4>2. CASE j = Len(q) + 1
        <5>1. e[i] = f[i] /\ f[i] \in 1..k - 1 /\ e[j] = k
          BY <2>5, <3>3, <4>1, <4>2
        <5> QED  BY SMT, <5>1
      <4>3. CASE j \in 1..Len(q)
        BY <2>5, <3>3, <3>7, <4>1, <4>3
      <4> QED  BY <3>5, <4>2, <4>3
    <3>8. Sub(k, e)
      BY <3>2, <3>4, <3>6, <3>7
    <3>9. ASSUME t = 0 PROVE Len(g[k]) = k /\ \A i \in 1..k : g[k][i] = table[i]
      <4>1. Len(q) = k - 1 /\ \A i \in 1..k - 1 : q[i] = table[i]
        BY <2>1, <2>2, <3>9
      <4> QED  BY SMT, <2>3, <3>2, <4>1
    <3> HIDE DEF Sub
    <3> QED  BY <2>1, <3>2, <3>8, <3>9
  <2>7. CASE ~(r.at >= t)
    <3>1. g[k] = q
      BY <1>2, <2>2, <2>3, <2>7
    <3>2. Sub(k, f)
      BY SMT, <2>5, <3>1
    <3>3. t # 0
      <4>1. r.at \in Nat
        BY DEF LogRows
      <4> QED  BY SMT, <2>7, <4>1
    <3> HIDE DEF Sub
    <3> QED  BY <2>1, <3>1, <3>2, <3>3
  <2> QED  BY <2>6, <2>7
<1>5. Q(n)
  <2>1. \A k \in 0..n : k \in T
    <3> HIDE DEF T
    <3> QED  BY <1>2, <1>3, <1>4, Climb
  <2> HIDE DEF Q
  <2> QED  BY SMT, <1>2, <2>1
<1>6. PICK new \in Seq(LogRows) : new = Since(table, t) /\ new = g[n]
  BY <1>1, <1>5
<1>7. Within(new, table)
  <2>1. PICK f : Sub(n, f)
    BY <1>5
  <2> QED  BY <1>6, <2>1 DEF Within
<1>8. ASSUME t = 0 PROVE new = table
  <2>1. Len(new) = n /\ \A i \in 1..n : new[i] = table[i]
    BY <1>5, <1>6, <1>8
  <2> QED  BY SMT, <1>6, <2>1
<1> QED  BY <1>6, <1>7, <1>8

-----------------------------------------------------------------------------
(* What the walk concludes.                                                *)

LEMMA RowIs ==
    ASSUME NEW table \in Seq(LogRows), NEW k \in 1..Len(table)
    PROVE  /\ table[k] \in LogRows
           /\ table[k].hash \in Seq(Cmds \X Nat) /\ Len(table[k].hash) \in Nat
           /\ table[k].prev \in Seq(Cmds \X Nat) /\ Len(table[k].prev) \in Nat
           /\ <<table[k].cmd, table[k].at>> \in Cmds \X Nat
<1>1. table[k] \in LogRows
  BY SMT
<1>2. PICK r \in LogRows : r = table[k]
  BY <1>1
<1>3. r.hash \in Seq(Cmds \X Nat) /\ r.prev \in Seq(Cmds \X Nat) /\ r.cmd \in Cmds /\ r.at \in Nat
  BY DEF LogRows, Hashes
<1> QED  BY SMT, <1>2, <1>3

LEMMA ContentsAre ==
    ASSUME NEW table \in Seq(LogRows)
    PROVE  /\ Contents(table) \in Seq(Cmds \X Nat) /\ Len(Contents(table)) = Len(table)
           /\ \A k \in 1..Len(table) : Contents(table)[k] = <<table[k].cmd, table[k].at>>
<1>1. DOMAIN table = 1..Len(table) /\ Len(table) \in Nat
  BY SMT
<1>2. \A k \in 1..Len(table) : <<table[k].cmd, table[k].at>> \in Cmds \X Nat
  BY RowIs
<1>3. Contents(table) \in [1..Len(table) -> Cmds \X Nat]
  BY <1>1, <1>2 DEF Contents
<1>4. \A k \in 1..Len(table) : Contents(table)[k] = <<table[k].cmd, table[k].at>>
  BY <1>1 DEF Contents
<1> QED  BY SMT, <1>1, <1>3, <1>4

\* The rows of a walk that finds no break are the first entries of h.
LEMMA LinkedIsPrefix ==
    ASSUME Library, NEW w, w.since = 0, w.rows \in Seq(LogRows), NEW h \in Hashes,
           w.rows # <<>>, Aligned(w.rows, h), Linked(w)
    PROVE  /\ \A k \in 1..Len(w.rows) : Len(w.rows[k].hash) = k /\ Contents(w.rows)[k] = h[k]
           /\ Len(w.rows) <= Len(h)
<1>1. PICK table \in Seq(LogRows) : table = w.rows
  OBVIOUS
<1> DEFINE n == Len(table)
           T == {k \in 0..n : k = 0 \/ Len(table[k].hash) = k}
<1>2. n \in Nat /\ n >= 1
  BY SMT, <1>1
<1>3. \A k \in 1..n : /\ table[k].hash \in Seq(Cmds \X Nat) /\ Len(table[k].hash) \in Nat
                      /\ table[k].prev \in Seq(Cmds \X Nat) /\ Len(table[k].prev) \in Nat
                      /\ <<table[k].cmd, table[k].at>> \in Cmds \X Nat
  BY RowIs
<1>4. \A k \in 1..n : Len(table[k].hash) = Len(table[k].prev) + 1
  BY <1>1 DEF Aligned, OnChain
<1>5. /\ table[1].prev = <<>> /\ \A k \in 2..n : table[k].prev = table[k - 1].hash
      /\ \A k \in 1..n : table[k].hash = Append(table[k].prev, <<table[k].cmd, table[k].at>>)
  BY <1>1 DEF Linked, Genesis, computeEntryHash
<1>6. ASSUME NEW k \in 1..n, k - 1 \in T PROVE k \in T
  <2>1. CASE k = 1
    <3>1. Len(table[1].prev) = 0 /\ 1 \in 1..n /\ 1 \in 0..n
      BY SMT, <1>2, <1>5
    <3>2. Len(table[1].hash) = Len(table[1].prev) + 1
      BY <1>4, <3>1
    <3> QED  BY SMT, <2>1, <3>1, <3>2
  <2>2. CASE k # 1
    <3>1. k \in 2..n /\ k - 1 # 0
      BY SMT, <2>2
    <3>2. Len(table[k].prev) = k - 1
      BY <1>5, <1>6, <3>1
    <3> QED  BY SMT, <1>4, <3>2
  <2> QED  BY <2>1, <2>2
<1>7. \A k \in 0..n : k \in T
  <2>1. 0 \in T
    BY SMT, <1>2
  <2> HIDE DEF T
  <2> QED  BY <1>2, <1>6, <2>1, Climb
<1>8. ASSUME NEW k \in 1..n PROVE Len(table[k].hash) = k /\ Contents(table)[k] = h[k] /\ k <= Len(h)
  <2>1. Len(table[k].hash) = k
    <3>1. k \in 0..n /\ k # 0
      BY SMT, <1>2
    <3> QED  BY <1>7, <3>1
  <2>2. Len(table[k].prev) + 1 = k
    BY <1>4, <2>1
  <2>3. table[k].hash[k] = <<table[k].cmd, table[k].at>>
    <3>1. PICK p \in Seq(Cmds \X Nat) : p = table[k].prev
      BY <1>3
    <3>2. PICK e \in Cmds \X Nat : e = <<table[k].cmd, table[k].at>>
      BY <1>3
    <3>3. Append(p, e)[Len(p) + 1] = e
      BY SMT, AppendIs
    <3>4. Len(p) + 1 = k /\ table[k].hash = Append(p, e)
      BY <1>5, <2>2, <3>1, <3>2
    <3> QED  BY <3>2, <3>3, <3>4
  <2>4. table[k].hash[k] = h[k] /\ k <= Len(h)
    <3>1. OnChain(table[k], h)
      BY <1>1 DEF Aligned
    <3>2. k \in 1..k
      BY SMT
    <3> QED  BY <2>1, <3>1, <3>2 DEF OnChain
  <2>5. Contents(table)[k] = <<table[k].cmd, table[k].at>>
    BY ContentsAre
  <2> QED  BY <2>1, <2>3, <2>4, <2>5
<1>9. n \in 1..n
  BY SMT, <1>2
<1> QED  BY <1>1, <1>8, <1>9

\* A table with the contents of h passes the walk, and ends at h.
LEMMA FullIsLinked ==
    ASSUME Library, NEW w, w.since = 0, w.rows \in Seq(LogRows), NEW h \in Hashes,
           w.rows # <<>>, Aligned(w.rows, h), Contents(w.rows) = h
    PROVE  Linked(w) /\ w.rows[Len(w.rows)].hash = h
<1>1. PICK table \in Seq(LogRows) : table = w.rows
  OBVIOUS
<1> DEFINE n == Len(table)
           T == {k \in 0..n : k = 0 \/ Len(table[k].hash) >= k}
           U == {i \in 0..n : i = n \/ Len(table[n - i].hash) <= n - i}
<1>2. n \in Nat /\ n >= 1
  BY SMT, <1>1
<1>3. \A k \in 1..n : /\ table[k].hash \in Seq(Cmds \X Nat) /\ Len(table[k].hash) \in Nat
                      /\ table[k].prev \in Seq(Cmds \X Nat) /\ Len(table[k].prev) \in Nat
                      /\ <<table[k].cmd, table[k].at>> \in Cmds \X Nat
  BY RowIs
<1>4. \A k \in 1..n : /\ Len(table[k].hash) = Len(table[k].prev) + 1 /\ Len(table[k].hash) <= Len(h)
                      /\ \A i \in 1..Len(table[k].hash) : table[k].hash[i] = h[i]
                      /\ \A i \in 1..Len(table[k].prev) : table[k].prev[i] = h[i]
  BY <1>1 DEF Aligned, OnChain
<1>5. \A j, k \in 1..n : j < k => Len(table[j].hash) < Len(table[k].hash)
  BY <1>1 DEF Aligned
<1>6. Len(h) = n /\ h \in Seq(Cmds \X Nat) /\ \A k \in 1..n : h[k] = <<table[k].cmd, table[k].at>>
  BY <1>1, ContentsAre
<1>7. \A k \in 0..n : k \in T
  <2>1. 0 \in T
    BY SMT, <1>2
  <2>2. ASSUME NEW k \in 1..n, k - 1 \in T PROVE k \in T
    <3>1. CASE k = 1
      BY SMT, <1>2, <1>3, <1>4, <3>1
    <3>2. CASE k # 1
      <4>1. k \in 1..n /\ k - 1 \in 1..n /\ k - 1 < k
        BY SMT, <3>2
      <4>2. Len(table[k - 1].hash) < Len(table[k].hash) /\ Len(table[k - 1].hash) >= k - 1
        BY SMT, <1>5, <2>2, <4>1
      <4>3. Len(table[k - 1].hash) \in Nat /\ Len(table[k].hash) \in Nat
        BY <1>3, <4>1
      <4> QED  BY SMT, <4>1, <4>2, <4>3
    <3> QED  BY <3>1, <3>2
  <2> HIDE DEF T
  <2> QED  BY <1>2, <2>1, <2>2, Climb
<1>8. \A i \in 0..n : i \in U
  <2>1. 0 \in U
    BY SMT, <1>2, <1>4, <1>6
  <2>2. ASSUME NEW i \in 1..n, i - 1 \in U PROVE i \in U
    <3>1. CASE i = n
      BY SMT, <1>2, <3>1
    <3>2. CASE i # n
      <4>1. n - i \in 1..n /\ n - (i - 1) \in 1..n /\ n - i < n - (i - 1)
        BY SMT, <1>2, <3>2
      <4>2. /\ Len(table[n - i].hash) < Len(table[n - (i - 1)].hash)
            /\ Len(table[n - (i - 1)].hash) <= n - (i - 1)
        <5>1. i - 1 # n
          BY SMT, <1>2
        <5>2. Len(table[n - (i - 1)].hash) <= n - (i - 1)
          BY <2>2, <5>1
        <5> QED  BY <1>5, <4>1, <5>2
      <4>3. Len(table[n - i].hash) \in Nat /\ Len(table[n - (i - 1)].hash) \in Nat
        BY <1>3, <4>1
      <4> QED  BY SMT, <1>2, <4>1, <4>2, <4>3
    <3> QED  BY <3>1, <3>2
  <2> HIDE DEF U
  <2> QED  BY <1>2, <2>1, <2>2, Climb
<1>9. ASSUME NEW k \in 1..n PROVE Len(table[k].hash) = k /\ Len(table[k].prev) = k - 1
  <2>1. Len(table[k].hash) >= k
    <3>1. k \in 0..n /\ k # 0
      BY SMT, <1>2
    <3> QED  BY <1>7, <3>1
  <2>2. Len(table[k].hash) <= k
    <3>1. n - k \in 0..n /\ n - k # n /\ n - (n - k) = k
      BY SMT, <1>2
    <3>2. Len(table[n - (n - k)].hash) <= n - (n - k)
      BY <1>8, <3>1
    <3> QED  BY <3>1, <3>2
  <2> QED  BY SMT, <1>3, <1>4, <2>1, <2>2
<1> HIDE DEF T, U
<1>10. table[1].prev = <<>>
  <2>1. 1 \in 1..n
    BY SMT, <1>2
  <2>2. Len(table[1].prev) = 1 - 1 /\ table[1].prev \in Seq(Cmds \X Nat)
    BY <1>3, <1>9, <2>1
  <2>3. PICK p \in Seq(Cmds \X Nat) : p = table[1].prev /\ Len(p) = 0
    BY SMT, <2>2
  <2>4. p = <<>>
    BY SMT, <2>3
  <2> QED  BY <2>3, <2>4
<1>11. ASSUME NEW k \in 2..n PROVE table[k].prev = table[k - 1].hash
  <2>1. k \in 1..n /\ k - 1 \in 1..n
    BY SMT, <1>2
  <2>2. Len(table[k].prev) = k - 1 /\ Len(table[k - 1].hash) = k - 1
    BY <1>9, <2>1
  <2>3. \A i \in 1..k - 1 : table[k].prev[i] = table[k - 1].hash[i]
    <3>1. \A i \in 1..Len(table[k].prev) : table[k].prev[i] = h[i]
      BY <1>4, <2>1
    <3>2. \A i \in 1..Len(table[k - 1].hash) : table[k - 1].hash[i] = h[i]
      BY <1>4, <2>1
    <3> QED  BY <2>2, <3>1, <3>2
  <2>4. PICK p \in Seq(Cmds \X Nat) : p = table[k].prev
    BY <1>3, <2>1
  <2>5. PICK g \in Seq(Cmds \X Nat) : g = table[k - 1].hash
    BY <1>3, <2>1
  <2>6. Len(p) = Len(g) /\ \A i \in 1..Len(g) : p[i] = g[i]
    BY <2>2, <2>3, <2>4, <2>5
  <2>7. p = g
    BY <2>6, SameHash
  <2> QED  BY <2>4, <2>5, <2>7
<1>12. ASSUME NEW k \in 1..n
       PROVE  table[k].hash = Append(table[k].prev, <<table[k].cmd, table[k].at>>)
  <2>1. PICK p \in Seq(Cmds \X Nat) : p = table[k].prev
    BY <1>3
  <2>2. PICK e \in Cmds \X Nat : e = <<table[k].cmd, table[k].at>>
    BY <1>3
  <2>3. PICK g \in Seq(Cmds \X Nat) : g = table[k].hash
    BY <1>3
  <2>4. Len(p) = k - 1 /\ Len(g) = k /\ h[k] = e
    BY <1>6, <1>9, <2>1, <2>2, <2>3
  <2>5. /\ Append(p, e) \in Seq(Cmds \X Nat) /\ Len(Append(p, e)) = k
        /\ Append(p, e)[k] = e /\ \A i \in 1..k - 1 : Append(p, e)[i] = p[i]
    <3>1. /\ Append(p, e) \in Seq(Cmds \X Nat) /\ Len(Append(p, e)) = Len(p) + 1
          /\ Append(p, e)[Len(p) + 1] = e /\ \A i \in 1..Len(p) : Append(p, e)[i] = p[i]
      BY AppendIs
    <3>2. Len(p) + 1 = k
      BY SMT, <2>4
    <3> QED  BY <2>4, <3>1, <3>2
  <2>6. \A i \in 1..k : g[i] = h[i]
    BY <1>4, <2>3, <2>4
  <2>7. \A i \in 1..k - 1 : p[i] = h[i]
    BY SMT, <1>4, <2>1, <2>4
  <2>8. ASSUME NEW i \in 1..k PROVE g[i] = Append(p, e)[i]
    <3>1. i = k \/ i \in 1..k - 1
      BY SMT
    <3>2. CASE i = k
      BY <2>4, <2>5, <2>6, <3>2
    <3>3. CASE i \in 1..k - 1
      BY <2>5, <2>6, <2>7, <3>3
    <3> QED  BY <3>1, <3>2, <3>3
  <2>9. g = Append(p, e)
    BY <2>4, <2>5, <2>8, SameHash
  <2> QED  BY <2>1, <2>2, <2>3, <2>9
<1>13. table[n].hash = h
  <2>1. n \in 1..n
    BY SMT, <1>2
  <2>2. Len(table[n].hash) = n /\ \A i \in 1..n : table[n].hash[i] = h[i]
    BY <1>4, <1>9, <2>1
  <2>3. PICK g \in Seq(Cmds \X Nat) : g = table[n].hash
    BY <1>3, <2>1
  <2>4. Len(g) = Len(h) /\ \A i \in 1..Len(h) : g[i] = h[i]
    BY <1>6, <2>2, <2>3
  <2>5. h \in Seq(Cmds \X Nat)
    BY <1>6 DEF Hashes
  <2>6. g = h
    BY <2>4, <2>5, SameHash
  <2> QED  BY <2>3, <2>6
<1> QED  BY <1>1, <1>10, <1>11, <1>12, <1>13 DEF Linked, Genesis, computeEntryHash

Walks == [at : {"idle", "head", "done"}, since : Nat, rows : Seq(LogRows),
          disturbed : BOOLEAN, ok : BOOLEAN]

\* What the writers keep true whatever happens to the rows.
WritersInv ==
    /\ ChainType /\ LockInv
    /\ \A c \in Cmds : cmd[c] = "staged" => staged[c] \in PendRows
    /\ \A d \in Drainers : drain[d].at \in {"claimed", "locked"} => drain[d].claimed # <<>>

\* The walk holds rows that were in the table, and all of them as long as
\* nothing is written behind it.
WalkInv ==
    /\ walk \in Walks /\ Aligned(rows, head) /\ Aligned(walk.rows, head)
    /\ walk.at # "idle" /\ walk.since = 0 /\ ~walk.disturbed => walk.rows = rows
    /\ VerifyExact

LEMMA WalkTypes ==
    ASSUME walk \in Walks
    PROVE  /\ walk.rows \in Seq(LogRows) /\ walk.since \in Nat /\ walk.ok \in BOOLEAN
           /\ walk.disturbed \in BOOLEAN
  BY DEF Walks

\* What a write does to the walk.
Disturbs == walk' = [walk EXCEPT !.disturbed = (walk.at # "idle")]

LEMMA DisturbedWalk ==
    ASSUME walk \in Walks, Disturbs
    PROVE  /\ walk' \in Walks /\ walk'.at = walk.at /\ walk'.since = walk.since
           /\ walk'.rows = walk.rows /\ walk'.ok = walk.ok
           /\ walk'.at # "idle" => walk'.disturbed
  BY DEF Walks, Disturbs

\* A write leaves the verdict on the rows that were read as it was.
LEMMA WriteKeepsWalk ==
    ASSUME WritersInv, WalkInv, Disturbs, head' \in Hashes, Extends(head', head), Aligned(rows', head')
    PROVE  WalkInv'
<1>1. walk \in Walks /\ walk.rows \in Seq(LogRows) /\ head \in Hashes
  BY WalkTypes DEF WalkInv, WritersInv, ChainType
<1>2. /\ walk' \in Walks /\ walk'.at = walk.at /\ walk'.since = walk.since
      /\ walk'.rows = walk.rows /\ walk'.ok = walk.ok
      /\ walk'.at # "idle" => walk'.disturbed
  BY <1>1, DisturbedWalk
<1>3. Aligned(walk.rows, head')
  BY <1>1, AlignedLonger DEF WalkInv
<1>4. VerifyExact'
  <2>1. SUFFICES ASSUME walk.at = "done", walk.since = 0, walk.rows # <<>>, walk.ok
                 PROVE  Extends(head', Contents(walk.rows))
    BY <1>2 DEF VerifyExact
  <2>2. Extends(head, Contents(walk.rows))
    BY <2>1 DEF WalkInv, VerifyExact
  <2>3. PICK s \in Seq(Cmds \X Nat) : s = Contents(walk.rows)
    BY <1>1, ContentsAre
  <2>4. head \in Seq(Cmds \X Nat) /\ head' \in Seq(Cmds \X Nat)
    BY <1>1 DEF Hashes
  <2>5. Len(s) <= Len(head) /\ \A i \in 1..Len(s) : s[i] = head[i]
    BY <2>2, <2>3 DEF Extends
  <2>6. Len(s) \in Nat /\ Len(head) \in Nat /\ Len(head') \in Nat
    BY SMT, <2>4
  <2>7. Len(head) <= Len(head') /\ \A i \in 1..Len(head) : head[i] = head'[i]
    BY DEF Extends
  <2>8. Len(s) <= Len(head')
    BY SMT, <2>5, <2>6, <2>7
  <2>9. ASSUME NEW i \in 1..Len(s) PROVE s[i] = head'[i]
    <3>1. i \in 1..Len(head)
      BY SMT, <2>5, <2>6
    <3> QED  BY <3>1, <2>5, <2>7
  <2> QED  BY <2>3, <2>8, <2>9 DEF Extends
<1> QED  BY <1>2, <1>3, <1>4 DEF WalkInv

LEMMA QuietWalk ==
    ASSUME WalkInv, UNCHANGED <<rows, head, walk>>
    PROVE  WalkInv'
  BY SMT DEF WalkInv, VerifyExact, Aligned, OnChain, Extends, Contents

LEMMA ExtendsSelf ==
    ASSUME NEW h \in Hashes
    PROVE  Extends(h, h)
  BY SMT DEF Extends, Hashes

LEMMA WithoutWithin ==
    ASSUME NEW table \in Seq(LogRows), NEW k \in 1..Len(table)
    PROVE  Without(table, k) \in Seq(LogRows) /\ Within(Without(table, k), table)
<1> DEFINE n == Len(table)
           a == SubSeq(table, 1, k - 1)
           b == SubSeq(table, k + 1, n)
           new == Without(table, k)
<1>1. n \in Nat /\ k \in 1..n /\ k \in Nat /\ \A i \in 1..n : table[i] \in LogRows
  BY SMT
<1> HIDE DEF n
<1>2. a \in Seq(LogRows) /\ Len(a) = k - 1 /\ \A i \in 1..k - 1 : a[i] = table[i]
  BY SMT, <1>1, SliceIs DEF n
<1>3. b \in Seq(LogRows) /\ Len(b) = n - k /\ \A i \in 1..n - k : b[i] = table[k + i]
  BY SMT, <1>1, SliceIs DEF n
<1>4. new = a \o b
  BY DEF Without, n
<1> HIDE DEF a, b, new
<1>5. /\ new \in Seq(LogRows) /\ Len(new) = Len(a) + Len(b)
      /\ \A i \in 1..Len(a) + Len(b) : new[i] = IF i <= Len(a) THEN a[i] ELSE b[i - Len(a)]
  BY <1>2, <1>3, <1>4, JoinIs
<1>6. Len(new) = n - 1
  BY SMT, <1>1, <1>2, <1>3, <1>5
<1>7. ASSUME NEW i \in 1..n - 1 PROVE new[i] = IF i < k THEN table[i] ELSE table[i + 1]
  <2>1. CASE i < k
    BY SMT, <1>1, <1>2, <1>3, <1>5, <2>1
  <2>2. CASE ~(i < k)
    <3>1. i - Len(a) \in 1..n - k /\ k + (i - Len(a)) = i + 1 /\ ~(i <= Len(a))
      BY SMT, <1>1, <1>2, <2>2
    <3>2. new[i] = b[i - Len(a)]
      BY <1>5, <1>6, <3>1
    <3>3. b[i - Len(a)] = table[k + (i - Len(a))]
      BY <1>3, <3>1
    <3> QED  BY <2>2, <3>1, <3>2, <3>3
  <2> QED  BY <2>1, <2>2
<1> DEFINE f == [i \in 1..n - 1 |-> IF i < k THEN i ELSE i + 1]
<1>8. f \in [1..n - 1 -> 1..n]
  BY SMT, <1>1
<1>9. \A i \in 1..n - 1 : new[i] = table[f[i]]
  BY <1>7
<1>10. \A i, j \in 1..n - 1 : i < j => f[i] < f[j]
  BY SMT, <1>1
<1> HIDE DEF f
<1>11. Within(new, table)
  BY <1>6, <1>8, <1>9, <1>10 DEF Within, n
<1> QED  BY <1>5, <1>11 DEF new

LEMMA EditAtWithin ==
    ASSUME NEW table \in Seq(LogRows), NEW k \in 1..Len(table)
    PROVE  [table EXCEPT ![k].at = 0] \in Seq(LogRows) /\ Within([table EXCEPT ![k].at = 0], table)
<1> DEFINE n == Len(table)
           e == [cmd |-> table[k].cmd, at |-> 0, prev |-> table[k].prev, hash |-> table[k].hash]
           new == [table EXCEPT ![k] = e]
<1>1. table[k] \in LogRows
  BY SMT
<1>2. e \in LogRows /\ [table[k] EXCEPT !.at = 0] = e
  BY SMT, <1>1 DEF LogRows
<1>3. e.hash = table[k].hash /\ e.prev = table[k].prev
  OBVIOUS
<1> HIDE DEF e
<1>4. [table EXCEPT ![k].at = 0] = new
  BY <1>2
<1>5. /\ new \in Seq(LogRows) /\ Len(new) = n
      /\ \A i \in 1..n : new[i] = IF i = k THEN e ELSE table[i]
  BY SMT, <1>2, ChangedIs
<1> HIDE DEF new
<1> DEFINE f == [i \in 1..n |-> i]
<1>6. f \in [1..n -> 1..n] /\ \A i \in 1..n : f[i] = i
  OBVIOUS
<1> HIDE DEF f
<1>7. \A i \in 1..n : new[i].hash = table[f[i]].hash /\ new[i].prev = table[f[i]].prev
  BY <1>3, <1>5, <1>6
<1>8. Within(new, table)
  BY SMT, <1>5, <1>6, <1>7 DEF Within
<1> QED  BY <1>4, <1>5, <1>8

LEMMA EditKeepsWalk ==
    ASSUME Library, WritersInv, WalkInv, Cleanup \/ Edit
    PROVE  WalkInv' /\ rows' \in Seq(LogRows)
<1>1. /\ rows' \in Seq(LogRows) /\ Within(rows', rows)
      /\ Disturbs /\ head' = head
  <2>1. rows \in Seq(LogRows) /\ DOMAIN rows = 1..Len(rows) /\ clock \in Nat
    BY SMT DEF WritersInv, ChainType
  <2>2. CASE Cleanup
    <3>1. PICK cutoff \in 2..clock : RowsBecome(Since(rows, cutoff))
      BY <2>2 DEF Cleanup
    <3>2. Since(rows, cutoff) \in Seq(LogRows) /\ Within(Since(rows, cutoff), rows)
      <4>1. cutoff \in Nat
        BY SMT, <2>1
      <4> QED  BY <2>1, <4>1, SinceWithin
    <3> QED  BY <3>1, <3>2 DEF RowsBecome, Disturbs
  <2>3. CASE Edit
    <3>1. PICK k \in 1..Len(rows) :
            RowsBecome(Without(rows, k)) \/ RowsBecome([rows EXCEPT ![k].at = 0])
      BY <2>1, <2>3 DEF Edit
    <3>2. /\ Without(rows, k) \in Seq(LogRows) /\ Within(Without(rows, k), rows)
          /\ [rows EXCEPT ![k].at = 0] \in Seq(LogRows) /\ Within([rows EXCEPT ![k].at = 0], rows)
      BY <2>1, WithoutWithin, EditAtWithin
    <3> QED  BY <3>1, <3>2 DEF RowsBecome, Disturbs
  <2> QED  BY <2>2, <2>3
<1>2. head \in Hashes /\ rows \in Seq(LogRows) /\ Aligned(rows, head)
  BY DEF WritersInv, ChainType, WalkInv
<1>3. PICK new \in Seq(LogRows) : new = rows'
  BY <1>1
<1>4. Aligned(new, head)
  BY <1>1, <1>2, <1>3, AlignedWithin
<1>5. head' \in Hashes /\ Extends(head', head) /\ Aligned(rows', head')
  BY <1>1, <1>2, <1>3, <1>4, ExtendsSelf
<1> QED  BY <1>1, <1>5, WriteKeepsWalk

LEMMA VerifyRowsKeepsWalk ==
    ASSUME Library, WritersInv, WalkInv, NEW since \in 0..clock, VerifyRows(since)
    PROVE  WalkInv'
<1>1. rows \in Seq(LogRows) /\ head \in Hashes /\ since \in Nat /\ Aligned(rows, head)
  BY SMT DEF WritersInv, ChainType, WalkInv
<1>2. PICK new \in Seq(LogRows) :
        new = Since(rows, since) /\ Within(new, rows) /\ (since = 0 => new = rows)
  BY <1>1, SinceWithin
<1>3. walk' = [at |-> "head", since |-> since, rows |-> new, disturbed |-> FALSE, ok |-> TRUE]
  BY <1>2 DEF VerifyRows, NoWalk
<1>4. walk' \in Walks /\ walk'.at = "head" /\ walk'.rows = new /\ walk'.since = since
  BY <1>1, <1>3 DEF Walks
<1>5. rows' = rows /\ head' = head
  BY DEF VerifyRows, tables
<1>6. Aligned(new, head)
  BY <1>1, <1>2, AlignedWithin
<1>7. Aligned(rows', head') /\ Aligned(walk'.rows, head')
  BY <1>1, <1>4, <1>5, <1>6
<1>8. VerifyExact'
  BY <1>4 DEF VerifyExact
<1> QED  BY <1>2, <1>4, <1>5, <1>7, <1>8 DEF WalkInv

LEMMA VerifyHeadKeepsWalk ==
    ASSUME Library, WritersInv, WalkInv, VerifyHead
    PROVE  WalkInv'
<1> DEFINE v == Linked(walk) /\ (walk.rows # <<>> => walk.rows[Len(walk.rows)].hash = head)
<1>1. walk \in Walks /\ walk.rows \in Seq(LogRows) /\ head \in Hashes
  BY WalkTypes DEF WalkInv, WritersInv, ChainType
<1>2. v \in BOOLEAN
  BY DEF Linked
<1>3. walk.at = "head" /\ walk' = [walk EXCEPT !.at = "done", !.ok = v] /\ rows' = rows /\ head' = head
  BY DEF VerifyHead, tables
<1> HIDE DEF v
<1>4. /\ walk' \in Walks /\ walk'.rows = walk.rows /\ walk'.since = walk.since
      /\ walk'.disturbed = walk.disturbed /\ walk'.ok = v /\ walk'.at = "done"
  BY <1>1, <1>2, <1>3 DEF Walks
<1>5. Aligned(walk.rows, head) /\ Aligned(rows, head)
  BY DEF WalkInv
<1>6. walk.since = 0 /\ ~walk.disturbed => walk.rows = rows
  BY <1>3 DEF WalkInv
<1>7. ASSUME walk.since = 0, walk.rows # <<>>
      PROVE  /\ v => Extends(head, Contents(walk.rows))
             /\ v <=> Contents(walk.rows) = head
  <2>1. PICK s \in Seq(Cmds \X Nat) : s = Contents(walk.rows) /\ Len(s) = Len(walk.rows)
    BY <1>1, ContentsAre
  <2>2. head \in Seq(Cmds \X Nat) /\ Len(head) \in Nat /\ Len(s) \in Nat
    BY SMT, <1>1 DEF Hashes
  <2>3. ASSUME v PROVE Extends(head, s) /\ s = head
    <3>1. Linked(walk) /\ walk.rows[Len(walk.rows)].hash = head
      BY <1>7, <2>3 DEF v
    <3>2. /\ \A k \in 1..Len(walk.rows) :
               Len(walk.rows[k].hash) = k /\ Contents(walk.rows)[k] = head[k]
          /\ Len(walk.rows) <= Len(head)
      BY <1>1, <1>5, <1>7, <3>1, LinkedIsPrefix
    <3>3. Len(s) <= Len(head) /\ \A i \in 1..Len(s) : s[i] = head[i]
      BY <2>1, <3>2
    <3>4. Extends(head, s)
      BY <2>2, <3>3 DEF Extends
    <3>5. Len(walk.rows) \in 1..Len(walk.rows)
      BY SMT, <1>1, <1>7
    <3>6. Len(s) = Len(head)
      BY <2>1, <3>1, <3>2, <3>5
    <3> QED  BY <2>2, <3>3, <3>4, <3>6, SameHash
  <2>4. ASSUME s = head PROVE v
    <3>1. Linked(walk) /\ walk.rows[Len(walk.rows)].hash = head
      BY <1>1, <1>5, <1>7, <2>1, <2>4, FullIsLinked
    <3> QED  BY <3>1 DEF v
  <2> QED  BY <2>1, <2>3, <2>4
<1>8. VerifyExact'
  BY <1>3, <1>4, <1>6, <1>7 DEF VerifyExact
<1>9. Aligned(rows', head') /\ Aligned(walk'.rows, head')
  BY <1>3, <1>4, <1>5
<1> QED  BY <1>3, <1>4, <1>6, <1>8, <1>9 DEF WalkInv

LEMMA VerifyReturnsKeepsWalk ==
    ASSUME WritersInv, WalkInv, VerifyReturns
    PROVE  WalkInv'
<1>1. walk' = NoWalk /\ rows' = rows /\ head' = head
  BY DEF VerifyReturns, tables
<1>2. NoWalk \in Walks /\ NoWalk.at = "idle" /\ NoWalk.rows = <<>>
  BY SMT DEF NoWalk, Walks
<1>3. Aligned(<<>>, head')
  BY SMT DEF Aligned
<1>4. Aligned(rows', head')
  BY <1>1 DEF WalkInv
<1> QED  BY <1>1, <1>2, <1>3, <1>4 DEF WalkInv, VerifyExact

-----------------------------------------------------------------------------
LEMMA DrainWriters ==
    ASSUME WritersInv, NEW d \in Drainers, NEW x \in Drains, Became(d, x),
           UNCHANGED <<rows, head, cmd, pending, visible, nextId, staged, clock>>,
           prev' \in Hashes, LockInv',
           x.at \in {"claimed", "locked"} => x.claimed # <<>>
    PROVE  WritersInv'
<1>1. ChainType'
  BY DEF WritersInv, ChainType, Became
<1>2. \A e \in Drainers : drain'[e].at \in {"claimed", "locked"} => drain'[e].claimed # <<>>
  BY DEF WritersInv, Became
<1>3. \A c \in Cmds : cmd'[c] = "staged" => staged'[c] \in PendRows
  BY DEF WritersInv
<1> QED  BY <1>1, <1>2, <1>3 DEF WritersInv

LEMMA DrainersKeepWriters ==
    ASSUME Library, WritersInv, NEW d \in Drainers, ReadPending(d) \/ Claim(d) \/ DrainLocks(d) \/ DrainFails(d)
    PROVE  WritersInv'
<1>1. /\ ChainType /\ drain[d] \in Drains /\ drain[d].claimed \in Seq(PendRows)
      /\ drain[d].ids \subseteq Nat /\ visible \subseteq Nat /\ prev \in Hashes /\ head \in Hashes
  BY DEF WritersInv, ChainType, Drains
<1>2. CASE ReadPending(d)
  <2> DEFINE x == [at |-> "claim", ids |-> Smallest(visible), claimed |-> drain[d].claimed]
  <2>1. Smallest(visible) \subseteq Nat
    BY <1>1 DEF Smallest
  <2>2. x \in Drains
    BY <1>1, <2>1 DEF Drains
  <2>3. drain' = [drain EXCEPT ![d] = x]
    <3>1. [[drain[d] EXCEPT !.at = "claim"] EXCEPT !.ids = Smallest(visible)] = x
      <4> DEFINE y == [at |-> "claim", ids |-> drain[d].ids, claimed |-> drain[d].claimed]
      <4>1. [drain[d] EXCEPT !.at = "claim"] = y
        BY SMT, <1>1 DEF Drains
      <4>2. [y EXCEPT !.ids = Smallest(visible)] = x
        BY SMT
      <4> QED  BY <4>1, <4>2
    <3> HIDE DEF x
    <3> QED  BY <1>1, <1>2, <3>1 DEF ReadPending, ChainType
  <2>4. x.at = "claim"
    OBVIOUS
  <2> HIDE DEF x
  <2>5. Became(d, x)
    BY <1>1, <2>2, <2>3, DrainBecomes
  <2>6. UNCHANGED <<rows, head, lock, prev, cmd, pending, visible, nextId, staged, clock>>
    BY <1>2 DEF ReadPending, tables
  <2>7. LockInv'
    BY <2>4, <2>5, <2>6 DEF WritersInv, LockInv, Became
  <2> QED  BY <1>1, <2>2, <2>4, <2>5, <2>6, <2>7, DrainWriters
<1>3. CASE Claim(d)
  <2> DEFINE got == {p \in pending : p.id \in drain[d].ids}
  <2>1. PICK q \in ById(got) :
          drain' = [drain EXCEPT ![d] = IF got = {} THEN Quiet
                       ELSE [at |-> "claimed", ids |-> {}, claimed |-> q]]
    BY <1>3 DEF Claim
  <2> DEFINE x == IF got = {} THEN Quiet ELSE [at |-> "claimed", ids |-> {}, claimed |-> q]
  <2>2. got \in SUBSET PendRows /\ IsFiniteSet(got)
    BY <1>1, FiniteSubset DEF ChainType
  <2>3. q \in Seq(PendRows) /\ (got # {} => q # <<>>)
    <3> HIDE DEF got
    <3> QED  BY <2>2, ByIdIs
  <2>4. /\ x \in Drains /\ x.at # "locked"
        /\ x.at \in {"claimed", "locked"} => x.claimed # <<>>
    <3>1. CASE got = {}
      <4>1. x = Quiet
        BY <3>1
      <4> QED  BY <4>1, QuietIsDrain DEF Quiet
    <3>2. CASE got # {}
      <4>1. x = [at |-> "claimed", ids |-> {}, claimed |-> q]
        BY <3>2
      <4> QED  BY <2>3, <3>2, <4>1 DEF Drains
    <3> QED  BY <3>1, <3>2
  <2>5. drain' = [drain EXCEPT ![d] = x]
    BY <2>1
  <2> HIDE DEF x
  <2>6. Became(d, x)
    BY <1>1, <2>4, <2>5, DrainBecomes
  <2>7. UNCHANGED <<rows, head, lock, prev, cmd, pending, visible, nextId, staged, clock>>
    BY <1>3 DEF Claim, tables
  <2>8. LockInv'
    BY <2>4, <2>6, <2>7 DEF WritersInv, LockInv, Became
  <2> QED  BY <1>1, <2>4, <2>6, <2>7, <2>8, DrainWriters
<1>4. CASE DrainLocks(d)
  <2> DEFINE x == [at |-> "locked", ids |-> drain[d].ids, claimed |-> drain[d].claimed]
  <2>1. /\ drain[d].at = "claimed" /\ lock = NoTx /\ lock' = d /\ prev' = head
        /\ drain' = [drain EXCEPT ![d].at = "locked"]
        /\ UNCHANGED <<rows, head, cmd, pending, visible, nextId, staged, clock>>
    BY <1>4 DEF DrainLocks, LockHead
  <2>2. x \in Drains
    BY <1>1 DEF Drains
  <2>3. [drain[d] EXCEPT !.at = "locked"] = x
    BY SMT, <1>1 DEF Drains
  <2>4. drain' = [drain EXCEPT ![d] = x]
    BY <2>1, <2>3
  <2>5. x.claimed = drain[d].claimed
    OBVIOUS
  <2> HIDE DEF x
  <2>6. Became(d, x)
    BY <1>1, <2>2, <2>4, DrainBecomes
  <2>7. LockInv'
    <3>1. \A c \in Cmds : cmd[c] # "locked"
      BY <2>1, ChainAssumption DEF WritersInv, LockInv
    <3>2. \A e \in Drainers : drain[e].at # "locked"
      BY <2>1, ChainAssumption DEF WritersInv, LockInv
    <3>3. \A e \in Drainers : drain'[e].at = "locked" => lock' = e
      BY <2>1, <2>6, <3>2 DEF Became
    <3> QED  BY <2>1, <3>1, <3>3 DEF LockInv
  <2>8. x.claimed # <<>>
    BY <2>1, <2>5 DEF WritersInv
  <2>9. prev' \in Hashes
    BY <1>1, <2>1
  <2> QED  BY <2>1, <2>2, <2>6, <2>7, <2>8, <2>9, DrainWriters
<1>5. CASE DrainFails(d)
  <2>1. /\ drain' = [drain EXCEPT ![d] = Quiet]
        /\ lock' = IF lock = d THEN NoTx ELSE lock
        /\ prev' = IF lock = d THEN Genesis ELSE prev
        /\ UNCHANGED <<rows, head, cmd, pending, visible, nextId, staged, clock>>
    BY <1>5 DEF DrainFails
  <2>2. Became(d, Quiet) /\ Quiet \in Drains /\ Quiet.at = "idle"
    BY <1>1, <2>1, QuietIsDrain, DrainBecomes DEF Quiet
  <2>3. LockInv'
    <3>1. lock' # NoTx => prev' = head'
      BY <2>1 DEF WritersInv, LockInv
    <3>2. \A c \in Cmds : cmd'[c] = "locked" => lock' = c /\ c \notin Durable
      BY <2>1, ChainAssumption DEF WritersInv, LockInv
    <3>3. \A e \in Drainers : drain'[e].at = "locked" => lock' = e
      BY <2>1, <2>2 DEF WritersInv, LockInv, Became
    <3> QED  BY <3>1, <3>2, <3>3 DEF LockInv
  <2>4. prev' \in Hashes
    <3>1. Genesis \in Hashes
      BY SMT DEF Genesis, Hashes
    <3> QED  BY <1>1, <2>1, <3>1
  <2> QED  BY <2>1, <2>2, <2>3, <2>4, DrainWriters
<1> QED  BY <1>2, <1>3, <1>4, <1>5

LEMMA CommandsKeepWriters ==
    ASSUME WritersInv, NEW c \in Cmds,
           Record(c) \/ InsertPending(c) \/ CommitStaged(c) \/ Rollback(c)
    PROVE  WritersInv' /\ UNCHANGED <<rows, head, walk>>
<1>1. UNCHANGED <<rows, head, walk, visible, drain, clock>>
  BY DEF Record, InsertPending, CommitStaged, Rollback, tables
<1>2. CASE Record(c)
  <2>1. /\ lock = NoTx /\ lock' = c /\ prev' = head /\ c \notin Durable
        /\ cmd' = [cmd EXCEPT ![c] = "locked"] /\ UNCHANGED <<pending, nextId, staged>>
    BY <1>2 DEF Record, LockHead
  <2>2. cmd'[c] = "locked" /\ \A b \in Cmds \ {c} : cmd'[b] = cmd[b]
    BY <2>1 DEF WritersInv, ChainType
  <2>3. ChainType'
    BY <1>1, <2>1 DEF WritersInv, ChainType
  <2>4. LockInv'
    <3>1. \A b \in Cmds : cmd[b] # "locked"
      BY <2>1, ChainAssumption DEF WritersInv, LockInv
    <3>2. \A d \in Drainers : drain[d].at # "locked"
      BY <2>1, ChainAssumption DEF WritersInv, LockInv
    <3> QED  BY <1>1, <2>1, <2>2, <3>1, <3>2 DEF LockInv
  <2> QED  BY <1>1, <2>1, <2>2, <2>3, <2>4 DEF WritersInv
<1>3. CASE InsertPending(c)
  <2> DEFINE p == [id |-> nextId, cmd |-> c, at |-> clock]
  <2>1. /\ c \in Durable /\ staged' = [staged EXCEPT ![c] = p] /\ nextId' = nextId + 1
        /\ cmd' = [cmd EXCEPT ![c] = "staged"] /\ UNCHANGED <<pending, lock, prev>>
    BY <1>3 DEF InsertPending, tables
  <2>2. p \in PendRows
    BY <2>1 DEF WritersInv, ChainType, PendRows
  <2> HIDE DEF p
  <2>3. /\ cmd'[c] = "staged" /\ \A b \in Cmds \ {c} : cmd'[b] = cmd[b] /\ staged'[b] = staged[b]
        /\ staged'[c] = p
    BY <2>1 DEF WritersInv, ChainType
  <2>4. ChainType'
    BY SMT, <1>1, <2>1, <2>2 DEF WritersInv, ChainType
  <2>5. LockInv'
    BY <1>1, <2>1, <2>3 DEF WritersInv, LockInv
  <2> QED  BY <1>1, <2>2, <2>3, <2>4, <2>5 DEF WritersInv
<1>4. CASE CommitStaged(c)
  <2>1. /\ cmd[c] = "staged" /\ pending' = pending \cup {staged[c]}
        /\ cmd' = [cmd EXCEPT ![c] = "committed"] /\ UNCHANGED <<lock, prev, nextId, staged>>
    BY <1>4 DEF CommitStaged
  <2>2. cmd'[c] = "committed" /\ \A b \in Cmds \ {c} : cmd'[b] = cmd[b]
    BY <2>1 DEF WritersInv, ChainType
  <2>3. pending' \subseteq PendRows /\ IsFiniteSet(pending')
    BY <2>1, FiniteAdd DEF WritersInv, ChainType
  <2>4. ChainType'
    BY <1>1, <2>1, <2>3 DEF WritersInv, ChainType
  <2>5. LockInv'
    BY <1>1, <2>1, <2>2 DEF WritersInv, LockInv
  <2> QED  BY <1>1, <2>1, <2>2, <2>4, <2>5 DEF WritersInv
<1>5. CASE Rollback(c)
  <2>1. /\ cmd' = [cmd EXCEPT ![c] = "rolledback"]
        /\ lock' = IF lock = c THEN NoTx ELSE lock
        /\ prev' = IF lock = c THEN Genesis ELSE prev
        /\ staged' = [staged EXCEPT ![c] = NoRow] /\ UNCHANGED <<pending, nextId>>
    BY <1>5 DEF Rollback
  <2>2. /\ cmd'[c] = "rolledback"
        /\ \A b \in Cmds \ {c} : cmd'[b] = cmd[b] /\ staged'[b] = staged[b]
    BY <2>1 DEF WritersInv, ChainType
  <2>3. prev' \in Hashes
    <3>1. Genesis \in Hashes
      BY SMT DEF Genesis, Hashes
    <3> QED  BY <2>1, <3>1 DEF WritersInv, ChainType
  <2>4. ChainType'
    BY <1>1, <2>1, <2>3 DEF WritersInv, ChainType
  <2>5. LockInv'
    <3>1. lock' # NoTx => prev' = head'
      BY <1>1, <2>1 DEF WritersInv, LockInv
    <3>2. \A b \in Cmds : cmd'[b] = "locked" => lock' = b /\ b \notin Durable
      BY <2>1, <2>2 DEF WritersInv, LockInv
    <3>3. \A d \in Drainers : drain'[d].at = "locked" => lock' = d
      BY <1>1, <2>1, ChainAssumption DEF WritersInv, LockInv
    <3> QED  BY <3>1, <3>2, <3>3 DEF LockInv
  <2> QED  BY <1>1, <2>2, <2>4, <2>5 DEF WritersInv
<1> QED  BY <1>1, <1>2, <1>3, <1>4, <1>5

\* The two places that extend the chain.
LEMMA ExtendersKeep ==
    ASSUME Library, WritersInv, WalkInv,
           (\E c \in Cmds : Commit(c)) \/ (\E d \in Drainers : Apply(d))
    PROVE  WritersInv' /\ WalkInv'
<1>1. ASSUME NEW E \in Seq(Entries), E # <<>>, Extend(E), prev = head
      PROVE  /\ WalkInv' /\ rows' \in Seq(LogRows) /\ head' \in Hashes
             /\ lock' = NoTx /\ prev' \in Hashes
  <2>1. ChainType /\ Aligned(rows, head)
    BY DEF WritersInv, WalkInv
  <2>2. Aligned(rows', head') /\ Extends(head', head) /\ rows' \in Seq(LogRows) /\ head' \in Hashes
    BY <1>1, <2>1, ExtendAligned
  <2>3. Disturbs /\ lock' = NoTx /\ prev' = <<>>
    BY <1>1 DEF Extend, Disturbs, Genesis
  <2>4. <<>> \in Hashes
    BY SMT DEF Hashes
  <2> QED  BY <2>2, <2>3, <2>4, WriteKeepsWalk
<1>2. ASSUME NEW c \in Cmds, Commit(c) PROVE WritersInv' /\ WalkInv'
  <2> DEFINE E == <<[cmd |-> c, at |-> clock]>>
  <2>1. /\ cmd[c] = "locked" /\ lock = c /\ Extend(E)
        /\ cmd' = [cmd EXCEPT ![c] = "committed"]
        /\ UNCHANGED <<pending, visible, nextId, staged, drain, clock>>
    BY <1>2 DEF Commit
  <2>2. E \in Seq(Entries) /\ E # <<>>
    <3>1. [cmd |-> c, at |-> clock] \in Entries
      BY DEF WritersInv, ChainType, Entries
    <3> QED  BY SMT, <3>1
  <2>3. prev = head
    BY <2>1, ChainAssumption DEF WritersInv, LockInv
  <2> HIDE DEF E
  <2>4. WalkInv' /\ rows' \in Seq(LogRows) /\ head' \in Hashes /\ lock' = NoTx /\ prev' \in Hashes
    BY <1>1, <2>1, <2>2, <2>3
  <2>5. cmd'[c] = "committed" /\ \A b \in Cmds \ {c} : cmd'[b] = cmd[b]
    BY <2>1 DEF WritersInv, ChainType
  <2>6. ChainType'
    BY <2>1, <2>4 DEF WritersInv, ChainType
  <2>7. LockInv'
    <3>1. \A b \in Cmds : cmd'[b] # "locked"
      BY <2>1, <2>5 DEF WritersInv, LockInv
    <3>2. \A d \in Drainers : drain'[d].at # "locked"
      BY <2>1, ChainAssumption DEF WritersInv, LockInv
    <3> QED  BY <2>4, <3>1, <3>2 DEF LockInv
  <2> QED  BY <2>1, <2>4, <2>5, <2>6, <2>7 DEF WritersInv
<1>3. ASSUME NEW d \in Drainers, Apply(d) PROVE WritersInv' /\ WalkInv'
  <2>1. PICK E \in Seq(PendRows) : E = drain[d].claimed
    BY DEF WritersInv, ChainType, Drains
  <2>2. /\ drain[d].at = "locked" /\ lock = d /\ Extend(E) /\ pending' = pending \ Range(E)
        /\ drain' = [drain EXCEPT ![d] = Quiet]
        /\ UNCHANGED <<cmd, visible, nextId, staged, clock>>
    BY <1>3, <2>1 DEF Apply
  <2>3. E \in Seq(Entries) /\ E # <<>>
    <3>1. E \in Seq(Entries)
      BY SMT DEF Entries
    <3> QED  BY <2>1, <2>2, <3>1 DEF WritersInv
  <2>4. prev = head
    BY <2>2, ChainAssumption DEF WritersInv, LockInv
  <2>5. WalkInv' /\ rows' \in Seq(LogRows) /\ head' \in Hashes /\ lock' = NoTx /\ prev' \in Hashes
    BY <1>1, <2>2, <2>3, <2>4
  <2>6. Became(d, Quiet) /\ Quiet.at = "idle"
    BY <2>2, QuietIsDrain, DrainBecomes DEF WritersInv, Quiet
  <2>7. pending' \subseteq PendRows /\ IsFiniteSet(pending')
    BY <2>2, FiniteSubset DEF WritersInv, ChainType
  <2>8. ChainType'
    BY <2>2, <2>5, <2>6, <2>7 DEF WritersInv, ChainType, Became
  <2>9. LockInv'
    <3>1. \A b \in Cmds : cmd'[b] # "locked"
      BY <2>2, ChainAssumption DEF WritersInv, LockInv
    <3>2. \A e \in Drainers : drain'[e].at # "locked"
      BY <2>2, <2>6 DEF WritersInv, LockInv, Became
    <3> QED  BY <2>5, <3>1, <3>2 DEF LockInv
  <2>10. \A e \in Drainers : drain'[e].at \in {"claimed", "locked"} => drain'[e].claimed # <<>>
    BY <2>6 DEF WritersInv, Became
  <2> QED  BY <2>2, <2>5, <2>8, <2>9, <2>10 DEF WritersInv
<1> QED  BY <1>2, <1>3

LEMMA QuietWriters ==
    ASSUME WritersInv, clock' \in Nat, visible' \subseteq Nat, rows' \in Seq(LogRows),
           UNCHANGED <<head, lock, prev, cmd, pending, nextId, staged, drain>>
    PROVE  WritersInv'
  BY DEF WritersInv, ChainType, LockInv

LEMMA WalkInit == Init => WritersInv /\ WalkInv
<1> SUFFICES ASSUME Init PROVE WritersInv /\ WalkInv
  OBVIOUS
<1>1. WritersInv
  <2>1. ChainType /\ LockInv
    BY AuditInit DEF AuditInv
  <2> QED  BY <2>1 DEF Init, WritersInv, Quiet
<1>2. walk \in Walks /\ walk.at = "idle" /\ walk.rows = <<>> /\ rows = <<>>
  BY SMT DEF Init, NoWalk, Walks
<1>3. Aligned(<<>>, head)
  BY SMT DEF Aligned
<1> QED  BY <1>1, <1>2, <1>3 DEF WalkInv, VerifyExact

LEMMA WalkStep ==
    ASSUME Library, WritersInv, WalkInv, [Next]_vars
    PROVE  WritersInv' /\ WalkInv'
<1>1. CASE UNCHANGED vars
  <2>1. UNCHANGED <<rows, head, walk, lock, prev, cmd, pending, visible, nextId, staged, drain, clock>>
    BY <1>1 DEF vars
  <2>2. clock' \in Nat /\ visible' \subseteq Nat /\ rows' \in Seq(LogRows)
    BY <2>1 DEF WritersInv, ChainType
  <2> QED  BY <2>1, <2>2, QuietWriters, QuietWalk
<1>2. CASE Tick \/ Replicate
  <2>1. UNCHANGED <<rows, head, walk, lock, prev, cmd, pending, nextId, staged, drain>>
    BY <1>2 DEF Tick, Replicate, tables
  <2>2. clock' \in Nat /\ rows' \in Seq(LogRows)
    BY SMT, <1>2, <2>1 DEF WritersInv, ChainType, Tick, Replicate
  <2>3. visible' \subseteq Nat
    <3>1. visible \subseteq Nat /\ {p.id : p \in pending} \subseteq Nat
      BY DEF WritersInv, ChainType, PendRows
    <3>2. visible' = visible \/ visible' = {p.id : p \in pending}
      BY <1>2 DEF Tick, Replicate
    <3> QED  BY <3>1, <3>2
  <2> QED  BY <2>1, <2>2, <2>3, QuietWriters, QuietWalk
<1>3. CASE Cleanup \/ Edit
  <2>1. UNCHANGED <<head, lock, prev, cmd, pending, visible, nextId, staged, drain, clock>>
    BY <1>3 DEF Cleanup, Edit, RowsBecome
  <2>2. WalkInv' /\ rows' \in Seq(LogRows)
    BY <1>3, EditKeepsWalk
  <2>3. clock' \in Nat /\ visible' \subseteq Nat
    BY <2>1 DEF WritersInv, ChainType
  <2> QED  BY <2>1, <2>2, <2>3, QuietWriters
<1>4. CASE VerifyHead \/ VerifyReturns \/ \E since \in 0..clock : VerifyRows(since)
  <2>1. UNCHANGED <<rows, head, lock, prev, cmd, pending, visible, nextId, staged, drain, clock>>
    BY <1>4 DEF VerifyHead, VerifyReturns, VerifyRows, tables
  <2>2. clock' \in Nat /\ visible' \subseteq Nat /\ rows' \in Seq(LogRows)
    BY <2>1 DEF WritersInv, ChainType
  <2>3. WalkInv'
    BY <1>4, VerifyHeadKeepsWalk, VerifyReturnsKeepsWalk, VerifyRowsKeepsWalk
  <2> QED  BY <2>1, <2>2, <2>3, QuietWriters
<1>5. ASSUME NEW c \in Cmds,
             Record(c) \/ Commit(c) \/ InsertPending(c) \/ CommitStaged(c) \/ Rollback(c)
      PROVE  WritersInv' /\ WalkInv'
  <2>1. CASE Commit(c)
    BY <2>1, ExtendersKeep
  <2>2. CASE Record(c) \/ InsertPending(c) \/ CommitStaged(c) \/ Rollback(c)
    BY <2>2, CommandsKeepWriters, QuietWalk
  <2> QED  BY <1>5, <2>1, <2>2
<1>6. ASSUME NEW d \in Drainers, Drain(d) \/ DrainFails(d)
      PROVE  WritersInv' /\ WalkInv'
  <2>1. CASE Apply(d)
    BY <2>1, ExtendersKeep
  <2>2. CASE ReadPending(d) \/ Claim(d) \/ DrainLocks(d) \/ DrainFails(d)
    <3>1. UNCHANGED <<rows, head, walk>>
      BY <2>2 DEF ReadPending, Claim, DrainLocks, DrainFails, tables
    <3> QED  BY <2>2, <3>1, DrainersKeepWriters, QuietWalk
  <2> QED  BY <1>6, <2>1, <2>2 DEF Drain
<1> QED  BY <1>1, <1>2, <1>3, <1>4, <1>5, <1>6 DEF Next

-----------------------------------------------------------------------------
(* The library's part, and the theorems.                                   *)
INSTANCE FiniteSetTheorems

Below == {p \in Nat \X Nat : p[1] < p[2]}

LEMMA WellOrdered ==
    ASSUME NEW T \in SUBSET Nat, T # {}
    PROVE  \E m \in T : \A k \in T : m <= k
<1>1. IsWellFoundedOn(Below, Nat)
  BY NatLessThanWellFounded DEF OpToRel, Below
<1>2. PICK m \in T : \A k \in T : ~(<<k, m>> \in Below)
  BY <1>1, WFMin
<1>3. ASSUME NEW k \in T PROVE m <= k
  <2>1. k \in Nat /\ m \in Nat /\ <<k, m>> \in Nat \X Nat /\ <<k, m>>[1] = k /\ <<k, m>>[2] = m
    OBVIOUS
  <2>2. k < m => <<k, m>> \in Below
    BY <2>1 DEF Below
  <2>3. ~(k < m)
    BY <1>2, <2>2
  <2> QED  BY SMT, <2>1, <2>3
<1> QED  BY <1>3

LEMMA LibraryHolds == Library
<1>1. \A S : IsFiniteSet(S) => Cardinality(S) \in Nat
  BY FS_CardinalityType
<1>2. \A S : IsFiniteSet(S) => \A T \in SUBSET S : Cardinality(T) <= Cardinality(S)
  BY FS_Subset
<1> QED  BY <1>1, <1>2, WellOrdered DEF Library

LEMMA AuditInvariant == Spec => [](~edited => AuditInv)
<1>1. Init => (~edited => AuditInv)
  BY AuditInit
<1>2. (~edited => AuditInv) /\ [Next]_vars => (~edited => AuditInv)'
  BY AuditStep, LibraryHolds
<1> QED  BY <1>1, <1>2, PTL DEF Spec

(***************************************************************************)
(* Concurrent Records and overlapping, stale or failing DrainPending calls  *)
(* leave one unbroken chain on which, or in audit_pending, every committed  *)
(* command is found exactly once, durable commands in commit order, until   *)
(* somebody removes or changes rows.                                        *)
(***************************************************************************)
THEOREM ChainIsComplete == Spec => []ChainComplete
<1>1. (~edited => AuditInv) => ChainComplete
  BY OnceOfInv DEF AuditInv, OrderInv, ChainComplete
<1> QED  BY <1>1, AuditInvariant, PTL

(***************************************************************************)
(* VerifyChain is exact for any writers, drainers, retention and edits: a   *)
(* full walk that nothing disturbs is clean exactly when the table still    *)
(* runs from the genesis to the head, and "clean" is never said of rows     *)
(* with a gap or a change in them.                                          *)
(***************************************************************************)
THEOREM WalkIsExact == Spec => []VerifyExact
<1>1. Init => WritersInv /\ WalkInv
  BY WalkInit
<1>2. WritersInv /\ WalkInv /\ [Next]_vars => WritersInv' /\ WalkInv'
  BY WalkStep, LibraryHolds
<1>3. WalkInv => VerifyExact
  BY DEF WalkInv
<1> QED  BY <1>1, <1>2, <1>3, PTL DEF Spec
================================================================================
