------------------------------ MODULE RetryProofs ------------------------------
(***************************************************************************)
(* The tier consumer loses no record and handles none early, for any number *)
(* of members, tier partitions and records, any poll size, and any number   *)
(* of rebalances, crashes and failed commits between the steps of Run.      *)
(***************************************************************************)
EXTENDS RetryHold, TLAPS

\* The default prover; the leaves that need arithmetic or sequences name SMT.
USE Zenon

-----------------------------------------------------------------------------
(* The inductive invariant.                                                *)

Batches == [from : Nat, to : Nat, seq : Nat]
Jobs    == [p : Partitions \cup {None}, next : Nat, to : Nat, woken : BOOLEAN]
Wakes   == [p : Partitions, seq : Nat]

GroupType ==
    /\ owner \in [Partitions -> Members \cup {None}]
    /\ committed \in [Partitions -> Nat]

ClientType ==
    /\ pos \in [Members -> [Partitions -> Nat]]
    /\ paused \in [Members -> SUBSET Partitions]

HeldType ==
    /\ held \in [Members -> [Partitions -> Batches]]
    /\ timer \in [Members -> [Partitions -> Nat]]
    /\ wake \in [Members -> Seq(Wakes)]
    /\ nextSeq \in [Members -> Nat]

RunType ==
    /\ pc \in [Members -> {"drain", "fetch", "work", "pause"}]
    /\ job \in [Members -> Jobs]
    /\ fetched \in [Members -> SUBSET Partitions]
    /\ toCommit \in [Members -> [Partitions -> Nat]]

HoldType == GroupType /\ ClientType /\ HeldType /\ RunType

\* The first n records of partition p were handled or escalated.
Below(p, n) == \A k \in 1..n : <<p, k>> \in handled

\* What member m would commit was handled.
CommitsHandled(m, p) == Below(p, toCommit[m][p])

\* A held batch begins where everything before it was handled.
HoldsHandled(m, p) == held[m][p].from >= 1 /\ Below(p, held[m][p].from - 1)

\* A partition with a held batch is paused, or about to be.
HeldIsPaused(m, p) ==
    held[m][p] # NoBatch => p \in paused[m] \/ (pc[m] = "pause" /\ job[m].p = p)

\* Record k is in memory: held, or in the batch that Run is processing.
Pending(m, p, k) ==
    \/ k \in held[m][p].from .. held[m][p].to
    \/ pc[m] = "work" /\ job[m].p = p /\ k \in job[m].next .. job[m].to

\* What the owner fetched is handled or in memory.
FetchedKept(m, p) ==
    owner[p] = m => \A k \in 1..pos[m][p] : <<p, k>> \in handled \/ Pending(m, p, k)

\* A partition of the current poll is not processed, held or revoked before
\* its turn comes.
PolledIsFree(m, p) ==
    p \in fetched[m] /\ Blocked(m) => owner[p] = m /\ p \notin paused[m] /\ job[m].p # p

Kept(m, p) ==
    /\ CommitsHandled(m, p) /\ HoldsHandled(m, p) /\ HeldIsPaused(m, p)
    /\ FetchedKept(m, p) /\ PolledIsFree(m, p)

\* The batch that Run is processing.
JobKept(m) ==
    /\ pc[m] \in {"drain", "fetch"} <=> job[m].p = None
    /\ job[m].p # None => job[m].next >= 1 /\ Below(job[m].p, job[m].next - 1)
    /\ pc[m] = "work" => held[m][job[m].p] = NoBatch

HoldInv ==
    /\ HoldType /\ NoSkip /\ NotEarly
    /\ \A m \in Members : JobKept(m) /\ \A p \in Partitions : Kept(m, p)

-----------------------------------------------------------------------------
(* Types.                                                                  *)

LEMMA Nothing == NoBatch \in Batches /\ NoJob \in Jobs /\ NoBatch.from = 1 /\ NoJob.p = None
  BY SMT DEF NoBatch, NoJob, Batches, Jobs

LEMMA InitType == Init => HoldType
<1> SUFFICES ASSUME Init PROVE HoldType
  OBVIOUS
<1>1. GroupType
  BY SMT DEF Init, GroupType
<1>2. ClientType
  BY SMT DEF Init, ClientType
<1>3. HeldType
  BY SMT, Nothing DEF Init, HeldType
<1>4. RunType
  BY SMT, Nothing DEF Init, RunType
<1> QED  BY <1>1, <1>2, <1>3, <1>4 DEF HoldType

\* The current batch is one of records.
LEMMA JobOf ==
    ASSUME HoldType, NEW m \in Members, JobKept(m), pc[m] \in {"work", "pause"}
    PROVE  job[m].p \in Partitions /\ job[m].next \in Nat /\ job[m].to \in Nat
<1>1. job[m] \in Jobs
  BY DEF HoldType, RunType
<1>2. job[m].p # None
  BY DEF JobKept
<1> QED  BY SMT, <1>1, <1>2 DEF Jobs

\* The event that drainWakes takes from the channel.
LEMMA HeadOf ==
    ASSUME HoldType, NEW m \in Members, wake[m] # <<>>
    PROVE  /\ Head(wake[m]).p \in Partitions /\ Head(wake[m]).seq \in Nat
           /\ Tail(wake[m]) \in Seq(Wakes)
<1>1. wake[m] \in Seq(Wakes)
  BY DEF HoldType, HeldType
<1>2. Head(wake[m]) \in Wakes /\ Tail(wake[m]) \in Seq(Wakes)
  BY SMT, <1>1
<1> QED  BY SMT, <1>2 DEF Wakes

LEMMA DueType ==
    ASSUME HoldType, NEW p, NEW k, Due(p, k)
    PROVE  HoldType'
  BY DEF HoldType, GroupType, ClientType, HeldType, RunType, Due, client, hold

LEMMA TimerFiresType ==
    ASSUME HoldType, NEW m \in Members, NEW p \in Partitions, TimerFires(m, p)
    PROVE  HoldType'
<1>1. [p |-> p, seq |-> timer[m][p]] \in Wakes
  BY SMT DEF HoldType, HeldType, Wakes
<1>2. Append(wake[m], [p |-> p, seq |-> timer[m][p]]) \in Seq(Wakes)
  BY SMT, <1>1 DEF HoldType, HeldType
<1>3. wake' \in [Members -> Seq(Wakes)]
  BY <1>2 DEF HoldType, HeldType, TimerFires
<1>4. timer' \in [Members -> [Partitions -> Nat]]
  BY SMT DEF HoldType, HeldType, TimerFires
<1> QED  BY <1>3, <1>4 DEF HoldType, GroupType, ClientType, HeldType, RunType, TimerFires, client

LEMMA AssignType ==
    ASSUME HoldType, NEW m \in Members, NEW p \in Partitions, Assign(p, m)
    PROVE  HoldType'
<1>1. owner' \in [Partitions -> Members \cup {None}]
  BY DEF HoldType, GroupType, Assign
<1>2. pos' \in [Members -> [Partitions -> Nat]]
  BY SMT DEF HoldType, ClientType, GroupType, Assign
<1> QED  BY <1>1, <1>2 DEF HoldType, GroupType, ClientType, HeldType, RunType, Assign, hold

LEMMA RevokeType ==
    ASSUME HoldType, NEW p \in Partitions, Revoke(p)
    PROVE  HoldType'
<1>1. owner[p] \in Members
  BY DEF HoldType, GroupType, Revoke
<1>2. owner' \in [Partitions -> Members \cup {None}]
  BY DEF HoldType, GroupType, Revoke
<1>3. held' \in [Members -> [Partitions -> Batches]]
  BY SMT, Nothing, <1>1 DEF HoldType, HeldType, Revoke, onRevoked
<1>4. timer' \in [Members -> [Partitions -> Nat]]
  BY SMT, <1>1 DEF HoldType, HeldType, Revoke, onRevoked
<1>5. paused' \in [Members -> SUBSET Partitions]
  BY SMT, <1>1 DEF HoldType, ClientType, Revoke, onRevoked
<1> QED  BY <1>2, <1>3, <1>4, <1>5 DEF HoldType, GroupType, ClientType, HeldType, RunType, Revoke

LEMMA CrashType ==
    ASSUME HoldType, NEW m \in Members, Crash(m)
    PROVE  HoldType'
<1>1. owner' \in [Partitions -> Members \cup {None}]
  BY DEF HoldType, GroupType, Crash
<1>2. paused' \in [Members -> SUBSET Partitions]
  BY DEF HoldType, ClientType, Crash
<1>3. held' \in [Members -> [Partitions -> Batches]]
  BY Nothing DEF HoldType, HeldType, Crash
<1>4. timer' \in [Members -> [Partitions -> Nat]]
  BY SMT DEF HoldType, HeldType, Crash
<1>5. wake' \in [Members -> Seq(Wakes)]
  BY SMT DEF HoldType, HeldType, Crash
<1>6. nextSeq' \in [Members -> Nat]
  BY SMT DEF HoldType, HeldType, Crash
<1>7. pc' \in [Members -> {"drain", "fetch", "work", "pause"}]
  BY DEF HoldType, RunType, Crash, Goto
<1>8. job' \in [Members -> Jobs] /\ fetched' \in [Members -> SUBSET Partitions]
  BY Nothing DEF HoldType, RunType, Crash
<1>9. toCommit' \in [Members -> [Partitions -> Nat]]
  BY SMT DEF HoldType, RunType, Crash
<1>10. committed' = committed /\ pos' = pos
  BY DEF Crash
<1>11. HeldType'
  BY <1>3, <1>4, <1>5, <1>6 DEF HeldType
<1>12. RunType'
  BY <1>7, <1>8, <1>9 DEF RunType
<1> QED  BY <1>1, <1>2, <1>10, <1>11, <1>12 DEF HoldType, GroupType, ClientType

LEMMA DrainWakeType ==
    ASSUME HoldType, NEW m \in Members, DrainWake(m)
    PROVE  HoldType'
<1> DEFINE p == Head(wake[m]).p
           batch == held[m][p]
<1>1. p \in Partitions /\ Tail(wake[m]) \in Seq(Wakes)
  BY HeadOf DEF DrainWake
<1>2. batch \in Batches
  BY <1>1 DEF HoldType, HeldType
<1>3. [p |-> p, next |-> batch.from, to |-> batch.to, woken |-> TRUE] \in Jobs
  BY SMT, <1>1, <1>2 DEF Jobs, Batches
<1> HIDE DEF p, batch
<1>4. wake' \in [Members -> Seq(Wakes)]
  BY <1>1 DEF HoldType, HeldType, DrainWake
<1>5. held' \in [Members -> [Partitions -> Batches]]
  <2>1. held' = [held EXCEPT ![m][p] = NoBatch] \/ held' = held
    BY DEF DrainWake, p
  <2>2. CASE held' = [held EXCEPT ![m][p] = NoBatch]
    BY <1>1, <2>2, Nothing DEF HoldType, HeldType
  <2> QED  BY <2>1, <2>2 DEF HoldType, HeldType
<1>6. timer' \in [Members -> [Partitions -> Nat]]
  <2>1. timer' = [timer EXCEPT ![m][p] = 0] \/ timer' = timer
    BY DEF DrainWake, p
  <2>2. 0 \in Nat
    BY SMT
  <2>3. CASE timer' = [timer EXCEPT ![m][p] = 0]
    BY <1>1, <2>2, <2>3 DEF HoldType, HeldType
  <2> QED  BY <2>1, <2>3 DEF HoldType, HeldType
<1>7. job' \in [Members -> Jobs]
  BY <1>3 DEF HoldType, RunType, DrainWake, p, batch
<1>8. pc' \in [Members -> {"drain", "fetch", "work", "pause"}]
  BY DEF HoldType, RunType, DrainWake, Goto
<1>9. UNCHANGED <<owner, committed, pos, paused, nextSeq, fetched, toCommit>>
  BY DEF DrainWake, client
<1>10. HeldType'
  BY <1>4, <1>5, <1>6, <1>9 DEF HoldType, HeldType
<1>11. RunType'
  BY <1>7, <1>8, <1>9 DEF HoldType, RunType
<1> QED  BY <1>9, <1>10, <1>11 DEF HoldType, GroupType, ClientType

LEMMA PollFetchesType ==
    ASSUME HoldType, NEW m \in Members, PollFetches(m)
    PROVE  HoldType'
<1>1. fetched' \in [Members -> SUBSET Partitions]
  BY DEF HoldType, RunType, PollFetches
<1>2. pc' \in [Members -> {"drain", "fetch", "work", "pause"}]
  BY DEF HoldType, RunType, PollFetches, Goto
<1> QED  BY <1>1, <1>2 DEF HoldType, GroupType, ClientType, HeldType, RunType, PollFetches, client, hold

LEMMA ProcessPartitionType ==
    ASSUME HoldType, NEW m \in Members, ProcessPartition(m)
    PROVE  HoldType'
<1>1. PICK p \in fetched[m], n \in 1..MaxFetch :
        /\ job' = [job EXCEPT ![m] = [p |-> p, next |-> pos[m][p] + 1,
                                      to |-> pos[m][p] + n, woken |-> FALSE]]
        /\ pos' = [pos EXCEPT ![m][p] = @ + n]
        /\ fetched' = [fetched EXCEPT ![m] = @ \ {p}]
  BY DEF ProcessPartition
<1>2. p \in Partitions
  BY DEF HoldType, RunType
<1>3. pos[m][p] \in Nat
  BY <1>2 DEF HoldType, ClientType
<1>4. n \in Nat /\ pos[m][p] + n \in Nat /\ pos[m][p] + 1 \in Nat
  BY SMT, <1>3, HoldAssumption
<1>5. [p |-> p, next |-> pos[m][p] + 1, to |-> pos[m][p] + n, woken |-> FALSE] \in Jobs
  BY SMT, <1>2, <1>4 DEF Jobs
<1>6. job' \in [Members -> Jobs] /\ fetched' \in [Members -> SUBSET Partitions]
  BY <1>1, <1>5 DEF HoldType, RunType
<1>7. pos' \in [Members -> [Partitions -> Nat]]
  BY SMT, <1>1, <1>2, <1>4 DEF HoldType, ClientType
<1>8. pc' \in [Members -> {"drain", "fetch", "work", "pause"}]
  BY DEF HoldType, RunType, ProcessPartition, Goto
<1> QED  BY <1>6, <1>7, <1>8
         DEF HoldType, GroupType, ClientType, HeldType, RunType, ProcessPartition, hold

LEMMA HandleRecordType ==
    ASSUME HoldType, NEW m \in Members, JobKept(m), HandleRecord(m)
    PROVE  HoldType'
<1>1. job[m].p \in Partitions /\ job[m].next \in Nat
  BY JobOf DEF HandleRecord, Working
<1>2. job' \in [Members -> Jobs]
  <2>1. [job[m] EXCEPT !.next = @ + 1] \in Jobs
    BY SMT, <1>1 DEF HoldType, RunType, Jobs
  <2> QED  BY <2>1 DEF HoldType, RunType, HandleRecord
<1>3. toCommit' \in [Members -> [Partitions -> Nat]]
  BY SMT, <1>1 DEF HoldType, RunType, HandleRecord
<1> QED  BY <1>2, <1>3
         DEF HoldType, GroupType, ClientType, HeldType, RunType, HandleRecord, client, hold

LEMMA HoldRecordsType ==
    ASSUME HoldType, NEW m \in Members, JobKept(m), HoldRecords(m)
    PROVE  HoldType'
<1> DEFINE batch == [from |-> job[m].next, to |-> job[m].to, seq |-> nextSeq[m] + 1]
<1>1. job[m].p \in Partitions /\ job[m].next \in Nat /\ job[m].to \in Nat
  BY JobOf DEF HoldRecords, Working
<1>2. nextSeq[m] + 1 \in Nat
  BY SMT DEF HoldType, HeldType
<1>3. batch \in Batches
  BY SMT, <1>1, <1>2 DEF Batches
<1>4. held' \in [Members -> [Partitions -> Batches]]
  BY <1>1, <1>3 DEF HoldType, HeldType, HoldRecords
<1>5. timer' \in [Members -> [Partitions -> Nat]]
  BY <1>1, <1>2 DEF HoldType, HeldType, HoldRecords
<1>6. nextSeq' \in [Members -> Nat]
  BY <1>2 DEF HoldType, HeldType, HoldRecords
<1>7. pc' \in [Members -> {"drain", "fetch", "work", "pause"}]
  BY DEF HoldType, RunType, HoldRecords, Goto
<1>8. UNCHANGED <<owner, committed, pos, paused, wake, job, fetched, toCommit>>
  BY DEF HoldRecords, client
<1> QED  BY <1>4, <1>5, <1>6, <1>7, <1>8 DEF HoldType, GroupType, ClientType, HeldType, RunType

LEMMA FinishType ==
    ASSUME HoldType, NEW m \in Members, Finish(m),
           UNCHANGED <<owner, committed, pos, held, timer, wake, nextSeq, fetched, toCommit>>,
           paused' \in [Members -> SUBSET Partitions]
    PROVE  HoldType'
<1>1. job' \in [Members -> Jobs]
  BY Nothing DEF HoldType, RunType, Finish
<1>2. pc' \in [Members -> {"drain", "fetch", "work", "pause"}]
  BY DEF HoldType, RunType, Finish, Goto
<1> QED  BY <1>1, <1>2 DEF HoldType, GroupType, ClientType, HeldType, RunType

LEMMA PauseFetchPartitionsType ==
    ASSUME HoldType, NEW m \in Members, JobKept(m), PauseFetchPartitions(m)
    PROVE  HoldType'
<1>1. job[m].p \in Partitions
  BY JobOf DEF PauseFetchPartitions
<1>2. paused' \in [Members -> SUBSET Partitions]
  BY <1>1 DEF HoldType, ClientType, PauseFetchPartitions
<1> QED  BY <1>2, FinishType DEF PauseFetchPartitions, hold

LEMMA ProcessedAllType ==
    ASSUME HoldType, NEW m \in Members, ProcessedAll(m)
    PROVE  HoldType'
<1>1. paused' \in [Members -> SUBSET Partitions]
  BY DEF HoldType, ClientType, ProcessedAll
<1> QED  BY <1>1, FinishType DEF ProcessedAll, hold

LEMMA CommitType ==
    ASSUME HoldType, NEW m \in Members, Commit(m)
    PROVE  HoldType'
<1>1. committed' \in [Partitions -> Nat]
  <2>1. \A p \in Partitions : toCommit[m][p] \in Nat /\ committed[p] \in Nat
    BY DEF HoldType, GroupType, RunType
  <2>2. CASE committed' = committed
    BY <2>2 DEF HoldType, GroupType
  <2>3. CASE committed' = [p \in Partitions |->
                             IF toCommit[m][p] # 0 THEN toCommit[m][p] ELSE committed[p]]
    BY <2>1, <2>3
  <2> QED  BY <2>2, <2>3 DEF Commit
<1>2. toCommit' \in [Members -> [Partitions -> Nat]]
  BY SMT DEF HoldType, RunType, Commit
<1>3. pc' \in [Members -> {"drain", "fetch", "work", "pause"}]
  BY DEF HoldType, RunType, Commit, Goto
<1> QED  BY <1>1, <1>2, <1>3
         DEF HoldType, GroupType, ClientType, HeldType, RunType, Commit, client, hold

-----------------------------------------------------------------------------
(* What a step leaves alone.                                               *)

\* Nothing changes for member x, except that more records are handled.
SameMember(x) ==
    /\ handled \subseteq handled'
    /\ \A p \in Partitions : owner'[p] = x <=> owner[p] = x
    /\ pos'[x] = pos[x] /\ paused'[x] = paused[x] /\ held'[x] = held[x]
    /\ pc'[x] = pc[x] /\ job'[x] = job[x] /\ fetched'[x] = fetched[x] /\ toCommit'[x] = toCommit[x]

\* For partition p of member m only where Run is may change.
SamePartition(m, p) ==
    /\ handled \subseteq handled'
    /\ owner'[p] = m <=> owner[p] = m
    /\ pos'[m][p] = pos[m][p] /\ held'[m][p] = held[m][p] /\ toCommit'[m][p] = toCommit[m][p]
    /\ p \in paused'[m] <=> p \in paused[m]

LEMMA SameCommits ==
    ASSUME NEW m, NEW p, SamePartition(m, p), CommitsHandled(m, p)
    PROVE  CommitsHandled(m, p)'
  BY DEF SamePartition, CommitsHandled, Below

LEMMA SameHolds ==
    ASSUME NEW m, NEW p, SamePartition(m, p), HoldsHandled(m, p)
    PROVE  HoldsHandled(m, p)'
  BY DEF SamePartition, HoldsHandled, Below

LEMMA SameHeldPaused ==
    ASSUME NEW m, NEW p, SamePartition(m, p), HeldIsPaused(m, p),
           ~(pc[m] = "pause" /\ job[m].p = p) \/ (pc'[m] = pc[m] /\ job'[m] = job[m])
    PROVE  HeldIsPaused(m, p)'
  BY DEF SamePartition, HeldIsPaused

LEMMA SameFetched ==
    ASSUME NEW m, NEW p, SamePartition(m, p), FetchedKept(m, p),
           ~(pc[m] = "work" /\ job[m].p = p) \/ (pc'[m] = pc[m] /\ job'[m] = job[m])
    PROVE  FetchedKept(m, p)'
<1> SUFFICES ASSUME owner'[p] = m, NEW k \in 1..pos'[m][p]
             PROVE  <<p, k>> \in handled' \/ Pending(m, p, k)'
  BY DEF FetchedKept
<1>1. <<p, k>> \in handled \/ Pending(m, p, k)
  BY DEF FetchedKept, SamePartition
<1>2. Pending(m, p, k) => Pending(m, p, k)'
  BY DEF Pending, SamePartition
<1> QED  BY <1>1, <1>2 DEF SamePartition

LEMMA ElsewhereKept ==
    ASSUME NEW x, JobKept(x), \A p \in Partitions : Kept(x, p), SameMember(x)
    PROVE  JobKept(x)' /\ \A p \in Partitions : Kept(x, p)'
<1>1. JobKept(x)'
  BY DEF JobKept, SameMember, Below
<1>2. ASSUME NEW p \in Partitions PROVE Kept(x, p)'
  <2>1. SamePartition(x, p)
    BY DEF SameMember, SamePartition
  <2>2. pc'[x] = pc[x] /\ job'[x] = job[x]
    BY DEF SameMember
  <2>3. Kept(x, p)
    OBVIOUS
  <2>4. CommitsHandled(x, p)' /\ HoldsHandled(x, p)'
    BY <2>1, <2>3, SameCommits, SameHolds DEF Kept
  <2>5. HeldIsPaused(x, p)'
    BY <2>1, <2>2, <2>3, SameHeldPaused DEF Kept
  <2>6. FetchedKept(x, p)'
    BY <2>1, <2>2, <2>3, SameFetched DEF Kept
  <2>7. PolledIsFree(x, p)'
    BY <2>3 DEF Kept, PolledIsFree, Blocked, SameMember
  <2> QED  BY <2>4, <2>5, <2>6, <2>7 DEF Kept
<1> QED  BY <1>1, <1>2

\* A step of member m: what is left to show is about m.
LEMMA MemberStep ==
    ASSUME HoldInv, NEW m \in Members, HoldType', NoSkip', NotEarly',
           \A x \in Members \ {m} : SameMember(x),
           JobKept(m)', \A p \in Partitions : Kept(m, p)'
    PROVE  HoldInv'
<1>1. ASSUME NEW x \in Members
      PROVE  JobKept(x)' /\ \A p \in Partitions : Kept(x, p)'
  <2>1. CASE x = m
    BY <2>1
  <2>2. CASE x # m
    BY <2>2, ElsewhereKept DEF HoldInv
  <2> QED  BY <2>1, <2>2
<1> QED  BY <1>1 DEF HoldInv

\* Records that were handled stay handled and due.
LEMMA GroupSame ==
    ASSUME HoldInv, handled \subseteq handled', committed' = committed
    PROVE  NoSkip'
  BY DEF HoldInv, NoSkip

LEMMA StillNotEarly ==
    ASSUME HoldInv, handled' = handled, due \subseteq due'
    PROVE  NotEarly'
  BY DEF HoldInv, NotEarly

LEMMA NothingBelow == \A p : Below(p, 0) /\ Below(p, 0)'
<1>1. 1..0 = {}
  BY SMT
<1> QED  BY <1>1 DEF Below

-----------------------------------------------------------------------------
(* The initial state, the clock, and rebalances.                           *)

LEMMA InitInv == Init => HoldInv
<1> SUFFICES ASSUME Init PROVE HoldInv
  OBVIOUS
<1>1. NoSkip
  <2>1. \A p \in Partitions : Below(p, committed[p])
    BY NothingBelow DEF Init
  <2> QED  BY <2>1 DEF NoSkip, Below
<1>2. NotEarly
  BY DEF Init, NotEarly
<1>3. ASSUME NEW m \in Members PROVE JobKept(m)
  BY <1>3, Nothing DEF Init, JobKept
<1>4. ASSUME NEW m \in Members, NEW p \in Partitions PROVE Kept(m, p)
  <2>1. CommitsHandled(m, p)
    BY NothingBelow DEF Init, CommitsHandled
  <2>2. held[m][p] = NoBatch /\ NoBatch.from - 1 = 0 /\ NoBatch.from >= 1
    BY SMT, Nothing DEF Init
  <2>3. HoldsHandled(m, p)
    BY <2>2, NothingBelow DEF HoldsHandled
  <2>4. owner[p] # m /\ fetched[m] = {}
    BY HoldAssumption DEF Init
  <2> QED  BY <2>1, <2>2, <2>3, <2>4 DEF Kept, HeldIsPaused, FetchedKept, PolledIsFree
<1> QED  BY <1>1, <1>2, <1>3, <1>4, InitType DEF HoldInv

LEMMA QuietKeeps ==
    ASSUME HoldInv, HoldType', handled' = handled, due \subseteq due',
           UNCHANGED <<owner, committed, pos, paused, held, pc, job, fetched, toCommit>>
    PROVE  HoldInv'
<1>1. ASSUME NEW x \in Members
      PROVE  JobKept(x)' /\ \A p \in Partitions : Kept(x, p)'
  <2>1. SameMember(x)
    BY DEF SameMember
  <2> QED  BY <2>1, ElsewhereKept DEF HoldInv
<1> QED  BY <1>1, GroupSame, StillNotEarly DEF HoldInv

LEMMA DueKeeps ==
    ASSUME HoldInv, NEW p, NEW k, Due(p, k)
    PROVE  HoldInv'
<1>1. HoldType'
  BY DueType DEF HoldInv
<1>2. due \subseteq due'
  BY DEF Due
<1> QED  BY <1>1, <1>2, QuietKeeps DEF Due, client, hold

LEMMA TimerFiresKeeps ==
    ASSUME HoldInv, NEW m \in Members, NEW p \in Partitions, TimerFires(m, p)
    PROVE  HoldInv'
<1>1. HoldType'
  BY TimerFiresType DEF HoldInv
<1> QED  BY <1>1, QuietKeeps DEF TimerFires, client

\* The new owner starts at the committed offset, below which all is handled.
LEMMA AssignKeeps ==
    ASSUME HoldInv, NEW m \in Members, NEW p \in Partitions, Assign(p, m)
    PROVE  HoldInv'
<1>1. HoldType'
  BY AssignType DEF HoldInv
<1>2. /\ owner \in [Partitions -> Members \cup {None}] /\ m # None /\ owner[p] = None
      /\ pos \in [Members -> [Partitions -> Nat]]
  BY HoldAssumption DEF HoldInv, HoldType, GroupType, ClientType, Assign
<1>3. /\ owner' = [owner EXCEPT ![p] = m] /\ pos' = [pos EXCEPT ![m][p] = committed[p]]
      /\ handled' = handled /\ due' = due /\ committed' = committed /\ paused' = paused
      /\ held' = held /\ pc' = pc /\ job' = job /\ fetched' = fetched /\ toCommit' = toCommit
  BY DEF Assign, hold
<1>4. ASSUME NEW x \in Members \ {m} PROVE SameMember(x)
  <2>1. pos'[x] = pos[x]
    BY <1>2, <1>3
  <2>2. ASSUME NEW q \in Partitions PROVE owner'[q] = x <=> owner[q] = x
    <3>1. x # None
      BY HoldAssumption
    <3> QED  BY <1>2, <1>3, <3>1
  <2> QED  BY <1>3, <2>1, <2>2 DEF SameMember
<1>5. JobKept(m)'
  <2>1. JobKept(m)
    BY DEF HoldInv
  <2> QED  BY <1>3, <2>1 DEF JobKept, Below
<1>6. ASSUME NEW q \in Partitions PROVE Kept(m, q)'
  <2>1. Kept(m, q)
    BY DEF HoldInv
  <2>2. CommitsHandled(m, q)' /\ HoldsHandled(m, q)' /\ HeldIsPaused(m, q)'
    BY <1>3, <2>1 DEF Kept, CommitsHandled, HoldsHandled, HeldIsPaused, Below
  <2>3. PolledIsFree(m, q)'
    <3>1. ~Blocked(m)
      BY DEF Assign
    <3> QED  BY <1>3, <3>1 DEF PolledIsFree, Blocked
  <2>4. FetchedKept(m, q)'
    <3>1. CASE q = p
      <4>1. pos'[m][p] = committed[p]
        BY <1>2, <1>3
      <4>2. \A k \in 1..committed[p] : <<p, k>> \in handled'
        BY <1>3 DEF HoldInv, NoSkip
      <4> QED  BY <3>1, <4>1, <4>2 DEF FetchedKept
    <3>2. CASE q # p
      <4>1. SamePartition(m, q)
        BY <1>2, <1>3, <3>2 DEF SamePartition
      <4> QED  BY <1>3, <2>1, <4>1, SameFetched DEF Kept
    <3> QED  BY <3>1, <3>2
  <2> QED  BY <2>2, <2>3, <2>4 DEF Kept
<1>7. NoSkip' /\ NotEarly'
  BY <1>3, GroupSame, StillNotEarly
<1> QED  BY <1>1, <1>4, <1>5, <1>6, <1>7, MemberStep

\* onRevoked forgets the batch of a partition that has no owner any more.
LEMMA RevokeKeeps ==
    ASSUME HoldInv, NEW p \in Partitions, Revoke(p)
    PROVE  HoldInv'
<1>1. HoldType'
  BY RevokeType DEF HoldInv
<1>2. PICK m \in Members : owner[p] = m
  BY DEF HoldInv, HoldType, GroupType, Revoke
<1>3. /\ owner \in [Partitions -> Members \cup {None}] /\ held \in [Members -> [Partitions -> Batches]]
      /\ paused \in [Members -> SUBSET Partitions]
  BY DEF HoldInv, HoldType, GroupType, HeldType, ClientType
<1>4. /\ owner' = [owner EXCEPT ![p] = None]
      /\ held' = [held EXCEPT ![m][p] = NoBatch] /\ paused' = [paused EXCEPT ![m] = @ \ {p}]
      /\ handled' = handled /\ due' = due /\ committed' = committed /\ pos' = pos
      /\ pc' = pc /\ job' = job /\ fetched' = fetched /\ toCommit' = toCommit
  BY <1>2 DEF Revoke, onRevoked
<1>5. ~Blocked(m)
  BY <1>2 DEF Revoke
<1>6. JobKept(m) /\ \A q \in Partitions : Kept(m, q)
  BY <1>2 DEF HoldInv
<1>7. ASSUME NEW x \in Members \ {m} PROVE SameMember(x)
  <2>1. held'[x] = held[x] /\ paused'[x] = paused[x]
    BY <1>3, <1>4
  <2>2. ASSUME NEW q \in Partitions PROVE owner'[q] = x <=> owner[q] = x
    <3>1. x # None
      BY HoldAssumption
    <3> QED  BY <1>2, <1>3, <1>4, <3>1
  <2> QED  BY <1>4, <2>1, <2>2 DEF SameMember
<1>8. \A q \in Partitions : held'[m][q] = IF q = p THEN NoBatch ELSE held[m][q]
  BY <1>2, <1>3, <1>4
<1>9. JobKept(m)'
  <2>1. pc[m] = "work" => job[m].p \in Partitions
    BY <1>2, <1>6, JobOf DEF HoldInv
  <2> QED  BY <1>4, <1>6, <1>8, <2>1 DEF JobKept, Below
<1>10. ASSUME NEW q \in Partitions PROVE Kept(m, q)'
  <2>1. CommitsHandled(m, q)'
    BY <1>4, <1>6 DEF Kept, CommitsHandled, Below
  <2>2. PolledIsFree(m, q)'
    BY <1>4, <1>5 DEF PolledIsFree, Blocked
  <2>3. CASE q = p
    <3>1. held'[m][p] = NoBatch
      BY <1>8
    <3>2. NoBatch.from - 1 = 0 /\ NoBatch.from >= 1
      BY SMT, Nothing
    <3>3. HoldsHandled(m, p)'
      BY <3>1, <3>2, NothingBelow DEF HoldsHandled
    <3>4. owner'[p] # m
      BY <1>2, <1>3, <1>4, HoldAssumption
    <3> QED  BY <2>1, <2>2, <2>3, <3>1, <3>3, <3>4 DEF Kept, HeldIsPaused, FetchedKept
  <2>4. CASE q # p
    <3>1. SamePartition(m, q)
      <4>1. q \in paused'[m] <=> q \in paused[m]
        BY <1>2, <1>3, <1>4, <2>4
      <4>2. owner'[q] = owner[q] /\ held'[m][q] = held[m][q]
        BY <1>3, <1>4, <1>8, <2>4
      <4> QED  BY <1>4, <4>1, <4>2 DEF SamePartition
    <3>2. Kept(m, q) /\ pc'[m] = pc[m] /\ job'[m] = job[m]
      BY <1>4, <1>6
    <3>3. HoldsHandled(m, q)' /\ HeldIsPaused(m, q)' /\ FetchedKept(m, q)'
      BY <3>1, <3>2, SameHolds, SameHeldPaused, SameFetched DEF Kept
    <3> QED  BY <2>1, <2>2, <3>3 DEF Kept
  <2> QED  BY <2>3, <2>4
<1>11. NoSkip' /\ NotEarly'
  BY <1>4, GroupSame, StillNotEarly
<1> QED  BY <1>1, <1>2, <1>7, <1>9, <1>10, <1>11, MemberStep

\* What a member that dies held in memory belongs to nobody's fetch.
LEMMA CrashKeeps ==
    ASSUME HoldInv, NEW m \in Members, Crash(m)
    PROVE  HoldInv'
<1>1. HoldType'
  BY CrashType DEF HoldInv
<1>2. HoldType
  BY DEF HoldInv
<1>3. ASSUME NEW x \in Members \ {m} PROVE SameMember(x)
  <2>1. /\ held'[x] = held[x] /\ paused'[x] = paused[x] /\ pc'[x] = pc[x] /\ job'[x] = job[x]
        /\ fetched'[x] = fetched[x] /\ toCommit'[x] = toCommit[x]
    BY <1>2 DEF HoldType, ClientType, HeldType, RunType, Crash, Goto
  <2>2. ASSUME NEW q \in Partitions PROVE owner'[q] = x <=> owner[q] = x
    <3>1. x # None
      BY HoldAssumption
    <3> QED  BY <3>1 DEF Crash
  <2>3. handled' = handled /\ pos' = pos
    BY DEF Crash
  <2> QED  BY <2>1, <2>2, <2>3 DEF SameMember
<1>4. pc'[m] = "drain" /\ job'[m] = NoJob /\ fetched'[m] = {}
  BY <1>2 DEF HoldType, RunType, Crash, Goto
<1>5. JobKept(m)'
  BY <1>4, Nothing DEF JobKept
<1>6. ASSUME NEW q \in Partitions PROVE Kept(m, q)'
  <2>1. held'[m][q] = NoBatch /\ toCommit'[m][q] = 0
    BY <1>2 DEF HoldType, HeldType, RunType, Crash
  <2>2. NoBatch.from - 1 = 0 /\ NoBatch.from >= 1
    BY SMT, Nothing
  <2>3. HoldsHandled(m, q)' /\ CommitsHandled(m, q)'
    BY <2>1, <2>2, NothingBelow DEF HoldsHandled, CommitsHandled
  <2>4. owner'[q] # m
    BY HoldAssumption DEF Crash
  <2> QED  BY <1>4, <2>1, <2>3, <2>4 DEF Kept, HeldIsPaused, FetchedKept, PolledIsFree
<1>7. NoSkip' /\ NotEarly'
  BY GroupSame, StillNotEarly DEF Crash
<1> QED  BY <1>1, <1>3, <1>5, <1>6, <1>7, MemberStep

-----------------------------------------------------------------------------
(* Run.                                                                    *)

LEMMA NoBatchEmpty ==
    /\ \A k : k \notin NoBatch.from .. NoBatch.to
    /\ NoBatch.from - 1 = 0 /\ NoBatch.from >= 1
  BY SMT DEF NoBatch

\* A held batch becomes the batch that Run is processing.
LEMMA DrainWakeKeeps ==
    ASSUME HoldInv, NEW m \in Members, DrainWake(m)
    PROVE  HoldInv'
<1>1. HoldType'
  BY DrainWakeType DEF HoldInv
<1>2. PICK p \in Partitions : p = Head(wake[m]).p
  BY HeadOf DEF HoldInv, DrainWake
<1>3. HoldType /\ JobKept(m) /\ \A q \in Partitions : Kept(m, q)
  BY DEF HoldInv
<1>4. /\ handled' = handled /\ due' = due /\ committed' = committed /\ owner' = owner
      /\ pos' = pos /\ paused' = paused /\ fetched' = fetched /\ toCommit' = toCommit
  BY DEF DrainWake, client
<1>5. CASE held' = held /\ job' = job /\ pc' = pc
  BY <1>1, <1>4, <1>5, QuietKeeps
<1>6. CASE /\ held' = [held EXCEPT ![m][p] = NoBatch]
           /\ job' = [job EXCEPT ![m] = [p |-> p, next |-> held[m][p].from,
                                         to |-> held[m][p].to, woken |-> TRUE]]
           /\ pc' = [pc EXCEPT ![m] = "work"]
  <2>1. ASSUME NEW x \in Members \ {m} PROVE SameMember(x)
    <3>1. held'[x] = held[x] /\ job'[x] = job[x] /\ pc'[x] = pc[x]
      BY <1>3, <1>6 DEF HoldType, HeldType, RunType
    <3> QED  BY <1>4, <3>1 DEF SameMember
  <2>2. /\ pc'[m] = "work" /\ pc[m] = "drain"
        /\ job'[m] = [p |-> p, next |-> held[m][p].from, to |-> held[m][p].to, woken |-> TRUE]
        /\ \A q \in Partitions : held'[m][q] = IF q = p THEN NoBatch ELSE held[m][q]
    BY <1>3, <1>6 DEF HoldType, HeldType, RunType, DrainWake
  <2>3. /\ job'[m].p = p /\ job'[m].next = held[m][p].from /\ job'[m].to = held[m][p].to
        /\ job'[m].woken
    <3>1. /\ job'[m].p = p /\ job'[m].next = held[m][p].from /\ job'[m].to = held[m][p].to
          /\ job'[m].woken = TRUE
      BY SMT, <2>2
    <3> QED  BY <3>1
  <2>4. p # None
    BY HoldAssumption
  <2>5. JobKept(m)'
    <3>1. HoldsHandled(m, p)
      BY <1>3 DEF Kept
    <3>2. job'[m].next >= 1 /\ Below(job'[m].p, job'[m].next - 1)
      BY <2>3, <3>1 DEF HoldsHandled
    <3> QED  BY <1>4, <2>2, <2>3, <2>4, <3>2 DEF JobKept, Below
  <2>6. ASSUME NEW q \in Partitions PROVE Kept(m, q)'
    <3>1. CommitsHandled(m, q)'
      BY <1>3, <1>4 DEF Kept, CommitsHandled, Below
    <3>2. PolledIsFree(m, q)'
      BY <2>2, <2>3 DEF PolledIsFree, Blocked
    <3>3. CASE q = p
      <4>1. held'[m][p] = NoBatch
        BY <2>2
      <4>2. HoldsHandled(m, p)'
        BY <4>1, NoBatchEmpty, NothingBelow DEF HoldsHandled
      <4>3. ASSUME owner'[p] = m, NEW k \in 1..pos'[m][p]
            PROVE  <<p, k>> \in handled' \/ Pending(m, p, k)'
        <5>1. <<p, k>> \in handled \/ Pending(m, p, k)
          BY <1>3, <1>4, <4>3 DEF Kept, FetchedKept
        <5>2. Pending(m, p, k) => k \in held[m][p].from .. held[m][p].to
          BY <2>2 DEF Pending
        <5>3. k \in held[m][p].from .. held[m][p].to => Pending(m, p, k)'
          BY <2>2, <2>3 DEF Pending
        <5> QED  BY <1>4, <5>1, <5>2, <5>3
      <4>4. FetchedKept(m, p)'
        BY <4>3 DEF FetchedKept
      <4> QED  BY <3>1, <3>2, <3>3, <4>1, <4>2, <4>4 DEF Kept, HeldIsPaused
    <3>4. CASE q # p
      <4>1. SamePartition(m, q)
        BY <1>4, <2>2, <3>4 DEF SamePartition
      <4>2. Kept(m, q) /\ pc[m] # "work" /\ pc[m] # "pause"
        BY <1>3, <2>2
      <4>3. HoldsHandled(m, q)' /\ HeldIsPaused(m, q)' /\ FetchedKept(m, q)'
        BY <4>1, <4>2, SameHolds, SameHeldPaused, SameFetched DEF Kept
      <4> QED  BY <3>1, <3>2, <4>3 DEF Kept
    <3> QED  BY <3>3, <3>4
  <2>7. NoSkip' /\ NotEarly'
    BY <1>4, GroupSame, StillNotEarly
  <2> QED  BY <1>1, <2>1, <2>5, <2>6, <2>7, MemberStep
<1> QED  BY <1>2, <1>5, <1>6 DEF DrainWake, Goto

\* Only partitions that are owned, not paused and not held are polled.
LEMMA PollFetchesKeeps ==
    ASSUME HoldInv, NEW m \in Members, PollFetches(m)
    PROVE  HoldInv'
<1>1. HoldType'
  BY PollFetchesType DEF HoldInv
<1>2. HoldType /\ JobKept(m) /\ \A q \in Partitions : Kept(m, q)
  BY DEF HoldInv
<1>3. /\ handled' = handled /\ due' = due /\ committed' = committed /\ owner' = owner
      /\ pos' = pos /\ paused' = paused /\ held' = held /\ job' = job /\ toCommit' = toCommit
  BY DEF PollFetches, client, hold
<1>4. PICK S \in SUBSET {p \in Partitions \ paused[m] : owner[p] = m /\ pos[m][p] < Length[p]} :
        fetched' = [fetched EXCEPT ![m] = S]
  BY DEF PollFetches
<1>5. pc' = [pc EXCEPT ![m] = "fetch"] /\ pc[m] = "drain"
  BY DEF PollFetches, Goto
<1>6. /\ fetched'[m] = S /\ pc'[m] = "fetch"
      /\ \A x \in Members \ {m} : fetched'[x] = fetched[x] /\ pc'[x] = pc[x]
  BY <1>2, <1>4, <1>5 DEF HoldType, RunType
<1>7. ASSUME NEW x \in Members \ {m} PROVE SameMember(x)
  BY <1>3, <1>6 DEF SameMember
<1>8. JobKept(m)'
  BY <1>2, <1>3, <1>5, <1>6 DEF JobKept, Below
<1>9. ASSUME NEW q \in Partitions PROVE Kept(m, q)'
  <2>1. SamePartition(m, q)
    BY <1>3 DEF SamePartition
  <2>2. Kept(m, q) /\ pc[m] # "work" /\ pc[m] # "pause"
    BY <1>2, <1>5
  <2>3. CommitsHandled(m, q)' /\ HoldsHandled(m, q)'
    BY <2>1, <2>2, SameCommits, SameHolds DEF Kept
  <2>4. HeldIsPaused(m, q)' /\ FetchedKept(m, q)'
    BY <2>1, <2>2, SameHeldPaused, SameFetched DEF Kept
  <2>5. job[m].p # q
    BY <1>2, <1>5, HoldAssumption DEF JobKept
  <2>6. PolledIsFree(m, q)'
    BY <1>3, <1>4, <1>6, <2>5 DEF PolledIsFree
  <2> QED  BY <2>3, <2>4, <2>6 DEF Kept
<1>10. NoSkip' /\ NotEarly'
  BY <1>3, GroupSame, StillNotEarly
<1> QED  BY <1>1, <1>7, <1>8, <1>9, <1>10, MemberStep

\* A polled batch begins where everything the owner fetched was handled.
LEMMA ProcessPartitionKeeps ==
    ASSUME HoldInv, NEW m \in Members, ProcessPartition(m)
    PROVE  HoldInv'
<1>1. HoldType'
  BY ProcessPartitionType DEF HoldInv
<1>2. HoldType /\ JobKept(m) /\ \A q \in Partitions : Kept(m, q)
  BY DEF HoldInv
<1>3. /\ handled' = handled /\ due' = due /\ committed' = committed /\ owner' = owner
      /\ paused' = paused /\ held' = held /\ toCommit' = toCommit
      /\ pc' = [pc EXCEPT ![m] = "work"] /\ pc[m] = "fetch" /\ job[m].p = None
  BY DEF ProcessPartition, hold, Goto
<1>4. PICK p \in fetched[m], n \in 1..MaxFetch :
        /\ job' = [job EXCEPT ![m] = [p |-> p, next |-> pos[m][p] + 1,
                                      to |-> pos[m][p] + n, woken |-> FALSE]]
        /\ pos' = [pos EXCEPT ![m][p] = @ + n]
        /\ fetched' = [fetched EXCEPT ![m] = @ \ {p}]
  BY DEF ProcessPartition
<1>5. p \in Partitions /\ p # None
  BY <1>2, HoldAssumption DEF HoldType, RunType
<1>6. /\ job'[m].p = p /\ job'[m].next = pos[m][p] + 1 /\ job'[m].to = pos[m][p] + n
      /\ pc'[m] = "work" /\ fetched'[m] = fetched[m] \ {p}
      /\ pos'[m][p] = pos[m][p] + n /\ \A q \in Partitions \ {p} : pos'[m][q] = pos[m][q]
  <2>1. pc'[m] = "work" /\ fetched'[m] = fetched[m] \ {p}
    BY <1>2, <1>3, <1>4 DEF HoldType, RunType
  <2>2. job'[m] = [p |-> p, next |-> pos[m][p] + 1, to |-> pos[m][p] + n, woken |-> FALSE]
    BY <1>2, <1>4 DEF HoldType, RunType
  <2>3. pos'[m][p] = pos[m][p] + n /\ \A q \in Partitions \ {p} : pos'[m][q] = pos[m][q]
    BY <1>2, <1>4, <1>5 DEF HoldType, ClientType
  <2>4. job'[m].p = p /\ job'[m].next = pos[m][p] + 1 /\ job'[m].to = pos[m][p] + n
    BY SMT, <2>2
  <2> QED  BY <2>1, <2>3, <2>4
<1>7. owner[p] = m /\ p \notin paused[m]
  <2>1. PolledIsFree(m, p)
    BY <1>2, <1>5 DEF Kept
  <2> QED  BY <1>3, <1>4, <2>1 DEF PolledIsFree, Blocked
<1>8. held[m][p] = NoBatch
  <2>1. HeldIsPaused(m, p)
    BY <1>2, <1>5 DEF Kept
  <2> QED  BY <1>3, <1>7, <2>1 DEF HeldIsPaused
<1>9. Below(p, pos[m][p])
  <2>1. FetchedKept(m, p)
    BY <1>2, <1>5 DEF Kept
  <2> QED  BY <1>3, <1>7, <1>8, <2>1, NoBatchEmpty DEF FetchedKept, Pending, Below
<1>10. ASSUME NEW x \in Members \ {m} PROVE SameMember(x)
  <2>1. pc'[x] = pc[x] /\ fetched'[x] = fetched[x] /\ job'[x] = job[x]
    BY <1>2, <1>3, <1>4 DEF HoldType, RunType
  <2>2. pos'[x] = pos[x]
    BY <1>2, <1>4 DEF HoldType, ClientType
  <2> QED  BY <1>3, <2>1, <2>2 DEF SameMember
<1>11. pos[m][p] \in Nat /\ n \in Nat
  BY SMT, <1>2, <1>5, HoldAssumption DEF HoldType, ClientType
<1>12. JobKept(m)'
  <2>1. pos[m][p] + 1 >= 1 /\ (pos[m][p] + 1) - 1 = pos[m][p]
    BY SMT, <1>11
  <2> QED  BY <1>3, <1>5, <1>6, <1>8, <1>9, <2>1 DEF JobKept, Below
<1>13. ASSUME NEW q \in Partitions PROVE Kept(m, q)'
  <2>1. Kept(m, q) /\ pc[m] # "work" /\ pc[m] # "pause"
    BY <1>2, <1>3
  <2>2. CommitsHandled(m, q)' /\ HoldsHandled(m, q)'
    BY <1>3, <2>1 DEF Kept, CommitsHandled, HoldsHandled, Below
  <2>3. HeldIsPaused(m, q)'
    BY <1>3, <2>1 DEF Kept, HeldIsPaused
  <2>4. PolledIsFree(m, q)'
    BY <1>3, <1>6, <2>1 DEF Kept, PolledIsFree, Blocked
  <2>5. CASE q = p
    <3>1. ASSUME NEW k \in 1..pos'[m][p] PROVE <<p, k>> \in handled' \/ Pending(m, p, k)'
      <4>1. k \in 1..pos[m][p] \/ k \in pos[m][p] + 1 .. pos[m][p] + n
        BY SMT, <1>6, <1>11
      <4> QED  BY <1>3, <1>6, <1>9, <4>1 DEF Pending, Below
    <3> QED  BY <2>2, <2>3, <2>4, <2>5, <3>1 DEF Kept, FetchedKept
  <2>6. CASE q # p
    <3>1. SamePartition(m, q)
      BY <1>3, <1>6, <2>6 DEF SamePartition
    <3> QED  BY <2>1, <2>2, <2>3, <2>4, <3>1, SameFetched DEF Kept
  <2> QED  BY <2>5, <2>6
<1>14. NoSkip' /\ NotEarly'
  BY <1>3, GroupSame, StillNotEarly
<1> QED  BY <1>1, <1>10, <1>12, <1>13, <1>14, MemberStep

\* The record after a handled prefix is handled, and may be committed.
LEMMA HandleRecordKeeps ==
    ASSUME HoldInv, NEW m \in Members, HandleRecord(m)
    PROVE  HoldInv'
<1>1. HoldType /\ JobKept(m) /\ \A q \in Partitions : Kept(m, q)
  BY DEF HoldInv
<1>2. HoldType'
  BY <1>1, HandleRecordType
<1>3. PICK p \in Partitions, i \in Nat : p = job[m].p /\ i = job[m].next
  BY <1>1, JobOf DEF HandleRecord, Working
<1>4. job[m].to \in Nat
  BY <1>1, JobOf DEF HandleRecord, Working
<1>5. /\ handled' = handled \cup {<<p, i>>} /\ <<p, i>> \in due
      /\ toCommit' = [toCommit EXCEPT ![m][p] = i]
      /\ job' = [job EXCEPT ![m].next = i + 1] /\ pc[m] = "work"
  BY <1>3 DEF HandleRecord, Working, Current
<1>6. /\ due' = due /\ committed' = committed /\ owner' = owner /\ pos' = pos
      /\ paused' = paused /\ held' = held /\ pc' = pc /\ fetched' = fetched
      /\ handled \subseteq handled'
  BY <1>5 DEF HandleRecord, client, hold
<1>7. p # None /\ i >= 1 /\ Below(p, i - 1)
  BY <1>1, <1>3, HoldAssumption DEF JobKept
<1>8. /\ job'[m].p = p /\ job'[m].next = i + 1 /\ job'[m].to = job[m].to
      /\ job'[m].woken = job[m].woken /\ \A x \in Members \ {m} : job'[x] = job[x]
  <2>1. job \in [Members -> Jobs]
    BY <1>1 DEF HoldType, RunType
  <2> QED  BY SMT, <1>3, <1>5, <2>1 DEF Jobs
<1>9. /\ \A q \in Partitions : toCommit'[m][q] = IF q = p THEN i ELSE toCommit[m][q]
      /\ \A x \in Members \ {m} : toCommit'[x] = toCommit[x]
  BY <1>1, <1>5 DEF HoldType, RunType
<1>10. Below(p, i)'
  <2>1. ASSUME NEW k \in 1..i PROVE k \in 1..(i - 1) \/ k = i
    BY SMT
  <2> QED  BY <1>5, <1>7, <2>1 DEF Below
<1>11. ASSUME NEW x \in Members \ {m} PROVE SameMember(x)
  BY <1>6, <1>8, <1>9 DEF SameMember
<1>12. JobKept(m)'
  <2>1. i + 1 >= 1 /\ (i + 1) - 1 = i
    BY SMT
  <2>2. held[m][p] = NoBatch
    BY <1>1, <1>3, <1>5 DEF JobKept
  <2>3. job'[m].next >= 1 /\ \A k \in 1..(job'[m].next - 1) : <<p, k>> \in handled'
    BY <1>8, <1>10, <2>1 DEF Below
  <2> QED  BY <1>5, <1>6, <1>7, <1>8, <2>2, <2>3 DEF JobKept, Below
<1>13. ASSUME NEW q \in Partitions PROVE Kept(m, q)'
  <2>1. Kept(m, q)
    BY <1>1
  <2>2. CommitsHandled(m, q)'
    <3>1. CASE q = p
      BY <1>9, <1>10, <3>1 DEF CommitsHandled, Below
    <3>2. CASE q # p
      BY <1>6, <1>9, <2>1, <3>2 DEF Kept, CommitsHandled, Below
    <3> QED  BY <3>1, <3>2
  <2>3. HoldsHandled(m, q)'
    BY <1>6, <2>1 DEF Kept, HoldsHandled, Below
  <2>4. HeldIsPaused(m, q)'
    BY <1>5, <1>6, <2>1 DEF Kept, HeldIsPaused
  <2>5. PolledIsFree(m, q)'
    BY <1>3, <1>6, <1>8, <2>1 DEF Kept, PolledIsFree, Blocked
  <2>6. ASSUME owner'[q] = m, NEW k \in 1..pos'[m][q]
        PROVE  <<q, k>> \in handled' \/ Pending(m, q, k)'
    <3>1. <<q, k>> \in handled \/ Pending(m, q, k)
      BY <1>6, <2>1, <2>6 DEF Kept, FetchedKept
    <3>2. CASE k \in held[m][q].from .. held[m][q].to
      BY <1>6, <3>2 DEF Pending
    <3>3. CASE q = p /\ k \in i .. job[m].to
      <4>1. k = i \/ k \in i + 1 .. job[m].to
        BY SMT, <1>4, <3>3
      <4>2. CASE k = i
        BY <1>5, <3>3, <4>2
      <4>3. CASE k \in i + 1 .. job[m].to
        <5>1. pc'[m] = "work" /\ job'[m].p = q /\ k \in job'[m].next .. job'[m].to
          BY <1>5, <1>6, <1>8, <3>3, <4>3
        <5> QED  BY <5>1 DEF Pending
      <4> QED  BY <4>1, <4>2, <4>3
    <3> QED  BY <1>3, <1>6, <3>1, <3>2, <3>3 DEF Pending
  <2>7. FetchedKept(m, q)'
    BY <2>6 DEF FetchedKept
  <2> QED  BY <2>2, <2>3, <2>4, <2>5, <2>7 DEF Kept
<1>14. NoSkip'
  BY <1>6, GroupSame
<1>15. NotEarly'
  BY <1>5, <1>6 DEF HoldInv, NotEarly
<1> QED  BY <1>2, <1>11, <1>12, <1>13, <1>14, <1>15, MemberStep

\* The rest of the batch moves into the hold, all of it.
LEMMA HoldRecordsKeeps ==
    ASSUME HoldInv, NEW m \in Members, HoldRecords(m)
    PROVE  HoldInv'
<1>1. HoldType /\ JobKept(m) /\ \A q \in Partitions : Kept(m, q)
  BY DEF HoldInv
<1>2. HoldType'
  BY <1>1, HoldRecordsType
<1>3. PICK p \in Partitions : p = job[m].p
  BY <1>1, JobOf DEF HoldRecords, Working
<1>4. /\ held' = [held EXCEPT ![m][p] = [from |-> job[m].next, to |-> job[m].to,
                                         seq |-> nextSeq[m] + 1]]
      /\ pc' = [pc EXCEPT ![m] = "pause"] /\ pc[m] = "work"
  BY <1>3 DEF HoldRecords, Working, Goto
<1>5. /\ handled' = handled /\ due' = due /\ committed' = committed /\ owner' = owner
      /\ pos' = pos /\ paused' = paused /\ job' = job /\ fetched' = fetched
      /\ toCommit' = toCommit
  BY DEF HoldRecords, client
<1>6. /\ held'[m][p].from = job[m].next /\ held'[m][p].to = job[m].to
      /\ \A q \in Partitions \ {p} : held'[m][q] = held[m][q]
  <2>1. /\ held'[m][p] = [from |-> job[m].next, to |-> job[m].to, seq |-> nextSeq[m] + 1]
        /\ \A q \in Partitions \ {p} : held'[m][q] = held[m][q]
    BY <1>1, <1>4 DEF HoldType, HeldType
  <2>2. held'[m][p].from = job[m].next /\ held'[m][p].to = job[m].to
    BY SMT, <2>1
  <2> QED  BY <2>1, <2>2
<1>7. pc'[m] = "pause" /\ \A x \in Members \ {m} : pc'[x] = pc[x] /\ held'[x] = held[x]
  BY <1>1, <1>4 DEF HoldType, HeldType, RunType
<1>8. p # None /\ job[m].next >= 1 /\ Below(p, job[m].next - 1) /\ held[m][p] = NoBatch
  BY <1>1, <1>3, <1>4, HoldAssumption DEF JobKept
<1>9. ASSUME NEW x \in Members \ {m} PROVE SameMember(x)
  BY <1>5, <1>7 DEF SameMember
<1>10. JobKept(m)'
  BY <1>3, <1>5, <1>7, <1>8 DEF JobKept, Below
<1>11. ASSUME NEW q \in Partitions PROVE Kept(m, q)'
  <2>1. Kept(m, q)
    BY <1>1
  <2>2. CommitsHandled(m, q)'
    BY <1>5, <2>1 DEF Kept, CommitsHandled, Below
  <2>3. PolledIsFree(m, q)'
    BY <1>3, <1>4, <1>5, <1>7, <1>8, <2>1 DEF Kept, PolledIsFree, Blocked
  <2>4. CASE q = p
    <3>1. HoldsHandled(m, p)'
      BY <1>5, <1>6, <1>8 DEF HoldsHandled, Below
    <3>2. HeldIsPaused(m, p)'
      BY <1>3, <1>5, <1>7 DEF HeldIsPaused
    <3>3. ASSUME owner'[p] = m, NEW k \in 1..pos'[m][p]
          PROVE  <<p, k>> \in handled' \/ Pending(m, p, k)'
      <4>1. <<p, k>> \in handled \/ Pending(m, p, k)
        BY <1>1, <1>5, <3>3 DEF Kept, FetchedKept
      <4>2. Pending(m, p, k) => k \in job[m].next .. job[m].to
        BY <1>8, NoBatchEmpty DEF Pending
      <4> QED  BY <1>5, <1>6, <4>1, <4>2 DEF Pending
    <3>4. FetchedKept(m, p)'
      BY <3>3 DEF FetchedKept
    <3> QED  BY <2>2, <2>3, <2>4, <3>1, <3>2, <3>4 DEF Kept
  <2>5. CASE q # p
    <3>1. SamePartition(m, q)
      BY <1>5, <1>6, <2>5 DEF SamePartition
    <3>2. job[m].p # q
      BY <1>3, <2>5
    <3>3. HoldsHandled(m, q)' /\ HeldIsPaused(m, q)' /\ FetchedKept(m, q)'
      BY <2>1, <3>1, <3>2, SameHolds, SameHeldPaused, SameFetched DEF Kept
    <3> QED  BY <2>2, <2>3, <3>3 DEF Kept
  <2> QED  BY <2>4, <2>5
<1>12. NoSkip' /\ NotEarly'
  BY <1>5, GroupSame, StillNotEarly
<1> QED  BY <1>2, <1>9, <1>10, <1>11, <1>12, MemberStep

\* Run leaves a batch whose records are all held or handled.
LEMMA FinishKeeps ==
    ASSUME HoldInv, NEW m \in Members, Finish(m), HoldType', pc[m] \in {"work", "pause"},
           pc[m] = "work" => job[m].next > job[m].to,
           handled' = handled, due' = due,
           UNCHANGED <<owner, committed, pos, held, fetched, toCommit>>,
           \A x \in Members \ {m} : paused'[x] = paused[x],
           \A q \in Partitions : q # job[m].p => (q \in paused'[m] <=> q \in paused[m]),
           held[m][job[m].p] # NoBatch => job[m].p \in paused'[m]
    PROVE  HoldInv'
<1>1. HoldType /\ JobKept(m) /\ \A q \in Partitions : Kept(m, q)
  BY DEF HoldInv
<1>2. /\ job'[m] = NoJob /\ pc'[m] = IF job[m].woken THEN "drain" ELSE "fetch"
      /\ \A x \in Members \ {m} : job'[x] = job[x] /\ pc'[x] = pc[x]
  BY <1>1 DEF HoldType, RunType, Finish, Goto
<1>3. job'[m].p = None
  BY <1>2, Nothing
<1>4. ASSUME NEW x \in Members \ {m} PROVE SameMember(x)
  BY <1>2 DEF SameMember
<1>5. JobKept(m)'
  BY <1>2, <1>3 DEF JobKept
<1>6. ASSUME NEW q \in Partitions PROVE Kept(m, q)'
  <2>1. Kept(m, q) /\ q # None
    BY <1>1, HoldAssumption
  <2>2. CommitsHandled(m, q)' /\ HoldsHandled(m, q)'
    BY <2>1 DEF Kept, CommitsHandled, HoldsHandled, Below
  <2>3. HeldIsPaused(m, q)'
    BY <2>1 DEF Kept, HeldIsPaused
  <2>4. ASSUME owner'[q] = m, NEW k \in 1..pos'[m][q]
        PROVE  <<q, k>> \in handled' \/ Pending(m, q, k)'
    <3>1. <<q, k>> \in handled \/ Pending(m, q, k)
      BY <2>1, <2>4 DEF Kept, FetchedKept
    <3>2. ~(pc[m] = "work" /\ k \in job[m].next .. job[m].to)
      <4>1. job[m].next \in Nat /\ job[m].to \in Nat
        BY <1>1, JobOf
      <4> QED  BY SMT, <4>1
    <3> QED  BY <3>1, <3>2 DEF Pending
  <2>5. FetchedKept(m, q)'
    BY <2>4 DEF FetchedKept
  <2>6. ASSUME q \in fetched'[m], Blocked(m)'
        PROVE  owner'[q] = m /\ q \notin paused'[m] /\ job'[m].p # q
    <3>1. ~job[m].woken
      BY <1>2, <1>3, <2>6 DEF Blocked
    <3>2. Blocked(m)
      BY <1>1, <3>1 DEF Blocked, JobKept
    <3> QED  BY <1>3, <2>1, <2>6, <3>2 DEF Kept, PolledIsFree
  <2>7. PolledIsFree(m, q)'
    BY <2>6 DEF PolledIsFree
  <2> QED  BY <2>2, <2>3, <2>5, <2>7 DEF Kept
<1>7. NoSkip' /\ NotEarly'
  BY GroupSame, StillNotEarly
<1> QED  BY <1>4, <1>5, <1>6, <1>7, MemberStep

LEMMA PauseFetchPartitionsKeeps ==
    ASSUME HoldInv, NEW m \in Members, PauseFetchPartitions(m)
    PROVE  HoldInv'
<1>1. HoldType /\ JobKept(m) /\ pc[m] = "pause"
  BY DEF HoldInv, PauseFetchPartitions
<1>2. HoldType'
  BY <1>1, PauseFetchPartitionsType
<1>3. /\ paused'[m] = paused[m] \cup {job[m].p}
      /\ \A x \in Members \ {m} : paused'[x] = paused[x]
  BY <1>1 DEF HoldType, ClientType, PauseFetchPartitions
<1>4. /\ Finish(m) /\ handled' = handled /\ due' = due
      /\ UNCHANGED <<owner, committed, pos, held, fetched, toCommit>>
  BY DEF PauseFetchPartitions, hold
<1> QED  BY <1>1, <1>2, <1>3, <1>4, FinishKeeps

LEMMA ProcessedAllKeeps ==
    ASSUME HoldInv, NEW m \in Members, ProcessedAll(m)
    PROVE  HoldInv'
<1>1. HoldType /\ JobKept(m) /\ pc[m] = "work" /\ job[m].next > job[m].to
  BY DEF HoldInv, ProcessedAll
<1>2. HoldType'
  BY <1>1, ProcessedAllType
<1>3. /\ paused'[m] = paused[m] \/ paused'[m] = paused[m] \ {job[m].p}
      /\ \A x \in Members \ {m} : paused'[x] = paused[x]
  BY <1>1 DEF HoldType, ClientType, ProcessedAll
<1>4. /\ Finish(m) /\ handled' = handled /\ due' = due
      /\ UNCHANGED <<owner, committed, pos, held, fetched, toCommit>>
  BY DEF ProcessedAll, hold
<1>5. held[m][job[m].p] = NoBatch
  BY <1>1 DEF JobKept
<1> QED  BY <1>1, <1>2, <1>3, <1>4, <1>5, FinishKeeps

\* Whatever the assignment is by now, only handled records are committed.
LEMMA CommitKeeps ==
    ASSUME HoldInv, NEW m \in Members, Commit(m)
    PROVE  HoldInv'
<1>1. HoldType /\ JobKept(m) /\ \A q \in Partitions : Kept(m, q)
  BY DEF HoldInv
<1>2. HoldType'
  BY <1>1, CommitType
<1>3. /\ handled' = handled /\ due' = due /\ owner' = owner /\ pos' = pos /\ paused' = paused
      /\ held' = held /\ job' = job /\ fetched' = fetched
      /\ pc[m] = "fetch" /\ job[m].p = None
  BY DEF Commit, client, hold
<1>4. /\ pc'[m] = "drain" /\ \A q \in Partitions : toCommit'[m][q] = 0
      /\ \A x \in Members \ {m} : pc'[x] = pc[x] /\ toCommit'[x] = toCommit[x]
  BY <1>1 DEF HoldType, RunType, Commit, Goto
<1>5. ASSUME NEW x \in Members \ {m} PROVE SameMember(x)
  BY <1>3, <1>4 DEF SameMember
<1>6. JobKept(m)'
  BY <1>3, <1>4 DEF JobKept
<1>7. ASSUME NEW q \in Partitions PROVE Kept(m, q)'
  <2>1. Kept(m, q)
    BY <1>1
  <2>2. CommitsHandled(m, q)'
    BY <1>4, NothingBelow DEF CommitsHandled
  <2>3. HoldsHandled(m, q)' /\ HeldIsPaused(m, q)'
    BY <1>3, <2>1 DEF Kept, HoldsHandled, HeldIsPaused, Below
  <2>4. FetchedKept(m, q)'
    BY <1>3, <2>1 DEF Kept, FetchedKept, Pending
  <2>5. PolledIsFree(m, q)'
    BY <1>3, <1>4 DEF PolledIsFree, Blocked
  <2> QED  BY <2>2, <2>3, <2>4, <2>5 DEF Kept
<1>8. NotEarly'
  BY <1>3, StillNotEarly
<1>9. NoSkip'
  <2>1. ASSUME NEW q \in Partitions PROVE Below(q, committed[q]) /\ Below(q, toCommit[m][q])
    BY <1>1 DEF HoldInv, NoSkip, Kept, CommitsHandled, Below
  <2>2. ASSUME NEW q \in Partitions
        PROVE  committed'[q] = committed[q] \/ committed'[q] = toCommit[m][q]
    BY DEF Commit
  <2> QED  BY <1>3, <2>1, <2>2 DEF NoSkip, Below
<1> QED  BY <1>2, <1>5, <1>6, <1>7, <1>8, <1>9, MemberStep

-----------------------------------------------------------------------------
LEMMA NextInv ==
    ASSUME HoldInv, Next
    PROVE  HoldInv'
<1>1. ASSUME NEW m \in Members, Run(m) PROVE HoldInv'
  BY <1>1, DrainWakeKeeps, PollFetchesKeeps, ProcessPartitionKeeps, HandleRecordKeeps,
     HoldRecordsKeeps, PauseFetchPartitionsKeeps, ProcessedAllKeeps, CommitKeeps DEF Run
<1>2. ASSUME NEW m \in Members, Crash(m) PROVE HoldInv'
  BY <1>2, CrashKeeps
<1>3. ASSUME NEW p \in Partitions, Revoke(p) \/ \E k \in 1..Length[p] : Due(p, k)
      PROVE  HoldInv'
  BY <1>3, RevokeKeeps, DueKeeps
<1>4. ASSUME NEW m \in Members, NEW p \in Partitions, TimerFires(m, p) \/ Assign(p, m)
      PROVE  HoldInv'
  BY <1>4, TimerFiresKeeps, AssignKeeps
<1> QED  BY <1>1, <1>2, <1>3, <1>4 DEF Next

LEMMA StutterInv ==
    ASSUME HoldInv, UNCHANGED vars
    PROVE  HoldInv'
<1>1. UNCHANGED <<owner, committed, client, hold, pc, job, fetched, toCommit, due, handled>>
  BY DEF vars
<1>2. HoldType'
  BY <1>1 DEF HoldInv, HoldType, GroupType, ClientType, HeldType, RunType, client, hold
<1> QED  BY <1>1, <1>2, QuietKeeps DEF client, hold

LEMMA HoldInvariant == Spec => []HoldInv
<1>1. HoldInv /\ [Next]_vars => HoldInv'
  BY NextInv, StutterInv
<1> QED  BY InitInv, <1>1, PTL DEF Spec

\* The tier consumer commits no record that was not handled or escalated,
\* loses none of what it fetched while records are held, woken, revoked and
\* reassigned, and handles none before it is due (holdRecords, drainWakes,
\* onRevoked, Run).
THEOREM TierLosesNothing == Spec => []RecordsKept
<1>1. HoldInv => FetchedIsTracked
  <2> SUFFICES ASSUME HoldInv, NEW m \in Members, NEW p \in Partitions, owner[p] = m,
                      NEW k \in committed[p] + 1 .. pos[m][p]
               PROVE  \/ <<p, k>> \in handled
                      \/ k \in held[m][p].from .. held[m][p].to
                      \/ job[m].p = p /\ k \in job[m].next .. job[m].to
    BY DEF FetchedIsTracked
  <2>1. committed[p] \in Nat /\ pos[m][p] \in Nat
    BY DEF HoldInv, HoldType, GroupType, ClientType
  <2>2. k \in 1..pos[m][p]
    BY SMT, <2>1
  <2>3. FetchedKept(m, p)
    BY DEF HoldInv, Kept
  <2> QED  BY <2>2, <2>3 DEF FetchedKept, Pending
<1>2. HoldInv => RecordsKept
  BY <1>1 DEF HoldInv, RecordsKept
<1> QED  BY <1>2, HoldInvariant, PTL
================================================================================
