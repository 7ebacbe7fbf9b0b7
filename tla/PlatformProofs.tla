----------------------------- MODULE PlatformProofs -----------------------------
(* Three components of the platform, each for every value of its constants.    *)
(* runAsLeader: fn runs under the lock, and a leader that lost it stops in      *)
(* time. TransactConsumer: outputs exactly once. PgStore: postings are whole, *)
(* and concurrent transactions implement the store in memory.                  *)
EXTENDS Ledger, Leader, TransactConsumer, TLAPS

\* The default prover; the leaves that need arithmetic or sequences name SMT.
USE Zenon

--------------------------------------------------------------------------------
(* Leader election.                                                             *)

LeadNatural == Interval \in Nat /\ FnStop \in Nat /\ MaxFaults \in Nat
Sessions == Free \notin Instances /\ Orphan \notin Instances

--------------------------------------------------------------------------------
(* The inductive invariant, at one instance.                                    *)

Term == {"lead", "check", "lost", "leave"}

\* A term has a connection; a connection that works holds the lock; and only a
\* term's connection holds it.
SessionAt(i) ==
  /\ Active(i) => pc[i] \in Term
  /\ conn[i] = "none" <=> pc[i] \notin Term
  /\ conn[i] = "ok" => lock = i
  /\ lock = i => pc[i] \in Term

\* What is left of the interval, of the check's deadline and of the time to stop
\* bounds how long fn has gone on without the lock.
ClockAt(i) ==
  /\ lostFor[i] <= 2 * Interval + FnStop
  /\ conn[i] = "ok" \/ pc[i] \in {"try", "wait", "end"} => lostFor[i] = 0
  /\ fn[i] = "running" => \/ pc[i] = "lead" /\ lostFor[i] <= Interval - timer[i]
                          \/ pc[i] = "check" /\ lostFor[i] <= 2 * Interval - timer[i]
  /\ fn[i] = "cancelled" => lostFor[i] <= 2 * Interval + stop[i]

LeaderInv == LeadType /\ \A i \in Instances : SessionAt(i) /\ ClockAt(i)

LEMMA LeadInitInv ==
  ASSUME LeadNatural, Sessions
  PROVE  LeadInit => LeaderInv
<1> SUFFICES ASSUME LeadInit PROVE LeaderInv
  OBVIOUS
<1>1. LeadType
  BY SMT DEF LeadInit, LeadType, LeadNatural
<1>2. ASSUME NEW i \in Instances PROVE SessionAt(i) /\ ClockAt(i)
  BY SMT DEF LeadInit, SessionAt, ClockAt, Active, Term, LeadNatural, Sessions
<1> QED  BY <1>1, <1>2 DEF LeaderInv

LEMMA LeadTypeStep ==
  ASSUME LeadNatural, LeadType, [LeadNext]_leadVars
  PROVE  LeadType'
<1> USE DEF LeadType, Goto, Arm, Cancelled, Abandon
<1>1. ASSUME NEW i \in Instances, Acquire(i) \/ Refused(i) \/ AnswerLost(i) PROVE LeadType'
  BY SMT, <1>1 DEF Acquire, Refused, AnswerLost, LeadNatural
<1>2. ASSUME NEW i \in Instances, RetryDue(i) \/ Shutdown(i) \/ FnDone(i) PROVE LeadType'
  BY <1>2 DEF RetryDue, Shutdown, FnDone
<1>3. ASSUME NEW i \in Instances, CheckStarts(i) \/ CheckPasses(i) \/ CheckFails(i) PROVE LeadType'
  BY SMT, <1>3 DEF CheckStarts, CheckPasses, CheckFails, LeadNatural
<1>4. ASSUME NEW i \in Instances, Close(i) \/ Release(i) \/ Return(i) PROVE LeadType'
  BY SMT, <1>4 DEF Close, Release, Return
<1>5. ASSUME NEW i \in Instances, FnReturns(i) \/ Stop(i) \/ SessionLost(i) \/ LeadCrash(i) PROVE LeadType'
  BY SMT, <1>5 DEF FnReturns, Stop, SessionLost, LeadCrash, LeadNatural
<1>6. CASE Reap
  BY <1>6 DEF Reap
<1>7. CASE Tick
  <2>1. ASSUME NEW i \in Instances
        PROVE  /\ timer'[i] \in 0..Interval /\ stop'[i] \in 0..FnStop /\ lostFor'[i] \in Nat
    BY SMT, <1>7 DEF Tick, Punctual, Waits, LeadNatural
  <2> QED  BY <1>7, <2>1 DEF Tick
<1>8. CASE UNCHANGED leadVars
  BY <1>8 DEF leadVars
<1> QED  BY <1>1, <1>2, <1>3, <1>4, <1>5, <1>6, <1>7, <1>8 DEF LeadNext, LeadStep

\* An instance a step does not touch, as long as the lock is not given to it or
\* taken from it.
LEMMA LeadersKept ==
  ASSUME LeaderInv, NEW j \in Instances, lock' = j <=> lock = j,
         pc'[j] = pc[j], fn'[j] = fn[j], conn'[j] = conn[j],
         timer'[j] = timer[j], stop'[j] = stop[j], lostFor'[j] = lostFor[j]
  PROVE  (SessionAt(j) /\ ClockAt(j))'
<1>1. SessionAt(j) /\ ClockAt(j)
  BY DEF LeaderInv
<1> QED  BY <1>1 DEF SessionAt, ClockAt, Active

\* The steps of an instance's own goroutines, its shutdown, its faults.
LEMMA InstanceStep ==
  ASSUME LeadNatural, Sessions, LeaderInv, NEW i \in Instances,
         LeadStep(i) \/ FnReturns(i) \/ AnswerLost(i) \/ Stop(i) \/ SessionLost(i) \/ LeadCrash(i),
         NEW j \in Instances
  PROVE  (SessionAt(j) /\ ClockAt(j))'
<1>t. LeadType
  BY DEF LeaderInv
<1>i. SessionAt(i) /\ ClockAt(i)
  BY DEF LeaderInv
<1>n. /\ timer[i] \in 0..Interval /\ stop[i] \in 0..FnStop /\ lostFor[i] \in Nat
      /\ Interval \in Nat /\ FnStop \in Nat
  BY <1>t DEF LeadType, LeadNatural
<1> USE DEF Goto, Arm, Cancelled, Abandon
<1>1. CASE j # i
  <2>1. lock' = j <=> lock = j
    <3>1. CASE Acquire(i)
      BY <1>1, <3>1 DEF Acquire, Sessions
    <3>2. CASE AnswerLost(i)
      BY <1>1, <3>2 DEF AnswerLost, Sessions
    <3>3. CASE Close(i) \/ LeadCrash(i)
      BY <1>1, <3>3 DEF Close, LeadCrash, Sessions
    <3>4. CASE Release(i)
      BY SMT, <1>1, <1>i, <3>4 DEF Release, Sessions, SessionAt
    <3>5. CASE \/ Refused(i) \/ RetryDue(i) \/ Shutdown(i) \/ FnDone(i) \/ CheckStarts(i)
               \/ CheckPasses(i) \/ CheckFails(i) \/ Return(i) \/ FnReturns(i) \/ Stop(i)
               \/ SessionLost(i)
      BY <3>5 DEF Refused, RetryDue, Shutdown, FnDone, CheckStarts, CheckPasses, CheckFails, Return,
                  FnReturns, Stop, SessionLost
    <3> QED  BY <3>1, <3>2, <3>3, <3>4, <3>5 DEF LeadStep
  <2>2. /\ pc'[j] = pc[j] /\ fn'[j] = fn[j] /\ conn'[j] = conn[j]
        /\ timer'[j] = timer[j] /\ stop'[j] = stop[j] /\ lostFor'[j] = lostFor[j]
    <3>1. CASE Acquire(i) \/ Refused(i) \/ AnswerLost(i) \/ RetryDue(i) \/ Shutdown(i) \/ FnDone(i)
      BY SMT, <1>t, <1>1, <3>1 DEF LeadType, Acquire, Refused, AnswerLost, RetryDue, Shutdown, FnDone
    <3>2. CASE CheckStarts(i) \/ CheckPasses(i) \/ CheckFails(i) \/ Close(i) \/ Release(i) \/ Return(i)
      BY SMT, <1>t, <1>1, <3>2 DEF LeadType, CheckStarts, CheckPasses, CheckFails, Close, Release, Return
    <3>3. CASE FnReturns(i) \/ Stop(i) \/ SessionLost(i) \/ LeadCrash(i)
      BY SMT, <1>t, <1>1, <3>3 DEF LeadType, FnReturns, Stop, SessionLost, LeadCrash
    <3> QED  BY <3>1, <3>2, <3>3 DEF LeadStep
  <2> QED  BY <2>1, <2>2, LeadersKept
<1>2. CASE j = i
  <2> USE <1>t, <1>i, <1>n, <1>2 DEF SessionAt, ClockAt, Active, LeadType, Term, Sessions
  <2>1. CASE Acquire(i)
    BY SMT, <2>1 DEF Acquire
  <2>2. CASE Refused(i) \/ AnswerLost(i)
    BY SMT, <2>2 DEF Refused, AnswerLost
  <2>3. CASE RetryDue(i)
    BY <2>3 DEF RetryDue
  <2>4. CASE Shutdown(i)
    BY SMT, <2>4 DEF Shutdown
  <2>5. CASE FnDone(i)
    BY <2>5 DEF FnDone
  <2>6. CASE CheckStarts(i)
    BY SMT, <2>6 DEF CheckStarts
  <2>7. CASE CheckPasses(i)
    BY SMT, <2>7 DEF CheckPasses
  <2>8. CASE CheckFails(i)
    BY SMT, <2>8 DEF CheckFails
  <2>9. CASE Close(i)
    BY SMT, <2>9 DEF Close
  <2>10. CASE Release(i)
    BY <2>10 DEF Release
  <2>11. CASE Return(i)
    BY SMT, <2>11 DEF Return
  <2>12. CASE FnReturns(i)
    BY <2>12 DEF FnReturns
  <2>13. CASE Stop(i)
    BY SMT, <2>13 DEF Stop
  <2>14. CASE SessionLost(i)
    BY <2>14 DEF SessionLost
  <2>15. CASE LeadCrash(i)
    BY SMT, <2>15 DEF LeadCrash
  <2> QED  BY <2>1, <2>2, <2>3, <2>4, <2>5, <2>6, <2>7, <2>8, <2>9, <2>10, <2>11, <2>12,
              <2>13, <2>14, <2>15 DEF LeadStep
<1> QED  BY <1>1, <1>2

LEMMA LeadStepInv ==
  ASSUME LeadNatural, Sessions, LeaderInv, [LeadNext]_leadVars
  PROVE  LeaderInv'
<1>t. LeadType /\ LeadType'
  BY LeadTypeStep DEF LeaderInv
<1> SUFFICES ASSUME NEW j \in Instances PROVE (SessionAt(j) /\ ClockAt(j))'
  BY <1>t DEF LeaderInv
<1>j. SessionAt(j) /\ ClockAt(j)
  BY DEF LeaderInv
<1>1. ASSUME NEW i \in Instances,
             LeadStep(i) \/ FnReturns(i) \/ AnswerLost(i) \/ Stop(i) \/ SessionLost(i) \/ LeadCrash(i)
      PROVE  (SessionAt(j) /\ ClockAt(j))'
  BY <1>1, InstanceStep
<1>2. CASE Reap
  BY <1>j, <1>2 DEF Reap, SessionAt, ClockAt, Active, Sessions
<1>3. CASE Tick
  <2>1. /\ timer[j] \in 0..Interval /\ stop[j] \in 0..FnStop /\ lostFor[j] \in Nat
        /\ Interval \in Nat /\ FnStop \in Nat
    BY <1>t DEF LeadType, LeadNatural
  <2>2. SessionAt(j)'
    BY <1>j, <1>3 DEF Tick, SessionAt, Active
  <2>3. ClockAt(j)'
    BY SMT, <1>j, <1>3, <2>1 DEF Tick, Punctual, Waits, ClockAt, SessionAt, Active, Term
  <2> QED  BY <2>2, <2>3
<1>4. CASE UNCHANGED leadVars
  BY <1>j, <1>4 DEF leadVars, SessionAt, ClockAt, Active
<1> QED  BY <1>1, <1>2, <1>3, <1>4 DEF LeadNext

--------------------------------------------------------------------------------
LEMMA LeadInvariance == LeadSpec => []LeaderInv
<1> LeadNatural /\ Sessions
  BY LeaderAssumption DEF LeadNatural, Sessions
<1>1. LeadInit => LeaderInv
  BY LeadInitInv
<1>2. LeaderInv /\ [LeadNext]_leadVars => LeaderInv'
  BY LeadStepInv
<1> QED  BY <1>1, <1>2, PTL DEF LeadSpec

\* fn runs only under the lock, but for a leader whose session is lost, which
\* stops within the ticker's interval, the check's deadline and the time fn
\* takes; the lock is not left in the pool (leadTerm, releaseLeaderLock).
THEOREM LeaderSafe == LeadSpec => []OneLeader
<1>1. LeaderInv => OneLeader
  <2> SUFFICES ASSUME LeaderInv PROVE RunsUnderLock /\ OverlapBounded /\ LockNotParked
    BY DEF OneLeader
  <2>1. RunsUnderLock
    BY DEF LeaderInv, SessionAt, RunsUnderLock, LeadType
  <2>2. OverlapBounded
    BY DEF LeaderInv, ClockAt, OverlapBounded
  <2>3. LockNotParked
    BY DEF LeaderInv, SessionAt, LockNotParked, Term
  <2> QED  BY <2>1, <2>2, <2>3
<1> QED  BY <1>1, LeadInvariance, PTL

--------------------------------------------------------------------------------
(* The transactional consumer.                                                  *)

LoopNatural == Inputs \in Nat /\ MaxBatch \in Nat /\ MaxMisses \in Nat

\* A transaction that no rebalance spans is the owner's, began at the committed
\* offset and, unless a produce failed, holds the outputs of what it processed.
TransactionAt(m) ==
  /\ m \in stale => loop[m].pc = "open"
  /\ loop[m].pc = "open" /\ m \notin stale =>
       /\ owner = m /\ offset <= loop[m].at /\ loop[m].at <= loop[m].upto
       /\ "produce" \notin loop[m].bad =>
            /\ Len(loop[m].sent) = loop[m].at - offset
            /\ \A k \in 1..Len(loop[m].sent) : loop[m].sent[k] = offset + k

Published == Len(out) = offset /\ \A i \in 1..offset : out[i] = i

ConsumeInv == LoopType /\ Published /\ \A m \in Members : TransactionAt(m)

LEMMA LoopInitInv ==
  ASSUME LoopNatural
  PROVE  LoopInit => ConsumeInv
<1> SUFFICES ASSUME LoopInit PROVE ConsumeInv
  OBVIOUS
<1>1. LoopType
  BY SMT DEF LoopInit, LoopType, Loop, Ready, LoopNatural
<1>2. Published
  BY SMT DEF LoopInit, Published
<1>3. ASSUME NEW m \in Members PROVE TransactionAt(m)
  BY DEF LoopInit, TransactionAt, Ready
<1> QED  BY <1>1, <1>2, <1>3 DEF ConsumeInv

\* A member that a step does not touch, in a step that commits nothing.
LEMMA LoopsKept ==
  ASSUME ConsumeInv, NEW k \in Members, loop'[k] = loop[k], UNCHANGED <<owner, offset>>,
         k \in stale' <=> k \in stale
  PROVE  TransactionAt(k)'
<1>1. TransactionAt(k)
  BY DEF ConsumeInv
<1> QED  BY <1>1 DEF TransactionAt

\* A member's loop is at rest and no longer spans a rebalance.
LEMMA RestKept ==
  ASSUME NEW m \in Members, loop'[m].pc # "open", m \notin stale'
  PROVE  TransactionAt(m)'
  BY DEF TransactionAt

LEMMA PollKeeps ==
  ASSUME LoopNatural, ConsumeInv, NEW m \in Members, Poll(m)
  PROVE  ConsumeInv'
<1>t. LoopType /\ TransactionAt(m)
  BY DEF ConsumeInv
<1>1. PICK n \in 1..MaxBatch :
        /\ offset + n <= Inputs
        /\ loop' = [loop EXCEPT ![m] = [pc |-> "open", at |-> offset, upto |-> offset + n,
                                    sent |-> <<>>, bad |-> {}]]
  BY DEF Poll
<1>2. UNCHANGED <<owner, stale, offset, out, misses>> /\ owner = m /\ m \notin stale
  BY <1>t DEF Poll, TransactionAt
<1>3. offset \in Nat /\ n \in Nat /\ offset + n \in 0..Inputs
  BY SMT, <1>t, <1>1 DEF LoopType, LoopNatural
<1>4. LoopType'
  BY SMT, <1>t, <1>1, <1>2, <1>3 DEF LoopType, Loop
<1>5. Published'
  BY <1>2 DEF ConsumeInv, Published
<1>6. ASSUME NEW k \in Members PROVE TransactionAt(k)'
  <2>1. CASE k = m
    BY SMT, <1>t, <1>1, <1>2, <1>3, <2>1 DEF LoopType, TransactionAt
  <2>2. CASE k # m
    BY <1>t, <1>1, <1>2, <2>2, LoopsKept DEF LoopType
  <2> QED  BY <2>1, <2>2
<1> QED  BY <1>4, <1>5, <1>6 DEF ConsumeInv

\* fn maps one more record, whatever becomes of its output.
LEMMA WorkKeeps ==
  ASSUME LoopNatural, ConsumeInv, NEW m \in Members, Process(m) \/ ProduceFails(m) \/ FnFails(m)
  PROVE  ConsumeInv'
<1>t. LoopType /\ TransactionAt(m)
  BY DEF ConsumeInv
<1>1. /\ loop[m].pc = "open" /\ loop[m].at < loop[m].upto
      /\ UNCHANGED <<owner, stale, offset, out>>
  BY DEF Process, ProduceFails, FnFails, Working
<1>2. /\ loop[m].at \in Nat /\ loop[m].upto \in Nat /\ loop[m].at + 1 \in 0..Inputs
      /\ loop[m].sent \in Seq(Nat) /\ loop[m].bad \in SUBSET {"fn", "produce"}
      /\ offset \in Nat /\ loop[m].upto \in 0..Inputs
  BY SMT, <1>t, <1>1 DEF LoopType, Loop, LoopNatural
<1>3. \A k \in Members : k # m => loop'[k] = loop[k]
  BY <1>t DEF LoopType, Process, ProduceFails, FnFails
<1>w. \/ loop'[m] = [loop[m] EXCEPT !.at = loop[m].at + 1,
                     !.sent = IF "produce" \in loop[m].bad THEN loop[m].sent
                              ELSE Append(loop[m].sent, loop[m].at + 1)]
      \/ loop'[m] = [loop[m] EXCEPT !.at = loop[m].at + 1, !.bad = loop[m].bad \cup {"produce"}]
      \/ loop'[m] = [loop[m] EXCEPT !.bad = loop[m].bad \cup {"fn"}]
  <2>1. CASE Process(m)
    BY <1>t, <2>1 DEF LoopType, Process
  <2>2. CASE ProduceFails(m)
    BY <1>t, <2>2 DEF LoopType, ProduceFails
  <2>3. CASE FnFails(m)
    BY <1>t, <2>3 DEF LoopType, FnFails
  <2> QED  BY <2>1, <2>2, <2>3
<1>l. loop[m] \in Loop
  BY <1>t DEF LoopType
<1>4. /\ loop'[m].pc = "open" /\ loop'[m].upto = loop[m].upto
      /\ \/ /\ loop'[m].at = loop[m].at + 1 /\ loop'[m].bad = loop[m].bad
            /\ loop'[m].sent = IF "produce" \in loop[m].bad THEN loop[m].sent
                             ELSE Append(loop[m].sent, loop[m].at + 1)
         \/ /\ loop'[m].at = loop[m].at + 1 /\ loop'[m].bad = loop[m].bad \cup {"produce"}
            /\ loop'[m].sent = loop[m].sent
         \/ /\ loop'[m].at = loop[m].at /\ loop'[m].bad = loop[m].bad \cup {"fn"}
            /\ loop'[m].sent = loop[m].sent
  BY <1>1, <1>l, <1>w DEF Loop
<1>5. LoopType'
  <2>1. Append(loop[m].sent, loop[m].at + 1) \in Seq(Nat)
    BY SMT, <1>2
  <2>2. loop'[m] \in Loop
    <3>1. CASE loop'[m] = [loop[m] EXCEPT !.at = loop[m].at + 1,
                           !.sent = IF "produce" \in loop[m].bad THEN loop[m].sent
                                    ELSE Append(loop[m].sent, loop[m].at + 1)]
      <4>1. PICK q \in Seq(Nat) : loop'[m] = [loop[m] EXCEPT !.at = loop[m].at + 1, !.sent = q]
        BY <1>2, <2>1, <3>1
      <4> QED  BY <1>2, <1>l, <4>1 DEF Loop
    <3>2. CASE loop'[m] = [loop[m] EXCEPT !.at = loop[m].at + 1, !.bad = loop[m].bad \cup {"produce"}]
      BY ZenonT(30), <1>2, <1>l, <3>2 DEF Loop
    <3>3. CASE loop'[m] = [loop[m] EXCEPT !.bad = loop[m].bad \cup {"fn"}]
      BY <1>2, <1>l, <3>3 DEF Loop
    <3> QED  BY <1>w, <3>1, <3>2, <3>3
  <2>3. loop' \in [Members -> Loop]
    BY <1>t, <1>3, <2>2 DEF LoopType, Process, ProduceFails, FnFails
  <2>4. misses' \in 0..MaxMisses
    BY SMT, <1>t DEF Process, ProduceFails, FnFails, Miss, LoopType, LoopNatural
  <2> QED  BY <1>t, <1>1, <2>3, <2>4 DEF LoopType
<1>6. Published'
  BY <1>1 DEF ConsumeInv, Published
<1>7. TransactionAt(m)'
  <2>1. CASE m \in stale
    BY <1>1, <1>4, <2>1 DEF TransactionAt
  <2>2. CASE m \notin stale
    <3>1. /\ owner' = m /\ offset' <= loop'[m].at /\ loop'[m].at <= loop'[m].upto
      BY SMT, <1>t, <1>1, <1>2, <1>4, <2>2 DEF TransactionAt
    <3>2. ASSUME "produce" \notin loop'[m].bad
          PROVE  /\ Len(loop'[m].sent) = loop'[m].at - offset'
                 /\ \A k \in 1..Len(loop'[m].sent) : loop'[m].sent[k] = offset' + k
      <4>1. /\ Len(loop[m].sent) = loop[m].at - offset
            /\ \A k \in 1..Len(loop[m].sent) : loop[m].sent[k] = offset + k
        BY <1>t, <1>1, <1>4, <2>2, <3>2 DEF TransactionAt
      <4>2. CASE loop'[m].sent = Append(loop[m].sent, loop[m].at + 1) /\ loop'[m].at = loop[m].at + 1
        <5>1. /\ Len(loop'[m].sent) = Len(loop[m].sent) + 1 /\ Len(loop[m].sent) \in Nat
              /\ loop'[m].sent[Len(loop[m].sent) + 1] = loop[m].at + 1
              /\ \A k \in 1..Len(loop[m].sent) : loop'[m].sent[k] = loop[m].sent[k]
          BY SMT, <1>2, <4>2
        <5>2. ASSUME NEW k \in 1..(Len(loop[m].sent) + 1) PROVE loop'[m].sent[k] = offset + k
          <6>1. CASE k = Len(loop[m].sent) + 1
            <7>1. Len(loop[m].sent) = loop[m].at - offset /\ offset \in Int
              BY SMT, <1>2, <4>1
            <7>2. offset + k = loop[m].at + 1
              BY SMT, <1>2, <6>1, <7>1
            <7> QED  BY <5>1, <6>1, <7>2
          <6>2. CASE k # Len(loop[m].sent) + 1
            <7>1. k \in 1..Len(loop[m].sent)
              BY SMT, <5>1, <6>2
            <7> QED  BY <4>1, <5>1, <7>1
          <6> QED  BY <6>1, <6>2
        <5>0. loop'[m].at = loop[m].at + 1 /\ offset' = offset
          BY <1>1, <4>2
        <5>3. Len(loop'[m].sent) = loop'[m].at - offset' /\ offset' = offset
          BY SMT, <1>2, <4>1, <5>0, <5>1
        <5> QED  BY <5>1, <5>2, <5>3
      <4>3. CASE loop'[m].sent = loop[m].sent /\ loop'[m].at = loop[m].at
        BY <1>1, <4>1, <4>3
      <4> QED  BY <1>4, <3>2, <4>2, <4>3
    <3> QED  BY <1>1, <1>4, <2>2, <3>1, <3>2 DEF TransactionAt
  <2> QED  BY <2>1, <2>2
<1>8. ASSUME NEW k \in Members PROVE TransactionAt(k)'
  BY <1>1, <1>3, <1>7, LoopsKept
<1> QED  BY <1>5, <1>6, <1>8 DEF ConsumeInv

\* The end of a transaction: committed whole by the owner, or not at all.
LEMMA ApplyKeeps ==
  ASSUME LoopNatural, ConsumeInv, NEW m \in Members, EndDue(m), owner' = owner,
         Apply(m) \/ UNCHANGED <<offset, out>>
  PROVE  /\ Published' /\ offset' \in 0..Inputs /\ out' \in Seq(Nat)
         /\ offset' = offset \/ (m \notin stale /\ owner = m)
<1>t. LoopType /\ TransactionAt(m) /\ Published
  BY DEF ConsumeInv
<1>1. CASE UNCHANGED <<offset, out>>
  BY <1>t, <1>1 DEF Published, LoopType
<1>2. CASE TryCommit(m) /\ m \notin stale /\ offset' = loop[m].upto /\ out' = out \o loop[m].sent
  <2>1. /\ loop[m].upto \in 0..Inputs /\ loop[m].at \in 0..Inputs /\ offset \in 0..Inputs
        /\ loop[m].sent \in Seq(Nat) /\ out \in Seq(Nat) /\ Inputs \in Nat
    BY <1>t DEF LoopType, Loop, LoopNatural
  <2>2. loop[m].pc = "open" /\ loop[m].bad = {}
    BY <1>2 DEF EndDue, TryCommit
  <2>3. /\ owner = m /\ offset <= loop[m].at /\ loop[m].at <= loop[m].upto
        /\ Len(loop[m].sent) = loop[m].at - offset
        /\ \A k \in 1..Len(loop[m].sent) : loop[m].sent[k] = offset + k
    BY <1>t, <1>2, <2>2 DEF TransactionAt
  <2>4. loop[m].at = loop[m].upto
    BY SMT, <2>1, <2>2, <2>3 DEF EndDue, Working
  <2>5. /\ out' \in Seq(Nat) /\ Len(out') = Len(out) + Len(loop[m].sent)
        /\ \A i \in 1..Len(out') : out'[i] = IF i <= Len(out) THEN out[i] ELSE loop[m].sent[i - Len(out)]
    BY SMT, <1>2, <2>1
  <2>6. Published'
    <3>1. Len(out) = offset /\ \A i \in 1..offset : out[i] = i
      BY <1>t DEF Published
    <3>2. Len(out') = offset'
      BY SMT, <1>2, <2>1, <2>3, <2>4, <2>5, <3>1
    <3>3. ASSUME NEW i \in 1..offset' PROVE out'[i] = i
      <4>1. CASE i <= offset
        <5>1. i \in 1..Len(out') /\ i <= Len(out) /\ i \in 1..offset
          BY SMT, <2>1, <3>1, <3>2, <4>1
        <5> QED  BY SMT, <2>5, <3>1, <5>1
      <4>2. CASE i > offset
        <5>1. i - offset \in 1..Len(loop[m].sent)
          BY SMT, <1>2, <2>1, <2>3, <2>4, <4>2
        <5>2. i \in 1..Len(out') /\ ~(i <= Len(out)) /\ i - Len(out) = i - offset
          BY SMT, <2>1, <3>1, <3>2, <4>2
        <5>3. out'[i] = loop[m].sent[i - offset]
          BY <2>5, <5>2
        <5>4. loop[m].sent[i - offset] = offset + (i - offset)
          BY <2>3, <5>1
        <5>5. offset + (i - offset) = i
          BY SMT, <2>1
        <5> QED  BY <5>3, <5>4, <5>5
      <4> QED  BY SMT, <2>1, <4>1, <4>2
    <3> QED  BY <3>2, <3>3 DEF Published
  <2> QED  BY <1>2, <2>1, <2>3, <2>5, <2>6
<1> QED  BY <1>1, <1>2 DEF Apply

LEMMA EndKeeps ==
  ASSUME LoopNatural, ConsumeInv, NEW m \in Members, End(m) \/ EndFails(m)
  PROVE  ConsumeInv'
<1>t. LoopType
  BY DEF ConsumeInv
<1>1. /\ EndDue(m) /\ owner' = owner /\ stale' = stale \ {m}
      /\ Apply(m) \/ UNCHANGED <<offset, out>>
      /\ loop' = [loop EXCEPT ![m] = Ready] \/ loop' = [loop EXCEPT ![m] = Stopped]
      /\ misses' \in 0..MaxMisses
  BY SMT, <1>t DEF End, EndFails, Miss, LoopType, LoopNatural
<1>2. /\ Published' /\ offset' \in 0..Inputs /\ out' \in Seq(Nat)
      /\ offset' = offset \/ (m \notin stale /\ owner = m)
  BY <1>1, ApplyKeeps
<1>3. LoopType'
  <2>1. Ready \in Loop /\ Stopped \in Loop
    BY SMT DEF Loop, Ready, Stopped, LoopNatural
  <2> QED  BY <1>t, <1>1, <1>2, <2>1 DEF LoopType
<1>4. ASSUME NEW k \in Members PROVE TransactionAt(k)'
  <2>1. CASE k = m
    <3>1. loop'[m].pc # "open" /\ m \notin stale'
      BY SMT, <1>t, <1>1 DEF LoopType, Ready, Stopped
    <3> QED  BY <2>1, <3>1, RestKept
  <2>2. CASE k # m
    <3>1. loop'[k] = loop[k] /\ (k \in stale' <=> k \in stale) /\ TransactionAt(k)
      BY <1>t, <1>1, <2>2 DEF LoopType, ConsumeInv
    <3>2. CASE offset' = offset
      BY <1>1, <3>1, <3>2, LoopsKept
    <3>3. CASE owner = m
      BY <1>1, <2>2, <3>1, <3>3 DEF TransactionAt
    <3> QED  BY <1>2, <3>2, <3>3
  <2> QED  BY <2>1, <2>2
<1> QED  BY <1>2, <1>3, <1>4 DEF ConsumeInv

LEMMA ProcessKeeps ==
  ASSUME LoopNatural, ConsumeInv, NEW m \in Members, LoopCrash(m) \/ Restart(m)
  PROVE  ConsumeInv'
<1>t. LoopType /\ TransactionAt(m)
  BY DEF ConsumeInv
<1>1. /\ UNCHANGED <<owner, offset, out>> /\ stale' = stale \ {m}
      /\ loop' = [loop EXCEPT ![m] = Ready] \/ loop' = [loop EXCEPT ![m] = Stopped]
      /\ misses' \in 0..MaxMisses
  <2>1. CASE LoopCrash(m)
    BY SMT, <1>t, <2>1 DEF LoopCrash, Miss, LoopType, LoopNatural
  <2>2. CASE Restart(m)
    BY <1>t, <2>2 DEF Restart, TransactionAt, LoopType
  <2> QED  BY <2>1, <2>2
<1>2. LoopType'
  <2>1. Ready \in Loop /\ Stopped \in Loop
    BY SMT DEF Loop, Ready, Stopped, LoopNatural
  <2> QED  BY <1>t, <1>1, <2>1 DEF LoopType
<1>3. Published'
  BY <1>1 DEF ConsumeInv, Published
<1>4. ASSUME NEW k \in Members PROVE TransactionAt(k)'
  <2>1. CASE k = m
    <3>1. loop'[m].pc # "open" /\ m \notin stale'
      BY SMT, <1>t, <1>1 DEF LoopType, Ready, Stopped
    <3> QED  BY <2>1, <3>1, RestKept
  <2>2. CASE k # m
    BY <1>t, <1>1, <2>2, LoopsKept DEF LoopType
  <2> QED  BY <2>1, <2>2
<1> QED  BY <1>2, <1>3, <1>4 DEF ConsumeInv

LEMMA RebalanceKeeps ==
  ASSUME LoopNatural, ConsumeInv, NEW m \in Members, Rebalance(m)
  PROVE  ConsumeInv'
<1>1. LoopType'
  BY SMT DEF ConsumeInv, LoopType, Rebalance, Miss, LoopNatural
<1>2. Published'
  BY DEF ConsumeInv, Published, Rebalance
<1>3. \A k \in Members : TransactionAt(k)'
  BY DEF ConsumeInv, TransactionAt, Rebalance
<1> QED  BY <1>1, <1>2, <1>3 DEF ConsumeInv

LEMMA LoopStepInv ==
  ASSUME LoopNatural, ConsumeInv, [LoopNext]_loopVars
  PROVE  ConsumeInv'
<1>1. ASSUME NEW m \in Members,
             LoopStep(m) \/ ProduceFails(m) \/ FnFails(m) \/ EndFails(m) \/ LoopCrash(m) \/ Rebalance(m)
      PROVE  ConsumeInv'
  BY <1>1, PollKeeps, WorkKeeps, EndKeeps, ProcessKeeps, RebalanceKeeps DEF LoopStep
<1>2. CASE UNCHANGED loopVars
  <2>1. LoopType' /\ Published'
    BY <1>2 DEF loopVars, ConsumeInv, LoopType, Published
  <2>2. \A k \in Members : TransactionAt(k)'
    BY <1>2, LoopsKept DEF loopVars
  <2> QED  BY <2>1, <2>2 DEF ConsumeInv
<1> QED  BY <1>1, <1>2 DEF LoopNext

--------------------------------------------------------------------------------
LEMMA SeqIs ==
  ASSUME NEW S, NEW s \in Seq(S)
  PROVE  s = [i \in 1..Len(s) |-> s[i]]
  BY SMT

\* One output per input, in order, up to the committed offset, through failures
\* of fn, of produces and of End, crashes and rebalances (Run: "exactly-once
\* semantics over the whole pipeline").
THEOREM PipelineExactlyOnce == LoopSpec => []OutputsExactlyOnce
<1> LoopNatural
  BY TransactAssumption DEF LoopNatural
<1>1. LoopInit => ConsumeInv
  BY LoopInitInv
<1>2. ConsumeInv /\ [LoopNext]_loopVars => ConsumeInv'
  BY LoopStepInv
<1>3. ConsumeInv => OutputsExactlyOnce
  <2> SUFFICES ASSUME ConsumeInv PROVE OutputsExactlyOnce
    OBVIOUS
  <2>1. out = [i \in 1..Len(out) |-> out[i]]
    BY SeqIs DEF ConsumeInv, LoopType
  <2>2. Len(out) = offset /\ \A i \in 1..offset : out[i] = i
    BY DEF ConsumeInv, Published
  <2> QED  BY <2>1, <2>2 DEF OutputsExactlyOnce
<1> QED  BY <1>1, <1>2, <1>3, PTL DEF LoopSpec

--------------------------------------------------------------------------------
(* The ledger: the inductive invariant.                                         *)

\* The valid postings.
Valid == {p \in Postings : Store!Validate(p)}

\* A transaction past its key has an id of its own, has written a prefix of its
\* posting's entries, and each of their accounts was there.
OpenAt(w) ==
  /\ tx[w].pc \in {"idle", "key"} <=> tx[w].id = 0
  /\ tx[w].pc # "idle" => tx[w].post \in Valid
  /\ tx[w].id <= ids
  /\ tx[w].id = 0 => tx[w].leg = 0
  /\ tx[w].id # 0 =>
       /\ tx[w].leg \in 0..Len(Legs[tx[w].post])
       /\ \A i \in 1..tx[w].leg : Legs[tx[w].post][i].account \in accounts
                                  /\ AssetOf[Legs[tx[w].post][i].account] = Legs[tx[w].post][i].asset

\* The unique index: no open transaction shares a key or an id with another one
\* or with a committed one.
KeyHeld ==
  \A v, w \in Posters :
    v # w /\ tx[v].id # 0 /\ tx[w].id # 0 =>
      tx[v].id # tx[w].id /\ KeyOf[tx[v].post] # KeyOf[tx[w].post]
KeyNew ==
  \A w \in Posters : \A i \in DOMAIN txs :
    tx[w].id # 0 => txs[i].id # tx[w].id /\ KeyOf[txs[i].post] # KeyOf[tx[w].post]
CommittedIds ==
  /\ \A i \in DOMAIN txs : txs[i].id <= ids /\ txs[i].id # 0
  /\ \A i, j \in DOMAIN txs : txs[i].id = txs[j].id => i = j

LedgerInv ==
  /\ TypeOK /\ NoStray /\ WholeOnce
  /\ KeyHeld /\ KeyNew /\ CommittedIds
  /\ \A w \in Posters : OpenAt(w)

LEMMA InitInv == Init => LedgerInv
<1> SUFFICES ASSUME Init PROVE LedgerInv
  OBVIOUS
<1>1. TypeOK
  BY SMT DEF Init, TypeOK, NoTx, Pc
<1>2. NoStray /\ WholeOnce /\ KeyHeld /\ KeyNew /\ CommittedIds
  BY SMT DEF Init, NoTx, NoStray, WholeOnce, KeyHeld, KeyNew, CommittedIds
<1>3. ASSUME NEW w \in Posters PROVE OpenAt(w)
  <2>1. tx[w] = NoTx /\ ids = 0
    BY DEF Init
  <2> QED  BY SMT, <2>1 DEF OpenAt, NoTx
<1> QED  BY <1>1, <1>2, <1>3 DEF LedgerInv

--------------------------------------------------------------------------------
(* Steps.                                                                       *)

LEMMA SeqElement ==
  ASSUME NEW S, NEW s \in Seq(S), NEW i \in DOMAIN s
  PROVE  s[i] \in S /\ i \in 1..Len(s)
  BY SMT

LEMMA Committed ==
  ASSUME TypeOK, NEW i \in DOMAIN txs
  PROVE  txs[i].id \in Nat /\ txs[i].post \in Postings
<1>1. txs[i] \in [id : Nat, post : Postings]
  BY SeqElement DEF TypeOK
<1> QED  BY <1>1

LEMMA LegCount ==
  ASSUME NEW p \in Valid
  PROVE  p \in Postings /\ Len(Legs[p]) \in Nat /\ DOMAIN Legs[p] = 1..Len(Legs[p])
<1>1. p \in Postings
  BY DEF Valid
<1> QED  BY SMT, <1>1, LedgerAssumption

LEMMA ValidConstant == Valid' = Valid
  BY DEF Valid

\* A step that writes no table and takes no new key keeps what the tables say.
LEMMA TablesKept ==
  ASSUME LedgerInv, UNCHANGED <<txs, entries, ids>>,
         \A v \in Posters : tx'[v].id # 0 => tx'[v].id = tx[v].id /\ tx'[v].post = tx[v].post
  PROVE  NoStray' /\ WholeOnce' /\ KeyHeld' /\ KeyNew' /\ CommittedIds'
<1>1. NoStray' /\ CommittedIds'
  BY DEF LedgerInv, NoStray, CommittedIds
<1>2. WholeOnce'
  BY DEF LedgerInv, WholeOnce, Written
<1>3. KeyHeld'
  BY SMT DEF LedgerInv, KeyHeld
<1>4. KeyNew'
  BY SMT DEF LedgerInv, KeyNew
<1> QED  BY <1>1, <1>2, <1>3, <1>4

\* A step leaves alone the transactions it does not touch.
LEMMA OpenKept ==
  ASSUME NEW v \in Posters, LedgerInv, tx'[v] = tx[v], UNCHANGED accounts,
         ids' = ids \/ tx[v].id <= ids'
  PROVE  OpenAt(v)'
<1>1. OpenAt(v)
  BY DEF LedgerInv
<1>2. tx[v].id <= ids'
  BY <1>1 DEF OpenAt
<1> QED  BY <1>1, <1>2, ValidConstant DEF OpenAt

\* A transaction that ends, at whatever point it was.
LEMMA EndedKeeps ==
  ASSUME LedgerInv, NEW w \in Posters, tx' = [tx EXCEPT ![w] = NoTx],
         UNCHANGED <<accounts, txs, entries, ids>>
  PROVE  LedgerInv'
<1>t. TypeOK
  BY DEF LedgerInv
<1>1. TypeOK'
  BY <1>t DEF TypeOK, NoTx, Pc
<1>2. \A v \in Posters : tx'[v] = IF v = w THEN NoTx ELSE tx[v]
  BY <1>t DEF TypeOK
<1>3. NoStray' /\ WholeOnce' /\ KeyHeld' /\ KeyNew' /\ CommittedIds'
  BY SMT, <1>2, TablesKept DEF NoTx
<1>4. ASSUME NEW v \in Posters PROVE OpenAt(v)'
  <2>1. CASE v = w
    BY SMT, <1>t, <1>2, <2>1 DEF OpenAt, NoTx, TypeOK
  <2>2. CASE v # w
    BY <1>2, <2>2, OpenKept
  <2> QED  BY <2>1, <2>2
<1> QED  BY <1>1, <1>3, <1>4 DEF LedgerInv

LEMMA BeginKeeps ==
  ASSUME LedgerInv, NEW w \in Posters, NEW p \in Postings, Begin(w, p)
  PROVE  LedgerInv'
<1>t. TypeOK
  BY DEF LedgerInv
<1>1. \A v \in Posters :
        tx'[v] = IF v = w THEN [pc |-> "key", post |-> p, id |-> 0, leg |-> 0] ELSE tx[v]
  BY <1>t DEF TypeOK, Begin
<1>2. TypeOK'
  BY <1>t DEF TypeOK, Begin, Pc
<1>3. UNCHANGED <<accounts, txs, entries, ids>> /\ p \in Valid
  BY DEF Begin, Valid
<1>4. NoStray' /\ WholeOnce' /\ KeyHeld' /\ KeyNew' /\ CommittedIds'
  BY SMT, <1>1, <1>3, TablesKept
<1>5. ASSUME NEW v \in Posters PROVE OpenAt(v)'
  <2>1. CASE v = w
    BY SMT, <1>t, <1>1, <1>3, <2>1, ValidConstant DEF OpenAt, TypeOK
  <2>2. CASE v # w
    BY <1>1, <1>3, <2>2, OpenKept
  <2> QED  BY <2>1, <2>2
<1> QED  BY <1>2, <1>4, <1>5 DEF LedgerInv

\* ledger_transactions: the key is free of committed and of open transactions.
LEMMA InsertKeyKeeps ==
  ASSUME LedgerInv, NEW w \in Posters, InsertKey(w)
  PROVE  LedgerInv'
<1>t. TypeOK /\ OpenAt(w)
  BY DEF LedgerInv
<1>0. tx[w].pc = "key" /\ tx[w].id = 0 /\ tx[w].post \in Valid /\ ids \in Nat
  BY <1>t DEF InsertKey, OpenAt, TypeOK
<1>1. \A v \in Posters : v # w => tx'[v] = tx[v]
  BY <1>t DEF TypeOK, InsertKey
<1>2. tx'[w].pc = "legs" /\ tx'[w].id = ids + 1 /\ tx'[w].post = tx[w].post /\ tx'[w].leg = tx[w].leg
  BY <1>t DEF TypeOK, InsertKey
<1>3. TypeOK'
  <2>1. tx'[w] \in [pc : Pc, post : Postings \cup {"none"}, id : Nat, leg : Nat]
    BY SMT, <1>t, <1>0 DEF TypeOK, InsertKey, Pc
  <2>2. tx' \in [Posters -> [pc : Pc, post : Postings \cup {"none"}, id : Nat, leg : Nat]]
    BY <1>t, <1>1, <2>1 DEF TypeOK, InsertKey
  <2> QED  BY <1>t, <2>2 DEF TypeOK, InsertKey
<1>4. UNCHANGED <<accounts, txs, entries>> /\ ids' = ids + 1
  BY DEF InsertKey
<1>5. NoStray' /\ WholeOnce'
  BY <1>4 DEF LedgerInv, NoStray, WholeOnce, Written
<1>6. CommittedIds'
  <2>1. \A i \in DOMAIN txs : txs[i].id \in Nat
    BY <1>t, Committed
  <2> QED  BY SMT, <1>0, <1>4, <2>1 DEF LedgerInv, CommittedIds
<1>7. KeyHeld'
  <2> SUFFICES ASSUME NEW u \in Posters, NEW v \in Posters, u # v, tx'[u].id # 0, tx'[v].id # 0
               PROVE  tx'[u].id # tx'[v].id /\ KeyOf[tx'[u].post] # KeyOf[tx'[v].post]
    BY DEF KeyHeld
  <2>1. ASSUME NEW q \in Posters, q # w, tx[q].id # 0
        PROVE  tx[q].id # ids + 1 /\ KeyOf[tx[q].post] # KeyOf[tx[w].post]
    <3>1. tx[q].id <= ids /\ tx[q].id \in Nat
      BY <1>t DEF LedgerInv, OpenAt, TypeOK
    <3>2. KeyOf[tx[q].post] # KeyOf[tx[w].post]
      BY <2>1 DEF InsertKey, Blocked, Holds
    <3> QED  BY SMT, <1>0, <3>1, <3>2
  <2>2. CASE u = w
    BY <1>1, <1>2, <2>1, <2>2
  <2>3. CASE v = w
    BY <1>1, <1>2, <2>1, <2>3
  <2>4. CASE u # w /\ v # w
    BY SMT, <1>1, <2>4 DEF LedgerInv, KeyHeld
  <2> QED  BY <2>2, <2>3, <2>4
<1>8. KeyNew'
  <2> SUFFICES ASSUME NEW v \in Posters, NEW i \in DOMAIN txs, tx'[v].id # 0
               PROVE  txs[i].id # tx'[v].id /\ KeyOf[txs[i].post] # KeyOf[tx'[v].post]
    BY <1>4 DEF KeyNew
  <2>1. CASE v = w
    <3>1. txs[i].id <= ids /\ txs[i].id \in Nat
      BY <1>t, Committed DEF LedgerInv, CommittedIds
    <3>2. KeyOf[txs[i].post] # KeyOf[tx[w].post]
      BY DEF InsertKey, Posted
    <3> QED  BY SMT, <1>0, <1>2, <2>1, <3>1, <3>2
  <2>2. CASE v # w
    BY SMT, <1>1, <2>2 DEF LedgerInv, KeyNew
  <2> QED  BY <2>1, <2>2
<1>9. ASSUME NEW v \in Posters PROVE OpenAt(v)'
  <2>1. CASE v = w
    <3>1. /\ tx'[w].pc = "legs" /\ tx'[w].id = ids + 1 /\ tx'[w].leg = 0
          /\ tx'[w].post = tx[w].post /\ tx[w].post \in Valid
      BY <1>0, <1>2, <1>t DEF OpenAt
    <3>2. Len(Legs[tx[w].post]) \in Nat
      BY <3>1, LegCount
    <3>3. /\ ids + 1 <= ids' /\ ids + 1 # 0 /\ 1..0 = {}
          /\ 0 \in 0..Len(Legs[tx[w].post])
      BY SMT, <1>0, <1>4, <3>2
    <3> QED  BY <2>1, <3>1, <3>3, ValidConstant DEF OpenAt
  <2>2. CASE v # w
    <3>1. tx'[v] = tx[v] /\ tx[v].id \in Nat /\ tx[v].id <= ids
      BY <1>t, <1>1, <2>2 DEF LedgerInv, OpenAt, TypeOK
    <3>2. tx[v].id <= ids'
      BY SMT, <3>1, <1>0, <1>4
    <3> QED  BY <3>1, <3>2, <1>4, OpenKept
  <2> QED  BY <2>1, <2>2
<1> QED  BY <1>3, <1>5, <1>6, <1>7, <1>8, <1>9 DEF LedgerInv

LEMMA RegisterKeeps ==
  ASSUME LedgerInv, NEW a \in Accounts, RegisterAccount(a)
  PROVE  LedgerInv'
<1>1. TypeOK'
  BY DEF LedgerInv, TypeOK, RegisterAccount
<1>2. NoStray' /\ WholeOnce' /\ KeyHeld' /\ KeyNew' /\ CommittedIds'
  BY TablesKept DEF RegisterAccount
<1>3. \A v \in Posters : OpenAt(v)'
  BY ValidConstant DEF LedgerInv, OpenAt, RegisterAccount
<1> QED  BY <1>1, <1>2, <1>3 DEF LedgerInv

\* One more entry, or one that is refused.
LEMMA LegKeeps ==
  ASSUME LedgerInv, NEW w \in Posters, InsertEntry(w) \/ Refuse(w)
  PROVE  LedgerInv'
<1>t. TypeOK /\ OpenAt(w)
  BY DEF LedgerInv
<1>0. tx[w].pc = "legs" /\ tx[w].id # 0 /\ ~LegsDone(w)
      /\ UNCHANGED <<accounts, txs, entries, ids>>
  BY <1>t DEF InsertEntry, Refuse, OpenAt
<1>l. tx[w].post \in Valid /\ tx[w].leg \in Nat /\ tx[w].leg + 1 <= Len(Legs[tx[w].post])
      /\ Len(Legs[tx[w].post]) \in Nat
  BY SMT, <1>t, <1>0, LegCount DEF OpenAt, LegsDone, TypeOK
<1>1. \A v \in Posters : v # w => tx'[v] = tx[v]
  BY <1>t DEF TypeOK, InsertEntry, Refuse
<1>2. tx'[w].id = tx[w].id /\ tx'[w].post = tx[w].post
  BY <1>t DEF TypeOK, InsertEntry, Refuse
<1>3. \/ /\ tx'[w].pc = "failed" /\ tx'[w].leg = tx[w].leg
      \/ /\ tx'[w].pc = "legs" /\ tx'[w].leg = tx[w].leg + 1
         /\ Store!Accepts(NextLeg(w))
  BY <1>t, <1>0 DEF TypeOK, InsertEntry, Refuse
<1>4. TypeOK'
  <2>1. CASE InsertEntry(w)
    <3>1. tx[w] \in [pc : Pc, post : Postings \cup {"none"}, id : Nat, leg : Nat]
      BY <1>t DEF TypeOK
    <3>2. [tx[w] EXCEPT !.leg = @ + 1]
            \in [pc : Pc, post : Postings \cup {"none"}, id : Nat, leg : Nat]
      BY SMT, <1>l, <3>1
    <3>3. tx' = [tx EXCEPT ![w] = [tx[w] EXCEPT !.leg = @ + 1]]
      BY <2>1 DEF InsertEntry
    <3> QED  BY <1>t, <1>0, <3>2, <3>3 DEF TypeOK
  <2>2. CASE Refuse(w)
    BY ZenonT(30), <1>t, <2>2 DEF TypeOK, Refuse, Pc
  <2> QED  BY <2>1, <2>2
<1>5. NoStray' /\ WholeOnce' /\ KeyHeld' /\ KeyNew' /\ CommittedIds'
  <2>1. \A v \in Posters : tx'[v].id # 0 => tx'[v].id = tx[v].id /\ tx'[v].post = tx[v].post
    BY <1>1, <1>2
  <2> QED  BY <1>0, <2>1, TablesKept
<1>6. ASSUME NEW v \in Posters PROVE OpenAt(v)'
  <2>1. CASE v # w
    BY <1>0, <1>1, <2>1, OpenKept
  <2>2. CASE v = w
    <3>1. tx'[w].pc \in {"failed", "legs"} /\ tx'[w].leg \in 0..Len(Legs[tx[w].post])
      BY SMT, <1>3, <1>l
    <3>2. ASSUME NEW i \in 1..tx'[w].leg
          PROVE  /\ Legs[tx[w].post][i].account \in accounts
                 /\ AssetOf[Legs[tx[w].post][i].account] = Legs[tx[w].post][i].asset
      <4>1. CASE i \in 1..tx[w].leg
        BY <1>t, <1>0, <4>1 DEF OpenAt
      <4>2. CASE i = tx[w].leg + 1
        <5>1. Store!Accepts(Legs[tx[w].post][i])
          BY SMT, <1>3, <1>l, <3>2, <4>2 DEF NextLeg
        <5> QED  BY <5>1 DEF Store!Accepts
      <4>3. i \in 1..tx[w].leg \/ i = tx[w].leg + 1
        <5>1. tx'[w].leg = tx[w].leg \/ tx'[w].leg = tx[w].leg + 1
          BY <1>3
        <5> QED  BY SMT, <1>l, <3>2, <5>1
      <4> QED  BY <4>1, <4>2, <4>3
    <3> QED  BY <1>t, <1>0, <1>2, <1>l, <2>2, <3>1, <3>2, ValidConstant DEF OpenAt
  <2> QED  BY <2>1, <2>2
<1> QED  BY <1>4, <1>5, <1>6 DEF LedgerInv

--------------------------------------------------------------------------------
(* Commit.                                                                      *)

\* What a commit appends: the entries of its posting, all of them, under an id
\* that no other row of either table has.
LEMMA CommitAppends ==
  ASSUME LedgerInv, NEW w \in Posters, Commit(w)
  PROVE  /\ tx[w].post \in Valid /\ tx[w].id # 0 /\ tx[w].id \in Nat
         /\ DOMAIN Legs[tx[w].post] = 1..tx[w].leg
         /\ DOMAIN txs = 1..Len(txs) /\ Len(txs) \in Nat
         /\ DOMAIN txs' = 1..(Len(txs) + 1)
         /\ txs'[Len(txs) + 1] = [id |-> tx[w].id, post |-> tx[w].post]
         /\ \A i \in DOMAIN txs :
              /\ txs'[i] = txs[i]
              /\ {e.leg : e \in {r \in entries' : r.id = txs[i].id}} = Written(txs[i])
         /\ {e.leg : e \in {r \in entries' : r.id = tx[w].id}} = 1..tx[w].leg
<1>t. TypeOK /\ OpenAt(w)
  BY DEF LedgerInv
<1>1. tx[w].post \in Valid /\ tx[w].id # 0 /\ tx[w].id \in Nat /\ LegsDone(w)
  BY <1>t DEF Commit, OpenAt, TypeOK
<1>2. DOMAIN Legs[tx[w].post] = 1..tx[w].leg
  BY <1>1, LegCount DEF LegsDone
<1>3. txs \in Seq([id : Nat, post : Postings])
      /\ txs' = Append(txs, [id |-> tx[w].id, post |-> tx[w].post])
  BY <1>t DEF TypeOK, Commit
<1>4. /\ DOMAIN txs = 1..Len(txs) /\ Len(txs) \in Nat
      /\ DOMAIN txs' = 1..(Len(txs) + 1)
      /\ txs'[Len(txs) + 1] = [id |-> tx[w].id, post |-> tx[w].post]
      /\ \A i \in DOMAIN txs : txs'[i] = txs[i]
  BY SMT, <1>3
<1>5. \A e : e \in entries' <=> e \in entries \/ \E k \in 1..tx[w].leg : e = [id |-> tx[w].id, leg |-> k]
  BY DEF Commit, Wrote
<1>6. ASSUME NEW i \in DOMAIN txs
      PROVE  {e.leg : e \in {r \in entries' : r.id = txs[i].id}} = Written(txs[i])
  <2>1. txs[i].id # tx[w].id
    BY <1>1, <1>4 DEF LedgerInv, KeyNew
  <2>2. {r \in entries' : r.id = txs[i].id} = {r \in entries : r.id = txs[i].id}
    BY SMT, <1>5, <2>1
  <2> QED  BY <2>2 DEF Written
<1>7. {e.leg : e \in {r \in entries' : r.id = tx[w].id}} = 1..tx[w].leg
  <2>1. \A e \in entries : e.id # tx[w].id
    BY <1>1 DEF LedgerInv, NoStray, KeyNew
  <2>2. \A e : e \in entries' /\ e.id = tx[w].id <=>
                 \E k \in 1..tx[w].leg : e = [id |-> tx[w].id, leg |-> k]
    BY SMT, <1>5, <2>1
  <2>3. ASSUME NEW k \in 1..tx[w].leg
        PROVE  k \in {e.leg : e \in {r \in entries' : r.id = tx[w].id}}
    <3>1. [id |-> tx[w].id, leg |-> k] \in {r \in entries' : r.id = tx[w].id}
      BY <2>2
    <3>2. [id |-> tx[w].id, leg |-> k].leg = k
      OBVIOUS
    <3> QED  BY <3>1, <3>2
  <2>4. ASSUME NEW e \in entries', e.id = tx[w].id PROVE e.leg \in 1..tx[w].leg
    BY SMT, <2>2, <2>4
  <2> QED  BY <2>3, <2>4
<1> QED  BY <1>1, <1>2, <1>4, <1>6, <1>7

LEMMA CommitKeeps ==
  ASSUME LedgerInv, NEW w \in Posters, Commit(w)
  PROVE  LedgerInv'
<1>t. TypeOK /\ OpenAt(w)
  BY DEF LedgerInv
<1> DEFINE n == Len(txs) + 1
<1>a. /\ tx[w].post \in Valid /\ tx[w].id # 0 /\ tx[w].id \in Nat
      /\ DOMAIN txs = 1..Len(txs) /\ Len(txs) \in Nat /\ DOMAIN txs' = 1..n
      /\ txs'[n] = [id |-> tx[w].id, post |-> tx[w].post]
      /\ \A i \in DOMAIN txs : txs'[i] = txs[i]
  BY CommitAppends
<1>p. tx[w].post \in Postings
  BY <1>a, LegCount
<1>i. \A i \in DOMAIN txs' : i # n => i \in DOMAIN txs /\ txs'[i] = txs[i]
  BY SMT, <1>a
<1>0. \A v \in Posters : tx'[v] = IF v = w THEN NoTx ELSE tx[v]
  BY <1>t DEF TypeOK, Commit
<1>u. UNCHANGED <<accounts, ids>>
  BY DEF Commit
<1>1. TypeOK'
  <2>1. txs' \in Seq([id : Nat, post : Postings])
    BY SMT, <1>t, <1>a, <1>p DEF TypeOK, Commit
  <2>2. entries' \subseteq [id : Nat, leg : Nat]
    BY SMT, <1>t, <1>a DEF TypeOK, Commit, Wrote
  <2>3. tx' \in [Posters -> [pc : Pc, post : Postings \cup {"none"}, id : Nat, leg : Nat]]
    BY <1>t DEF TypeOK, Commit, NoTx, Pc
  <2> QED  BY <1>t, <1>u, <2>1, <2>2, <2>3 DEF TypeOK
<1>2. NoStray'
  <2> SUFFICES ASSUME NEW e \in entries' PROVE \E i \in DOMAIN txs' : txs'[i].id = e.id
    BY DEF NoStray
  <2>1. CASE e \in entries
    <3>1. PICK i \in DOMAIN txs : txs[i].id = e.id
      BY <2>1 DEF LedgerInv, NoStray
    <3> QED  BY SMT, <1>a, <3>1
  <2>2. CASE e \in Wrote(w)
    BY SMT, <1>a, <2>2 DEF Wrote
  <2> QED  BY <2>1, <2>2 DEF Commit
<1>3. WholeOnce'
  <2>1. ASSUME NEW i \in DOMAIN txs'
        PROVE  {e.leg : e \in {r \in entries' : r.id = txs'[i].id}} = DOMAIN Legs[txs'[i].post]
    <3>1. CASE i = n
      <4>1. txs'[i].id = tx[w].id /\ txs'[i].post = tx[w].post
        BY SMT, <1>a, <3>1
      <4>2. /\ {e.leg : e \in {r \in entries' : r.id = tx[w].id}} = 1..tx[w].leg
            /\ DOMAIN Legs[tx[w].post] = 1..tx[w].leg
        BY CommitAppends
      <4> QED  BY <4>1, <4>2
    <3>2. CASE i # n
      <4>1. i \in DOMAIN txs /\ txs'[i] = txs[i]
        BY <1>i, <2>1, <3>2
      <4>2. {e.leg : e \in {r \in entries' : r.id = txs[i].id}} = Written(txs[i])
        BY <4>1, CommitAppends
      <4>3. Written(txs[i]) = DOMAIN Legs[txs[i].post]
        BY <4>1 DEF LedgerInv, WholeOnce
      <4> QED  BY <4>1, <4>2, <4>3
    <3> QED  BY <3>1, <3>2
  <2>2. ASSUME NEW i \in DOMAIN txs', NEW j \in DOMAIN txs',
               KeyOf[txs'[i].post] = KeyOf[txs'[j].post]
        PROVE  i = j
    <3>1. \A k \in DOMAIN txs : KeyOf[txs[k].post] # KeyOf[tx[w].post]
      BY <1>a DEF LedgerInv, KeyNew
    <3>2. CASE i = n
      BY SMT, <1>a, <1>i, <2>2, <3>1, <3>2
    <3>3. CASE j = n
      BY SMT, <1>a, <1>i, <2>2, <3>1, <3>3
    <3>4. CASE i # n /\ j # n
      BY <1>i, <2>2, <3>4 DEF LedgerInv, WholeOnce
    <3> QED  BY <3>2, <3>3, <3>4
  <2> QED  BY <2>1, <2>2 DEF WholeOnce, Written
<1>4. KeyHeld'
  BY SMT, <1>0 DEF LedgerInv, KeyHeld, NoTx
<1>5. KeyNew'
  <2> SUFFICES ASSUME NEW v \in Posters, NEW i \in DOMAIN txs', tx'[v].id # 0
               PROVE  txs'[i].id # tx'[v].id /\ KeyOf[txs'[i].post] # KeyOf[tx'[v].post]
    BY DEF KeyNew
  <2>1. v # w /\ tx'[v] = tx[v]
    BY SMT, <1>0 DEF NoTx
  <2>2. CASE i = n
    <3>1. txs'[i].id = tx[w].id /\ txs'[i].post = tx[w].post /\ tx[w].id # 0
      BY SMT, <1>a, <2>2
    <3> QED  BY <2>1, <3>1 DEF LedgerInv, KeyHeld
  <2>3. CASE i # n
    BY SMT, <1>i, <2>1, <2>3 DEF LedgerInv, KeyNew
  <2> QED  BY <2>2, <2>3
<1>6. CommittedIds'
  <2>1. tx[w].id <= ids
    BY <1>t DEF OpenAt
  <2>2. ASSUME NEW i \in DOMAIN txs' PROVE txs'[i].id <= ids' /\ txs'[i].id # 0
    BY SMT, <1>a, <1>i, <1>u, <2>1, <2>2 DEF LedgerInv, CommittedIds
  <2>3. ASSUME NEW i \in DOMAIN txs', NEW j \in DOMAIN txs', txs'[i].id = txs'[j].id
        PROVE  i = j
    <3>1. \A k \in DOMAIN txs : txs[k].id # tx[w].id
      BY <1>a DEF LedgerInv, KeyNew
    <3>2. CASE i = n
      BY SMT, <1>a, <1>i, <2>3, <3>1, <3>2
    <3>3. CASE j = n
      BY SMT, <1>a, <1>i, <2>3, <3>1, <3>3
    <3>4. CASE i # n /\ j # n
      BY <1>i, <2>3, <3>4 DEF LedgerInv, CommittedIds
    <3> QED  BY <3>2, <3>3, <3>4
  <2> QED  BY <2>2, <2>3 DEF CommittedIds
<1>7. ASSUME NEW v \in Posters PROVE OpenAt(v)'
  <2>1. CASE v = w
    <3>1. /\ tx'[w].pc = "idle" /\ tx'[w].id = 0 /\ tx'[w].leg = 0
          /\ ids' = ids /\ ids \in Nat
      BY SMT, <1>t, <1>0, <1>u DEF NoTx, TypeOK
    <3>2. tx'[w].id <= ids'
      BY SMT, <3>1
    <3> QED  BY <2>1, <3>1, <3>2 DEF OpenAt
  <2>2. CASE v # w
    BY <1>0, <1>u, <2>2, OpenKept
  <2> QED  BY <2>1, <2>2
<1> QED  BY <1>1, <1>2, <1>3, <1>4, <1>5, <1>6, <1>7 DEF LedgerInv

--------------------------------------------------------------------------------
(* The theorems.                                                                *)

LEMMA StepInv == LedgerInv /\ [Next]_vars => LedgerInv'
<1> SUFFICES ASSUME LedgerInv, [Next]_vars PROVE LedgerInv'
  OBVIOUS
<1>1. ASSUME NEW a \in Accounts, RegisterAccount(a) PROVE LedgerInv'
  BY <1>1, RegisterKeeps
<1>2. ASSUME NEW w \in Posters, Step(w) PROVE LedgerInv'
  <2>1. CASE \E p \in Postings : Begin(w, p)
    BY <2>1, BeginKeeps
  <2>2. CASE InsertKey(w)
    BY <2>2, InsertKeyKeeps
  <2>3. CASE AlreadyPosted(w) \/ Rollback(w)
    BY <2>3, EndedKeeps DEF AlreadyPosted, Rollback
  <2>4. CASE InsertEntry(w) \/ Refuse(w)
    BY <2>4, LegKeeps
  <2>5. CASE Commit(w)
    BY <2>5, CommitKeeps
  <2> QED  BY <1>2, <2>1, <2>2, <2>3, <2>4, <2>5 DEF Step
<1>3. CASE UNCHANGED vars
  <2>1. TypeOK'
    BY <1>3 DEF vars, LedgerInv, TypeOK
  <2>2. NoStray' /\ WholeOnce' /\ KeyHeld' /\ KeyNew' /\ CommittedIds'
    BY <1>3, TablesKept DEF vars
  <2>3. \A v \in Posters : OpenAt(v)'
    BY <1>3, ValidConstant DEF vars, LedgerInv, OpenAt
  <2> QED  BY <2>1, <2>2, <2>3 DEF LedgerInv
<1> QED  BY <1>1, <1>2, <1>3 DEF Next

LEMMA Invariance == Spec => []LedgerInv
  BY InitInv, StepInv, PTL DEF Spec

\* Every committed posting has all of its entries, no entry is without its
\* transaction row, and a key is posted once (PgStore.Post: "MUST commit
\* together", "no entries are written the second time").
THEOREM PostingsWhole == Spec => [](WholeOnce /\ NoStray)
<1>1. LedgerInv => WholeOnce /\ NoStray
  BY DEF LedgerInv
<1> QED  BY <1>1, Invariance, PTL

--------------------------------------------------------------------------------
(* PgStore implements MemStore.                                                 *)

LEMMA AppendIs ==
  ASSUME NEW S, NEW s \in Seq(S), NEW e \in S, NEW t \in Seq(S),
         Len(t) = Len(s) + 1, t[Len(s) + 1] = e, \A i \in 1..Len(s) : t[i] = s[i]
  PROVE  t = Append(s, e)
  BY SMT

\* A step of PgStore is a step of the contract or invisible to it.
LEMMA StoreStep ==
  ASSUME LedgerInv, [Next]_vars
  PROVE  [Store!Next]_<<accounts, [i \in DOMAIN txs |-> [post |-> txs[i].post, legs |-> Written(txs[i])]]>>
<1> DEFINE B == [i \in DOMAIN txs |-> [post |-> txs[i].post, legs |-> Written(txs[i])]]
<1> SUFFICES Store!Next \/ (accounts' = accounts /\ B' = B)
  OBVIOUS
<1>0. ASSUME UNCHANGED <<txs, entries>> PROVE B' = B
  BY <1>0 DEF Written
<1>1. ASSUME NEW a \in Accounts, RegisterAccount(a) PROVE Store!Next
  BY <1>0, <1>1 DEF RegisterAccount, Store!RegisterAccount, Store!Next
<1>2. ASSUME NEW w \in Posters, NEW p \in Postings, Begin(w, p)
      PROVE  accounts' = accounts /\ B' = B
  BY <1>0, <1>2 DEF Begin
<1>3. ASSUME NEW w \in Posters,
             InsertKey(w) \/ AlreadyPosted(w) \/ InsertEntry(w) \/ Refuse(w) \/ Rollback(w)
      PROVE  accounts' = accounts /\ B' = B
  BY <1>0, <1>3 DEF InsertKey, AlreadyPosted, InsertEntry, Refuse, Rollback
<1>4. ASSUME NEW w \in Posters, Commit(w) PROVE Store!Next
  <2>1. PICK p \in Valid : p = tx[w].post
    BY <1>4, CommitAppends
  <2>2. p \in Postings /\ Store!Validate(p)
    BY <2>1 DEF Valid
  <2> DEFINE n == Len(txs) + 1
  <2>c. /\ tx[w].id # 0 /\ DOMAIN Legs[p] = 1..tx[w].leg
        /\ DOMAIN txs = 1..Len(txs) /\ Len(txs) \in Nat /\ DOMAIN txs' = 1..n
        /\ txs'[n] = [id |-> tx[w].id, post |-> p]
        /\ \A i \in DOMAIN txs :
             /\ txs'[i] = txs[i]
             /\ {e.leg : e \in {r \in entries' : r.id = txs[i].id}} = Written(txs[i])
        /\ {e.leg : e \in {r \in entries' : r.id = tx[w].id}} = 1..tx[w].leg
    BY <1>4, <2>1, CommitAppends
  <2>3. B' = Append(B, Store!Whole(p))
    <3> DEFINE S == {B[i] : i \in 1..Len(txs)} \cup {Store!Whole(p)}
    <3>1. B \in Seq(S) /\ Len(B) = Len(txs)
      BY SMT, <2>c
    <3>2. ASSUME NEW i \in 1..n
          PROVE  [post |-> txs'[i].post,
                  legs |-> {e.leg : e \in {r \in entries' : r.id = txs'[i].id}}]
                 = IF i = n THEN Store!Whole(p) ELSE B[i]
      <4>1. CASE i = n
        <5>1. txs'[i].id = tx[w].id /\ txs'[i].post = p
          BY SMT, <2>c, <4>1
        <5> QED  BY ZenonT(30), <2>c, <4>1, <5>1 DEF Store!Whole
      <4>2. CASE i # n
        <5>1. i \in DOMAIN txs /\ txs'[i] = txs[i]
          BY SMT, <2>c, <4>2
        <5> QED  BY ZenonT(30), <2>c, <4>2, <5>1
      <4> QED  BY <4>1, <4>2
    <3>3. B' = [i \in 1..n |-> IF i = n THEN Store!Whole(p) ELSE B[i]]
      BY ZenonT(30), <2>c, <3>2 DEF Written
    <3>4. Store!Whole(p) \in S /\ \A i \in 1..Len(txs) : B[i] \in S
      OBVIOUS
    <3> HIDE DEF B, S
    <3>5. B' \in Seq(S) /\ Len(B') = Len(B) + 1
      BY SMT, <2>c, <3>1, <3>3, <3>4
    <3>6. B'[n] = Store!Whole(p) /\ \A i \in 1..Len(B) : B'[i] = B[i]
      BY SMT, <2>c, <3>1, <3>3
    <3> QED  BY <3>1, <3>4, <3>5, <3>6, AppendIs
  <2>4. KeyOf[p] \notin Store!seen
    <3>1. \A i \in DOMAIN txs : KeyOf[txs[i].post] # KeyOf[p]
      BY <2>1, <2>c DEF LedgerInv, KeyNew
    <3> QED  BY <3>1 DEF Store!seen
  <2>5. \A i \in DOMAIN Legs[p] : Store!Accepts(Legs[p][i])
    <3>1. OpenAt(w)
      BY <1>4 DEF LedgerInv
    <3>2. \A i \in 1..tx[w].leg : /\ Legs[p][i].account \in accounts
                                  /\ AssetOf[Legs[p][i].account] = Legs[p][i].asset
      BY <2>1, <2>c, <3>1 DEF OpenAt
    <3> QED  BY <2>c, <3>2 DEF Store!Accepts
  <2>7. accounts' = accounts
    BY <1>4 DEF Commit
  <2>6. Store!Post(p)
    BY <2>2, <2>3, <2>4, <2>5, <2>7 DEF Store!Post
  <2> QED  BY <2>2, <2>6 DEF Store!Next
<1>5. CASE UNCHANGED vars
  BY <1>0, <1>5 DEF vars
<1> QED  BY <1>1, <1>2, <1>3, <1>4, <1>5 DEF Next, Step

\* PgStore in the caller's transaction implements MemStore, at what is
\* committed: whole postings, once per key, to accounts of their assets.
THEOREM StoreRefinement == Spec => ImplementsStore
<1>1. Init => Store!Init
  BY SMT DEF Init, Store!Init
<1>2. LedgerInv /\ [Next]_vars =>
        [Store!Next]_<<accounts, [i \in DOMAIN txs |-> [post |-> txs[i].post, legs |-> Written(txs[i])]]>>
  BY StoreStep
<1> QED  BY <1>1, <1>2, Invariance, PTL DEF Spec, ImplementsStore, Store!Spec, Store!store
================================================================================
