-------------------------------- MODULE MCRetry --------------------------------
(* Instances of the retry pipeline: a tier partition held until due, and two  *)
(* set-ups of the tiers, and runs of redrive. One of them runs in a behaviour. *)
EXTENDS RetryHold, TLC

CONSTANTS m1, m2, t0, a1, a2, a3, b1

VARIABLES queue, done, stage, ok, dlt, parked,
          letters, marks, run, sent, republished, inbox, effects, minted, runs, setup

tierVars == <<queue, done, stage, ok, dlt, parked>>
redriveVars == <<letters, marks, run, sent, republished, inbox, effects, minted, runs>>
allVars == <<vars, tierVars, redriveVars, setup>>

TierLength == t0 :> 2

MixedKey == (a1 :> "x") @@ (a2 :> "x") @@ (b1 :> "y")

\* Two tiers, a message that fails for good, crashes and failed produces.
Rough == INSTANCE RetryTiers WITH
    Base <- <<a1, b1, a2>>, Key <- MixedKey, Permanent <- {b1}, Tiers <- 2,
    TierFailures <- TRUE, Parking <- TRUE, WindowEnds <- TRUE, MaxFaults <- 1

\* Redelivered records succeed and the parking window lasts.
Calm == INSTANCE RetryTiers WITH
    Base <- <<a1, b1, a2, a3>>, Key <- MixedKey @@ (a3 :> "x"), Permanent <- {},
    Tiers <- 2, TierFailures <- FALSE, Parking <- TRUE, WindowEnds <- FALSE,
    MaxFaults <- 0

\* Two partitions of dead letters; one has no message id, one no known origin.
DeadLetters == <<
    <<[msg |-> a1, allowed |-> TRUE, id |-> <<0>>], [msg |-> a3, allowed |-> FALSE, id |-> <<0>>]>>,
    <<[msg |-> b1, allowed |-> TRUE, id |-> <<>>], [msg |-> a2, allowed |-> TRUE, id |-> <<0>>]>>>>
Letters == INSTANCE Redrive WITH
    Topic <- DeadLetters, Limits <- {0, 1}, MaxRuns <- 2, MaxLetters <- 3, MaxFaults <- 1,
    dlt <- letters, committed <- marks

MCInit ==
    /\ Init /\ Letters!Init
    /\ \/ /\ setup \in {"hold", "redrive"} /\ queue = <<>> /\ done = <<>> /\ stage = <<>>
          /\ ok = <<>> /\ dlt = {} /\ parked = {}
       \/ setup = "rough" /\ Rough!Init
       \/ setup = "calm" /\ Calm!Init

InHold(A) == setup = "hold" /\ A /\ UNCHANGED <<tierVars, redriveVars, setup>>

InTiers(s, A) ==
    /\ setup = s /\ A
    /\ UNCHANGED <<owner, committed, client, hold, pc, job, fetched, toCommit,
                   due, handled, revokes, redriveVars, setup>>

InRedrive(A) ==
    /\ setup = "redrive" /\ A
    /\ UNCHANGED <<owner, committed, client, hold, pc, job, fetched, toCommit,
                   due, handled, revokes, tierVars, setup>>

MCNext == InHold(Next) \/ InTiers("rough", Rough!Next) \/ InTiers("calm", Calm!Next)
          \/ InRedrive(Letters!Next)

\* Run is never idle for ever, timers fire, due times come, partitions are
\* assigned, and every topic has a consumer that polls, handles and commits.
MCSpec ==
    /\ MCInit /\ [][MCNext]_allVars
    /\ \A m \in Members : /\ WF_allVars(InHold(Run(m)))
                          /\ WF_allVars(InHold(ProcessPartition(m)))
    /\ \A m \in Members, p \in Partitions : WF_allVars(InHold(TimerFires(m, p)))
    /\ \A p \in Partitions :
          /\ WF_allVars(InHold(\E m \in Members : Assign(p, m)))
          /\ \A k \in 1..TierLength[p] : WF_allVars(InHold(Due(p, k)))
    /\ \A t \in 0..2 : /\ WF_allVars(InTiers("rough", Rough!Consume(t)))
                       /\ WF_allVars(InTiers("calm", Calm!Consume(t)))

--------------------------------------------------------------------------------
\* Escalation drops no message (publishNext before the commit). A redrive
\* commits only what it republished, and its repetitions collapse in the inbox
\* (redriveRecord).
NothingLost == /\ setup = "rough" => Rough!NeverDropped
               /\ setup = "calm" => Calm!NeverDropped
               /\ Letters!CommittedIsRepublished /\ Letters!DuplicatesCollapse

\* Key parking keeps the order of a key while its window lasts and the
\* redelivered records succeed (KeyParked, Divert).
ParkedKeyOrder == setup = "calm" => Calm!KeyOrder

\* Without a rebalance every record of a tier is eventually handled or
\* escalated: a held batch wakes and its partition is resumed (holdRecords,
\* drainWakes). Every message is eventually handled or dead-lettered
\* (publishNext counts the attempts up to the last tier).
RecordsEnd ==
    /\ setup = "hold" => (<>(revokes > 0) \/ EventuallyHandled)
    /\ setup = "rough" => Rough!EventuallySettled
    /\ setup = "calm" => Calm!EventuallySettled

\* What the comment on onRevoked promises: a tier never stalls, rebalances or
\* not.
NeverStalls == setup = "hold" => EventuallyHandled
================================================================================
