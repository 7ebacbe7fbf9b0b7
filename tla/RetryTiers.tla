------------------------------ MODULE RetryTiers ------------------------------
(***************************************************************************)
(* Tiered retry topics (platform/messaging/retry/escalate.go, retry.go):    *)
(* the base-topic handler of WrapHandler, the escalator that republishes a   *)
(* failed record to the next tier or to the dead-letter topic, key parking, *)
(* and the redelivery of tier records (RetryHold models how a tier partition*)
(* is held until due).  Topic 0 is the base topic, topic t the tier t - 1.   *)
(***************************************************************************)
EXTENDS Integers, Sequences, SequencesExt

CONSTANTS
    Base,          \* the messages of the base topic, in offset order
    Key,           \* record keys
    Permanent,     \* messages that fail with a permanent error
    Tiers,         \* len(Policy.Tiers)
    TierFailures,  \* redelivered records may fail again
    Parking,       \* Policy.KeyParkingWindow > 0
    WindowEnds,    \* the parking window may end
    MaxFaults      \* bound: failed produces and crashes

Messages == ToSet(Base)

VARIABLES
    queue,   \* the records of each topic: message, retry-attempt header,
             \* and whether retry-last-error says it was diverted
    done,    \* committed offset of each topic
    stage,   \* where the consumer of each topic is with its next record
    ok,      \* messages whose handler succeeded, in order (deduplicated)
    dlt,     \* messages in the dead-letter topic
    parked,  \* parked keys
    faults

vars == <<queue, done, stage, ok, dlt, parked, faults>>

Topics == 0..Tiers

Init ==
    /\ queue = [t \in Topics |-> IF t = 0
                    THEN [k \in DOMAIN Base |-> [id |-> Base[k], attempt |-> 0, diverted |-> FALSE]]
                    ELSE <<>>]
    /\ done = [t \in Topics |-> 0]
    /\ stage = [t \in Topics |-> "idle"]
    /\ ok = <<>> /\ dlt = {} /\ parked = {}
    /\ faults = 0

Fault == faults < MaxFaults /\ faults' = faults + 1

Rec(t) == queue[t][done[t] + 1]

At(t, place) == stage[t] = place /\ done[t] < Len(queue[t])

Goto(t, place) == stage' = [stage EXCEPT ![t] = place]

KeyNeverParked(t) == FALSE

\* WrapHandler asks only for records of the base topic.
KeyParked(t) == t = 0 /\ Key[Rec(t).id] \in parked

\* The handler succeeds; the inbox makes a second success a no-op.
Handle(t) ==
    /\ At(t, "idle") /\ ~KeyParked(t) /\ Rec(t).id \notin Permanent
    /\ ok' = IF Contains(ok, Rec(t).id) THEN ok ELSE Append(ok, Rec(t).id)
    /\ Goto(t, "commit")
    /\ UNCHANGED <<queue, done, dlt, parked, faults>>

\* All attempts of the handler failed.
HandlerFails(t) ==
    /\ At(t, "idle") /\ ~KeyParked(t)
    /\ t = 0 \/ TierFailures \/ Rec(t).id \in Permanent
    /\ Goto(t, "escalate")
    /\ UNCHANGED <<queue, done, ok, dlt, parked, faults>>

Divert(t) ==
    /\ At(t, "idle") /\ KeyParked(t)
    /\ Goto(t, "divert")
    /\ UNCHANGED <<queue, done, ok, dlt, parked, faults>>

\* A record that used up its tiers, or failed for good, is dead-lettered.
ToDLT(t) ==
    Rec(t).attempt >= Tiers \/ (stage[t] = "escalate" /\ Rec(t).id \in Permanent)

Retried(t) == [id |-> Rec(t).id, attempt |-> Rec(t).attempt + 1,
               diverted |-> stage[t] = "divert"]

\* TierTopic(origTopic, attempt) with SetRetryHeaders(attempt + 1), or the DLT.
Produced(t) ==
    /\ dlt' = IF ToDLT(t) THEN dlt \cup {Rec(t).id} ELSE dlt
    /\ queue' = IF ToDLT(t) THEN queue
                ELSE [queue EXCEPT ![Rec(t).attempt + 1] =
                        Append(@, Retried(t))]

\* publishNext, then park when this is an escalation.
PublishNext(t) ==
    /\ At(t, "escalate") \/ At(t, "divert")
    /\ Produced(t)
    /\ parked' = IF Parking /\ stage[t] = "escalate"
                 THEN parked \cup {Key[Rec(t).id]} ELSE parked
    /\ Goto(t, "commit")
    /\ UNCHANGED <<done, ok, faults>>

\* Plausible slip: a failed escalation is not reported to the caller, which
\* commits the record.
PublishErrorCommits(t) ==
    /\ At(t, "escalate") \/ At(t, "divert")
    /\ Fault
    /\ Produced(t) \/ UNCHANGED <<queue, dlt>>
    /\ Goto(t, "commit")
    /\ UNCHANGED <<done, ok, parked>>

\* Produce failed (or its acknowledgement was lost): the record is kept.
PublishError(t) ==
    /\ At(t, "escalate") \/ At(t, "divert")
    /\ Fault
    /\ Produced(t) \/ UNCHANGED <<queue, dlt>>
    /\ Goto(t, "idle")
    /\ UNCHANGED <<done, ok, parked>>

Commit(t) ==
    /\ At(t, "commit")
    /\ done' = [done EXCEPT ![t] = @ + 1]
    /\ Goto(t, "idle")
    /\ UNCHANGED <<queue, ok, dlt, parked, faults>>

\* The process dies before its commits; parking lives in memory.
Crash ==
    /\ \E t \in Topics : stage[t] # "idle"
    /\ Fault
    /\ stage' = [t \in Topics |-> "idle"]
    /\ parked' = {}
    /\ UNCHANGED <<queue, done, ok, dlt>>

\* The window ends.  It is sized as the documentation asks, to cover the
\* redelivery of the escalated record; a diverted record does not extend it.
Unpark(key) ==
    /\ WindowEnds /\ key \in parked
    /\ \A t \in 1..Tiers : \A k \in done[t] + 1 .. Len(queue[t]) :
          Key[queue[t][k].id] = key => queue[t][k].diverted
    /\ parked' = parked \ {key}
    /\ UNCHANGED <<queue, done, stage, ok, dlt, faults>>

Consume(t) ==
    Handle(t) \/ HandlerFails(t) \/ Divert(t) \/ PublishNext(t) \/ Commit(t)

Next ==
    \/ \E t \in Topics : Consume(t) \/ PublishError(t)
    \/ Crash
    \/ \E id \in Messages : Unpark(Key[id])

Spec == Init /\ [][Next]_vars

-----------------------------------------------------------------------------
\* Type invariant; the attempt header of a record names the tier it is in.
TypeOK ==
    /\ \A t \in Topics :
         /\ stage[t] \in {"idle", "escalate", "divert", "commit"}
         /\ done[t] \in 0..Len(queue[t])
         /\ \A k \in DOMAIN queue[t] : queue[t][k].id \in Messages
                                       /\ queue[t][k].attempt = t
    /\ ToSet(ok) \subseteq Messages /\ dlt \subseteq Messages

\* A message is never dropped: it was handled, is in the dead-letter topic, or
\* an uncommitted record of some topic still carries it, whatever crashes
\* between a produce and the commit of the record it replaces.
NeverDropped ==
    \A id \in Messages :
        \/ Contains(ok, id) \/ id \in dlt
        \/ \E t \in Topics : \E k \in done[t] + 1 .. Len(queue[t]) :
              queue[t][k].id = id

\* Every message is eventually handled or dead-lettered: escalation ends.
EventuallySettled ==
    <>(\A id \in Messages : Contains(ok, id) \/ id \in dlt)

Before(s, x, y) == \E i, j \in DOMAIN s : i < j /\ s[i] = x /\ s[j] = y

\* Key parking "preserves their relative order" (package documentation): two
\* messages of one key are handled in the order of the base topic.
KeyOrder ==
    \A i, j \in DOMAIN Base :
        (i < j /\ Key[Base[i]] = Key[Base[j]]) => ~Before(ok, Base[j], Base[i])
==============================================================================
