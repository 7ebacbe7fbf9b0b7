-------------------------------- MODULE Redrive --------------------------------
(* cmd/redrive: a run republishes dead letters to the topic they came from,   *)
(* committing each after it was produced, while consumers handle what it      *)
(* publishes and dead-letter some of it again.                                *)
EXTENDS Naturals, Sequences, FiniteSetsExt

CONSTANTS
  Topic,       \* partition of the DLT -> its records at the start
  Limits,      \* values of --limit; 0 is no limit
  MaxRuns, MaxLetters, MaxFaults  \* bounds: runs, length of a partition, failures

\* A record: the message, whether its origin is known and allowed, and its
\* message-id header: NoId, Original, or one minted by a run.
NoId == <<>>
Original == <<0>>

VARIABLES
  dlt, committed,  \* per partition
  run,             \* the run: its flags, count and positions
  sent,            \* records republished and not yet handled
  republished,     \* <<partition, offset>> of every record produced
  inbox, effects,  \* of the consumers: identities, and effects per message
  minted,          \* messages republished with a fresh id
  runs, faults

vars == <<dlt, committed, run, sent, republished, inbox, effects, minted, runs, faults>>
DltPartitions == DOMAIN Topic
Messages == UNION {{Topic[p][k].msg : k \in DOMAIN Topic[p]} : p \in DltPartitions}
NoRun == [pc |-> "idle"]

Init ==
  /\ dlt = Topic /\ committed = [p \in DltPartitions |-> 0] /\ run = NoRun
  /\ sent = {} /\ republished = {} /\ inbox = {} /\ effects = [m \in Messages |-> 0]
  /\ minted = {} /\ runs = 0 /\ faults = 0

--------------------------------------------------------------------------------
pendingCount == MapThenSumSet(LAMBDA p : Len(dlt[p]) - committed[p], DltPartitions)

\* A run begins, with something pending.
Start(limit, dry, fresh) ==
  /\ run = NoRun /\ runs < MaxRuns /\ runs' = runs + 1 /\ pendingCount > 0
  /\ run' = [pc |-> "read", on |-> 0, dry |-> dry, fresh |-> fresh, at |-> committed, read |-> 0,
             target |-> IF limit > 0 /\ limit < pendingCount THEN limit ELSE pendingCount]
  /\ UNCHANGED <<dlt, committed, sent, republished, inbox, effects, minted, faults>>

\* redriveRecord: the next record of a partition. Without an allowed origin the
\* run aborts; a dry run goes on; otherwise the record is produced.
redriveRecord(p) ==
  LET k == run.at[p] + 1
      rec == dlt[p][k]
      place == <<p, k, runs>>
  IN /\ run.pc = "read" /\ run.read < run.target /\ k <= Len(dlt[p])
     /\ CASE ~rec.allowed -> run' = NoRun /\ UNCHANGED <<sent, republished, minted>>
          [] rec.allowed /\ run.dry ->
               /\ run' = [run EXCEPT !.at[p] = k, !.read = @ + 1]
               /\ UNCHANGED <<sent, republished, minted>>
          [] OTHER ->
               /\ run' = [run EXCEPT !.pc = "commit", !.on = p, !.at[p] = k, !.read = @ + 1]
               /\ sent' = sent \cup {[msg |-> rec.msg, place |-> place,
                                      id |-> IF run.fresh THEN place ELSE rec.id]}
               /\ republished' = republished \cup {<<p, k>>}
               /\ minted' = IF run.fresh THEN minted \cup {rec.msg} ELSE minted
     /\ UNCHANGED <<dlt, committed, inbox, effects, runs, faults>>

\* CommitRecords, once the record was produced
Commit(p) ==
  /\ run.pc = "commit" /\ run.on = p /\ run' = [run EXCEPT !.pc = "read"]
  /\ committed' = [committed EXCEPT ![p] = run.at[p]]
  /\ UNCHANGED <<dlt, sent, republished, inbox, effects, minted, runs, faults>>

Done ==
  /\ run.pc = "read" /\ run.read = run.target /\ run' = NoRun
  /\ UNCHANGED <<dlt, committed, sent, republished, inbox, effects, minted, runs, faults>>

\* The run is interrupted, or a poll, a produce or a commit fails.
Interrupted ==
  /\ run # NoRun /\ faults < MaxFaults /\ faults' = faults + 1 /\ run' = NoRun
  /\ UNCHANGED <<dlt, committed, sent, republished, inbox, effects, minted, runs>>

--------------------------------------------------------------------------------
\* A consumer takes a record once per identity: its message id, or its place
\* in the topic, which is new each time it is published.
InboxKey(rec) == <<rec.msg, IF rec.id = NoId THEN rec.place ELSE rec.id>>

Handled(rec) ==
  /\ rec \in sent /\ sent' = sent \ {rec} /\ inbox' = inbox \cup {InboxKey(rec)}
  /\ effects' = IF InboxKey(rec) \in inbox THEN effects ELSE [effects EXCEPT ![rec.msg] = @ + 1]
  /\ UNCHANGED <<dlt, committed, run, republished, minted, runs, faults>>

\* It fails for good and is dead-lettered again, with the id it carries.
DeadLettered(rec, p) ==
  /\ rec \in sent /\ InboxKey(rec) \notin inbox /\ Len(dlt[p]) < MaxLetters
  /\ sent' = sent \ {rec}
  /\ dlt' = [dlt EXCEPT ![p] = Append(@, [msg |-> rec.msg, allowed |-> TRUE, id |-> rec.id])]
  /\ UNCHANGED <<committed, run, republished, inbox, effects, minted, runs, faults>>

Next ==
  \/ \E limit \in Limits, dry, fresh \in BOOLEAN : ~(dry /\ fresh) /\ Start(limit, dry, fresh)
  \/ \E p \in DltPartitions : redriveRecord(p) \/ Commit(p)
  \/ Done \/ Interrupted
  \/ \E rec \in sent : Handled(rec) \/ \E p \in DltPartitions : DeadLettered(rec, p)

--------------------------------------------------------------------------------
\* Nothing is committed that was not republished, so an interrupted, limited or
\* aborted run leaves every other dead letter for the next one.
CommittedIsRepublished ==
  \A p \in DltPartitions : \A k \in 1..committed[p] : <<p, k>> \in republished

\* A message that kept its id takes effect once, however often runs are
\* interrupted and repeated.
DuplicatesCollapse ==
  \A p \in DltPartitions : \A k \in DOMAIN Topic[p] :
    Topic[p][k].id = Original /\ Topic[p][k].msg \notin minted => effects[Topic[p][k].msg] <= 1
================================================================================
