------------------------------- MODULE TrafficRun -------------------------------
(* A load run: the generator's workers execute scenarios against the gateway,  *)
(* scenarios record in the ledger what must come of the answers they got,      *)
(* Verify polls the gateway until every expectation is met or its time is up,  *)
(* and the command exits with the verdict.                                     *)
EXTENDS Naturals, Sequences, FiniteSets

CONSTANTS
  Schedules,                    \* what buildSchedule may draw: sequences of kinds
  Workers,                      \* Config.Workers
  Ids,                          \* order ids the gateway may give
  Within, Interval,             \* TerminalDeadline, PollInterval
  MaxFaults, MaxNow             \* bounds: failing probes, the clock

\* An answer to a POST; the code is as documented, or another.
Accepted == [status : {"202"}, id : Ids, code : {"none"}]
Refused(s) == [status : {s}, id : {0}, code : {"right", "wrong"}]
Unclear == [status : {"5xx", "transport"}, id : {0}, code : {"none"}]

VARIABLES
  status,             \* the gateway's status of each order; "" is no row
  schedule, next, running, answers, failed,     \* Generator.Run
  terminals, winners, losers, rejects,          \* the ledger
  pc, open, probe, last, found, due,            \* Verify and the command
  cancelled, faults, now

generator == <<schedule, next, running, answers, failed>>
ledger == <<terminals, winners, losers, rejects>>
verifier == <<open, probe, last, found, due>>
vars == <<status, generator, ledger, pc, verifier, cancelled, faults, now>>

Ops == DOMAIN schedule
Expectations == [id : Ids, want : {"paid", "payment_failed"}]

Init ==
  /\ status = [i \in Ids |-> ""] /\ schedule \in Schedules
  /\ next = 1 /\ running = {} /\ answers = [o \in Ops |-> <<>>] /\ failed = {}
  /\ terminals = {} /\ rejects = {}
  /\ winners = [o \in Ops |-> {}] /\ losers = [o \in Ops |-> 0]
  /\ pc = "run" /\ open = {} /\ probe = [e \in Expectations |-> "idle"]
  /\ last = [e \in Expectations |-> ""] /\ found = {} /\ due = 0
  /\ cancelled = FALSE /\ faults = 0 /\ now = 0

--------------------------------------------------------------------------------
(* Generator.Run *)

\* An op is handed to a free worker; the send competes with ctx.Done.
Dispatch ==
  /\ pc = "run" /\ next \in Ops /\ Cardinality(running) < Workers
  /\ running' = running \cup {next} /\ next' = next + 1
  /\ UNCHANGED <<status, schedule, answers, failed, ledger, pc, verifier, cancelled, faults, now>>

\* The scenario returns: its answers, and whether it failed.
Completes(o, got, fails) ==
  /\ running' = running \ {o}
  /\ answers' = [answers EXCEPT ![o] = got]
  /\ failed' = IF fails THEN failed \cup {o} ELSE failed
  /\ UNCHANGED <<status, schedule, next, pc, verifier, cancelled, faults, now>>

Expect(id, want) == terminals' = terminals \cup {[id |-> id, want |-> want]}
Want(kind) == IF kind = "decline" THEN "payment_failed" ELSE "paid"

\* happy and decline post one order.
PostOrder(o, a) ==
  /\ schedule[o] \in {"happy", "decline"}
  /\ IF a.status = "202" THEN Expect(a.id, Want(schedule[o])) ELSE UNCHANGED terminals
  /\ Completes(o, <<a>>, a.status # "202")
  /\ UNCHANGED <<winners, losers, rejects>>

\* Only definitive answers to an invalid order are recorded.
invalid(o, a) ==
  /\ schedule[o] = "invalid"
  /\ rejects' = IF a.status \in {"400", "202"} THEN rejects \cup {<<o, a.code>>} ELSE rejects
  /\ Completes(o, <<a>>, a.status \notin {"400", "202"})
  /\ UNCHANGED <<terminals, winners, losers>>

\* What the posts of one key were answered
AcceptedOf(got) == {got[k].id : k \in {k \in DOMAIN got : got[k].status = "202"}}
ConflictsOf(got) == {k \in DOMAIN got : got[k].status = "409"}
OthersOf(got) == {k \in DOMAIN got : got[k].status = "5xx"}

\* idem posts one body, mismatch several, under one key and at once. A transport
\* error records nothing, and losers are recorded for a definitive group only.
\* The winner that becomes an expectation is the last answer's.
SameKey(o, got) ==
  LET ids == AcceptedOf(got)
      mismatch == schedule[o] = "mismatch"
      definite == mismatch /\ (ids # {} \/ OthersOf(got) = {})
  IN /\ schedule[o] \in {"idem", "mismatch"}
     /\ IF \E k \in DOMAIN got : got[k].status = "transport"
        THEN UNCHANGED ledger /\ Completes(o, got, TRUE)
        ELSE /\ winners' = [winners EXCEPT ![o] = ids]
             /\ losers' = [losers EXCEPT ![o] = IF definite THEN Cardinality(ConflictsOf(got)) ELSE 0]
             /\ rejects' = IF definite THEN rejects \cup {<<o, got[k].code>> : k \in ConflictsOf(got)}
                           ELSE rejects
             /\ IF ids = {} THEN UNCHANGED terminals
                ELSE LET k == CHOOSE k \in DOMAIN got : /\ got[k].status = "202"
                                                        /\ \A j \in DOMAIN got : got[j].status = "202" => j <= k
                     IN Expect(got[k].id, "paid")
             /\ Completes(o, got, OthersOf(got) # {} \/ (~mismatch /\ ConflictsOf(got) # {}))

\* Run returns when every op dispatched is done; it reports a cancellation
\* only if that kept it from dispatching.
RunReturns ==
  /\ pc = "run" /\ running = {}
  /\ \/ next \notin Ops /\ pc' = "verify"
     \/ next \in Ops /\ cancelled /\ pc' = "exit1"
  /\ UNCHANGED <<status, generator, ledger, verifier, cancelled, faults, now>>

--------------------------------------------------------------------------------
(* Ledger.Verify *)

\* What can be told without a probe: codes as wanted, one accepted id per key.
Unrejected == {<<"rejected", x[1]>> : x \in {x \in rejects : x[2] # "right"}}
Winnerless ==
  {<<"winner", o>> : o \in {o \in Ops : /\ winners[o] # {} \/ losers[o] > 0
                                        /\ Cardinality(winners[o]) # 1}}

Verify ==
  /\ pc = "verify" /\ pc' = "poll"
  /\ found' = Unrejected \cup Winnerless /\ open' = terminals /\ due' = now + Within
  /\ UNCHANGED <<status, generator, ledger, probe, last, cancelled, faults, now>>

\* A pass probes every open expectation at once.
Probe ==
  /\ pc = "poll" /\ open # {} /\ pc' = "probing"
  /\ probe' = [e \in Expectations |-> IF e \in open THEN "asked" ELSE "idle"]
  /\ UNCHANGED <<status, generator, ledger, open, last, found, due, cancelled, faults, now>>

\* A probe answers; one that fails after the deadline is asked once more.
Answer(e) ==
  /\ probe[e] \in {"asked", "again"}
  /\ \/ /\ probe' = [probe EXCEPT ![e] = "answered"] /\ UNCHANGED faults
        /\ last' = [last EXCEPT ![e] = IF status[e.id] = "" THEN @ ELSE status[e.id]]
     \/ /\ faults < MaxFaults /\ faults' = faults + 1
        /\ IF probe[e] = "asked" /\ now > due /\ ~cancelled
           THEN probe' = [probe EXCEPT ![e] = "again"] /\ UNCHANGED last
           ELSE /\ probe' = [probe EXCEPT ![e] = "answered"]
                /\ last' = [last EXCEPT ![e] = "error"]
  /\ UNCHANGED <<status, generator, ledger, pc, open, found, due, cancelled, now>>

Unsatisfied == {e \in open : last[e] # e.want}
\* Mutant: a cancelled verification reports nothing of what is open.
UnmetInTime == IF now > due THEN {<<"terminal", e>> : e \in Unsatisfied} ELSE {}
Unmet == IF now > due \/ cancelled THEN {<<"terminal", e>> : e \in Unsatisfied} ELSE {}

\* wg.Wait, then each expectation is met, given up or polled again.
Judge ==
  /\ pc = "probing" /\ \A e \in open : probe[e] = "answered"
  /\ found' = found \cup Unmet
  /\ open' = IF now > due \/ cancelled THEN {} ELSE Unsatisfied
  /\ pc' = "wait"
  /\ UNCHANGED <<status, generator, ledger, probe, last, due, cancelled, faults, now>>

\* The next pass, after the interval or at once when cancelled.
NextPass ==
  /\ pc = "wait" /\ open # {} /\ pc' = "poll"
  /\ \/ cancelled /\ UNCHANGED now
     \/ now + Interval <= MaxNow /\ now' = now + Interval
  /\ UNCHANGED <<status, generator, ledger, verifier, cancelled, faults>>

\* One row for each accepted id; the command line has no such probe.
AcceptedIDs == {e.id : e \in terminals} \cup UNION {winners[o] : o \in Ops}
CountOrders ==
  /\ pc \in {"poll", "wait"} /\ open = {} /\ pc' = "verdict"
  /\ \/ UNCHANGED <<found, faults>>
     \/ /\ \E i \in AcceptedIDs : status[i] = "" /\ UNCHANGED faults
        /\ found' = found \cup {<<"count", "ids">>}
     \/ /\ AcceptedIDs # {} /\ faults < MaxFaults /\ faults' = faults + 1
        /\ found' = found \cup {<<"count", "ids">>}
  /\ UNCHANGED <<status, generator, ledger, open, probe, last, due, cancelled, now>>

\* Violations and failed scenarios make the command fail.
Exit ==
  /\ pc = "verdict" /\ pc' = IF found = {} /\ failed = {} THEN "exit0" ELSE "exit1"
  /\ UNCHANGED <<status, generator, ledger, verifier, cancelled, faults, now>>

--------------------------------------------------------------------------------
(* The gateway, the caller and the clock. *)

Progress(i) ==
  /\ \/ status[i] = "" /\ status' = [status EXCEPT ![i] = "pending"]
     \/ /\ status[i] = "pending"
        /\ \E s \in {"paid", "payment_failed"} : status' = [status EXCEPT ![i] = s]
  /\ \E o \in Ops : i \in AcceptedOf(answers[o])
  /\ UNCHANGED <<generator, ledger, pc, verifier, cancelled, faults, now>>

Cancel ==
  /\ ~cancelled /\ pc \notin {"exit0", "exit1"} /\ cancelled' = TRUE
  /\ UNCHANGED <<status, generator, ledger, pc, verifier, faults, now>>

\* Time passes while a probe is under way.
Tick ==
  /\ pc = "probing" /\ now < MaxNow /\ now' = now + 1
  /\ UNCHANGED <<status, generator, ledger, pc, verifier, cancelled, faults>>

Scenario(o) ==
  /\ o \in running
  /\ \/ \E a \in Accepted \cup Unclear : PostOrder(o, a)
     \/ \E a \in Accepted \cup Refused("400") \cup Unclear : invalid(o, a)
     \/ \E a, b \in Accepted \cup Refused("409") \cup Unclear : SameKey(o, <<a, b>>)
Command ==
  \/ Dispatch \/ (\E o \in Ops : Scenario(o)) \/ RunReturns \/ Verify \/ Probe
  \/ (\E e \in Expectations : Answer(e)) \/ Judge \/ NextPass \/ CountOrders \/ Exit
Next == Command \/ Cancel \/ Tick \/ \E i \in Ids : Progress(i)

--------------------------------------------------------------------------------
\* What the gateway promises of the answers to an op, and of what follows.
Kept(o) ==
  LET got == answers[o]
      ids == AcceptedOf(got)
  IN CASE schedule[o] = "invalid" -> got[1].status = "400" /\ got[1].code = "right"
       [] OTHER -> /\ Cardinality(ids) = 1 /\ \A i \in ids : status[i] = Want(schedule[o])
                   /\ \A k \in DOMAIN got : \/ got[k].status = "202"
                                            \/ schedule[o] = "mismatch" /\ got[k].code = "right"

\* Exit code 0 is true: every answer was as promised and every accepted order
\* ended as it should, however polls, failures and a cancellation fell.
CleanIsTrue == pc = "exit0" => \A o \in Ops : Kept(o)

\* The gateway is blamed only for what it did: unclear answers never count as
\* violations, and an order reported was due and not seen settled.
BlameIsDue ==
  /\ \A o \in Ops :
       /\ <<"rejected", o>> \in found =>
            \E k \in DOMAIN answers[o] : answers[o][k].code = "wrong" \/ schedule[o] = "invalid"
       /\ <<"winner", o>> \in found =>
            \/ Cardinality(AcceptedOf(answers[o])) > 1
            \/ \A k \in DOMAIN answers[o] : answers[o][k].status = "409"
  /\ \A e \in Expectations :
       <<"terminal", e>> \in found => last[e] # e.want /\ (now > due \/ cancelled)
================================================================================
