------------------------------- MODULE L2Breaker -------------------------------
(***************************************************************************)
(* The circuit breaker in front of the cache's L2 (breaker.go): l2Allowed  *)
(* asks the breaker for a permit, the Redis operation runs, l2Done records *)
(* its outcome, which is the only way a half-open permit comes back.       *)
(*                                                                         *)
(* The breaker itself is failsafe-go's, built with a failure threshold     *)
(* only: closed, it opens after that many failures in a row; open, it lets *)
(* callers through again, as half-open, after a delay; half-open, it has   *)
(* as many permits as the threshold, closes on a success and opens when    *)
(* that many recorded failures add up.                                     *)
(***************************************************************************)
EXTENDS Naturals, FiniteSets

CONSTANTS
  Threshold,  \* l2BreakerFailureThreshold
  Ops,        \* concurrent cache operations
  MayFail     \* Redis may fail

VARIABLES
  state,      \* of the breaker
  failures,   \* recorded in this state
  permits,    \* left in the half-open state
  due,        \* the open delay has passed
  op,         \* operation -> "idle", "trying" or "cancelled"
  probes      \* operations whose permit is of this half-open state

vars == <<state, failures, permits, due, op, probes>>

Init ==
  /\ state = "closed" /\ failures = 0 /\ permits = 0 /\ due = FALSE
  /\ op = [o \in Ops |-> "idle"] /\ probes = {}

DelayPasses ==
  /\ state = "open" /\ ~due /\ due' = TRUE
  /\ UNCHANGED <<state, failures, permits, op, probes>>

\* TryAcquirePermit, by the state of the breaker.
TryAcquirePermit(o) ==
  \/ state = "closed" /\ UNCHANGED <<state, failures, permits, due, probes>>
  \/ /\ state = "open" /\ due
     /\ state' = "half-open" /\ failures' = 0 /\ permits' = Threshold - 1
     /\ due' = FALSE /\ probes' = {o}
  \/ /\ state = "half-open" /\ permits > 0
     /\ permits' = permits - 1 /\ probes' = probes \cup {o}
     /\ UNCHANGED <<state, failures, due>>

\* l2Allowed: a caller that is already cancelled takes no permit.
l2Allowed(o) ==
  /\ op[o] = "idle"
  /\ TryAcquirePermit(o)
  /\ op' = [op EXCEPT ![o] = "trying"]

\* The breaker refuses: the caller goes on with L1 alone.
Refused(o) ==
  /\ op[o] = "idle"
  /\ (state = "open" /\ ~due) \/ (state = "half-open" /\ permits = 0)
  /\ UNCHANGED vars

\* The caller's context ends while its operation runs.
CallerCancels(o) ==
  /\ op[o] = "trying"
  /\ op' = [op EXCEPT ![o] = "cancelled"]
  /\ UNCHANGED <<state, failures, permits, due, probes>>

Opens == state' = "open" /\ failures' = 0 /\ permits' = 0 /\ due' = FALSE /\ probes' = {}
Closes == state' = "closed" /\ failures' = 0 /\ permits' = 0 /\ due' = FALSE /\ probes' = {}
Releases(o) ==
  IF state = "half-open" THEN permits' = permits + 1 /\ probes' = probes \ {o}
                         ELSE UNCHANGED <<permits, probes>>

RecordSuccess(o) ==
  IF state = "open" THEN UNCHANGED <<state, failures, permits, due, probes>> ELSE Closes

RecordFailure(o) ==
  CASE state = "open" -> UNCHANGED <<state, failures, permits, due, probes>>
    [] state # "open" /\ failures + 1 >= Threshold -> Opens
    [] OTHER -> failures' = failures + 1 /\ Releases(o) /\ UNCHANGED <<state, due>>

Unrecorded == UNCHANGED <<state, failures, permits, due, probes>>

\* The outcome of a cancelled caller is never recorded ...
CountsOnlyLive(o) == op[o] = "trying"

\* The failure of a cancelled caller counts only while half-open.
Counts(o) == op[o] = "trying" \/ state = "half-open"

\* l2Done, for the outcomes the operation can have.
l2Done(o) ==
  /\ op[o] # "idle"
  /\ \/ RecordSuccess(o)
     \/ /\ op[o] = "cancelled" \/ MayFail
        /\ IF Counts(o) THEN RecordFailure(o) ELSE Unrecorded
  /\ op' = [op EXCEPT ![o] = "idle"]

Next ==
  \/ DelayPasses
  \/ \E o \in Ops : l2Allowed(o) \/ Refused(o) \/ CallerCancels(o) \/ l2Done(o)

Spec == Init /\ [][Next]_vars

--------------------------------------------------------------------------------
(* Properties. *)

\* Types of the variables; failures stay below the threshold.
TypeOK ==
  /\ state \in {"closed", "open", "half-open"}
  /\ failures \in 0..(Threshold - 1)
  /\ permits \in 0..(Threshold + Cardinality(Ops)) /\ due \in BOOLEAN
  /\ op \in [Ops -> {"idle", "trying", "cancelled"}] /\ probes \subseteq Ops

\* A half-open permit is in the breaker or with an operation that is still
\* running: cancelled callers do not leak permits.
NoPermitLost ==
  state = "half-open" =>
    /\ \A o \in probes : op[o] # "idle"
    /\ permits + Cardinality(probes) >= Threshold

\* A burst of cancelled requests does not open the breaker: as long as Redis
\* answers, it stays closed.
HealthyStaysClosed == MayFail \/ state = "closed"

\* The breaker never stays half-open for good.
HalfOpenEnds == state = "half-open" ~> state # "half-open"
================================================================================
