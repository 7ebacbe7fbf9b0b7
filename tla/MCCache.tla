-------------------------------- MODULE MCCache --------------------------------
(* Instances of the cache and of its breaker: one query over a failing Redis, *)
(* one over gaps in the subscription, two that share a load, and the breaker  *)
(* with a failing and with a working Redis. One of them runs in a behaviour.  *)
EXTENDS TwoTierCache

CONSTANTS a, p, c1, c2, o1, o2, o3, o4

VARIABLES state, failures, permits, due, op, probes,
          setup  \* "lossy", "gaps", "shared", "failing" or "healthy"

breaker == <<state, failures, permits, due, op, probes>>
all == <<cacheVars, breaker, setup>>

\* The queries run on one instance, the writer in a process of its own.
SameInstance == [c \in {c1, c2} |-> a]

Gapped == INSTANCE TwoTierCache WITH Unreliable <- FALSE, Gaps <- {a}
Shared == INSTANCE TwoTierCache WITH Unreliable <- FALSE, DefaultTTL <- 1, MaxInbox <- 1
Failing == INSTANCE L2Breaker WITH Threshold <- 3, Ops <- {o1, o2, o3, o4}, MayFail <- TRUE
Healthy == INSTANCE L2Breaker WITH Threshold <- 3, Ops <- {o1, o2, o3, o4}, MayFail <- FALSE

MCInit == CacheInit /\ Failing!Init /\ setup \in {"lossy", "gaps", "shared", "failing", "healthy"}

\* Only with "shared" does c2 ask, and nothing is written there.
InCache(s, A) ==
  /\ setup = s /\ A /\ UNCHANGED <<breaker, setup>>
  /\ IF s = "shared" THEN UNCHANGED db ELSE UNCHANGED call[c2]
InBreaker(s, A) == setup = s /\ A /\ UNCHANGED <<cacheVars, setup>>

MCNext ==
  \/ InCache("lossy", CacheNext) \/ InCache("gaps", Gapped!CacheNext) \/ InCache("shared", Shared!CacheNext)
  \/ InBreaker("failing", Failing!Next) \/ InBreaker("healthy", Healthy!Next)

\* Goroutines that can run do; L2 operations end (L2OpTimeout), the breaker's
\* delay passes and callers keep coming.
MCSpec ==
  /\ MCInit /\ [][MCNext]_all
  /\ \A i \in Instances : /\ WF_all(InCache("shared", Shared!FlightStep(i)))
                          /\ WF_all(InCache("shared", Shared!SubscriberStep(i)))
  /\ \A c \in Callers : WF_all(InCache("shared", Shared!CallStep(c)))
  /\ WF_all(InBreaker("failing", Failing!DelayPasses))
  /\ \A o \in {o1, o2, o3, o4} : /\ WF_all(InBreaker("failing", Failing!l2Done(o)))
                                 /\ SF_all(InBreaker("failing", Failing!l2Allowed(o)))

--------------------------------------------------------------------------------
\* Half-open permits are not lost, and cancelled requests alone do not open
\* the breaker (l2Done).
BreakerSound == Failing!NoPermitLost /\ (setup = "healthy" => Healthy!HealthyStaysClosed)

\* A query that waits for a load is answered, whether it started the load or
\* joined it, and nobody is answered with another's cancellation (GetOrLoad);
\* the breaker does not stay half-open for good (l2Done).
\* The two queries are alike, and one is looked at.
CallersServed ==
  /\ (setup = "shared" /\ call[c1].pc = "wait") ~> call[c1].pc = "done"
  /\ CancelledAlone
  /\ setup = "failing" => Failing!HalfOpenEnds
================================================================================
