------------------------------- MODULE RateLimit -------------------------------
(* ratelimit.Memory and ratelimit.Redis behind the RateLimitPer middleware: one *)
(* token bucket per key, dropped when idle and, in memory, when there are too  *)
(* many. Tokens are counted in thousandths and time in milliseconds, so that a *)
(* refill is a whole number. A request that passes is logged.                  *)
EXTENDS Integers, Sequences, FiniteSets

CONSTANTS
  Keys,
  Rps, Burst,
  Shared,       \* TRUE: Redis; FALSE: Memory
  Idle,         \* Redis's floor of 60s; Memory's WithIdleTTL
  MaxEntries,   \* WithMaxEntries; the number of keys where there is no cap
  SampleSize,
  FailClosed,   \* WithFailClosed
  Second,       \* milliseconds in a second, scaled down
  MaxCalls, MaxNow

VARIABLES
  now,
  bucket,   \* key -> [t, ts] or NoBucket
  log,      \* key -> times of its admissions
  due,      \* key -> when the last denial said to come back, or 0
  spilled   \* keys whose bucket the cap evicted

vars == <<now, bucket, log, due, spilled>>

One == 1000
NoBucket == [t |-> -1, ts |-> 0]
Entries == {k \in Keys : bucket[k] # NoBucket}

TypeOK ==
  /\ now \in 0..MaxNow
  /\ \A k \in Entries : bucket[k].t \in 0..(Burst * One) /\ bucket[k].ts <= now
  /\ Cardinality(Entries) <= MaxEntries
  /\ \A k \in Keys : Len(log[k]) <= MaxCalls
  /\ spilled \subseteq Keys

Init ==
  /\ now = 0
  /\ bucket = [k \in Keys |-> NoBucket]
  /\ log = [k \in Keys |-> <<>>]
  /\ due = [k \in Keys |-> 0]
  /\ spilled = {}

--------------------------------------------------------------------------------
CeilDiv(a, b) == (a + b - 1) \div b
MaxOf(a, b) == IF a > b THEN a ELSE b

\* Plausible slip: the time to refill is left out.
IdleTTLFixed == Idle
\* NewRedis's 2 x max(burst/rps, 60s); NewMemory's idleTTL as configured.
IdleTTL == IF Shared THEN 2 * MaxOf(CeilDiv(Burst * One, Rps), Idle) ELSE Idle
Lapsed(k) == bucket[k] # NoBucket /\ now - bucket[k].ts > IdleTTL

Refilled(b) == IF b.t + (now - b.ts) * Rps > Burst * One THEN Burst * One ELSE b.t + (now - b.ts) * Rps

\* An absent bucket is a full one; Redis shows no expired key.
Tokens(k) ==
  IF bucket[k] = NoBucket \/ (Shared /\ Lapsed(k)) THEN Burst * One ELSE Refilled(bucket[k])

\* The Retry-After header: whole seconds, at least one.
retryAfterSeconds(ms) == MaxOf(CeilDiv(ms, Second), 1)

\* The wait for one whole token: retry_ms, and Memory's duration.
RetryAfter(t) == IF Shared THEN CeilDiv(One - t, Rps) ELSE (One - t) \div Rps

\* evictOneLocked: the least recently seen of a sample, when there is no room.
Victims(k) ==
  LET sampled == IF Cardinality(Entries) < SampleSize THEN Cardinality(Entries) ELSE SampleSize
      notOlder(w) == {e \in Entries : bucket[e].ts >= bucket[w].ts}
  IN IF k \in Entries \/ Cardinality(Entries) < MaxEntries THEN {{}}
     ELSE {{v} : v \in {w \in Entries : Cardinality(notOlder(w)) >= sampled}}

\* The bucket's decision: under Memory's lock, or one script in Redis.
Decide(k) ==
  \E gone \in Victims(k) :
    /\ bucket' = [e \in Keys |->
         IF e = k THEN [t |-> IF Tokens(k) >= One THEN Tokens(k) - One ELSE Tokens(k), ts |-> now]
         ELSE IF e \in gone THEN NoBucket ELSE bucket[e]]
    /\ spilled' = spilled \cup gone

Pass(k) ==
  /\ log' = [log EXCEPT ![k] = Append(@, now)]
  /\ due' = [due EXCEPT ![k] = 0]

\* RateLimitPer: the request goes on, or gets a 429 with Retry-After.
Allow(k) ==
  /\ Len(log[k]) < MaxCalls
  /\ Decide(k)
  /\ IF Tokens(k) >= One THEN Pass(k)
     ELSE /\ due' = [due EXCEPT ![k] = now + Second * retryAfterSeconds(RetryAfter(Tokens(k)))]
          /\ log' = log
  /\ UNCHANGED now

\* errResult: fail-open passes, fail-closed is a 503 without Retry-After.
errResult(k) ==
  IF FailClosed THEN due' = [due EXCEPT ![k] = 0] /\ log' = log ELSE Pass(k)

\* The call to Redis fails, before or after the script has run.
AllowFails(k) ==
  /\ Shared /\ Len(log[k]) < MaxCalls
  /\ Decide(k) \/ UNCHANGED <<bucket, spilled>>
  /\ errResult(k)
  /\ UNCHANGED now

\* The janitor's evictIdle, and Redis's own expiry.
evictIdle ==
  /\ \E k \in Keys : Lapsed(k)
  /\ bucket' = [k \in Keys |-> IF Lapsed(k) THEN NoBucket ELSE bucket[k]]
  /\ UNCHANGED <<now, log, due, spilled>>

Tick ==
  /\ now < MaxNow /\ now' = now + 1
  /\ UNCHANGED <<bucket, log, due, spilled>>

Next == (\E k \in Keys : Allow(k) \/ AllowFails(k)) \/ evictIdle \/ Tick

--------------------------------------------------------------------------------
\* Between any two requests of a key that pass there are no more than the burst
\* and what was refilled, across expiry, failures and evictions for idleness; a
\* key the cap evicted starts again with a full bucket (Allow, luaTokenBucket).
RateBounded ==
  \A k \in Keys \ spilled : \A i, j \in 1..Len(log[k]) :
    i <= j => (j - i + 1) * One <= Burst * One + Rps * (log[k][j] - log[k][i])

\* Who waits as told passes, unless another call took the token
\* (RateLimitPer: "a real Retry-After header").
RetryAfterHonest == \A k \in Keys : due[k] # 0 /\ now >= due[k] => Tokens(k) >= One
================================================================================
