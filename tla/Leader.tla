-------------------------------- MODULE Leader --------------------------------
(* pg.RunAsLeader: one worker function runs on at most one instance, elected  *)
(* by a session-scoped advisory lock. A session can be lost, on the client's  *)
(* side first (a network that swallows packets) or on the server's first (a   *)
(* killed backend); the leader finds out at its next health check.            *)
(* Time moves only when nothing is overdue: a deadline is met by the step     *)
(* that waits for it.                                                         *)
EXTENDS Integers

CONSTANTS
  Instances,
  Interval,   \* leaderRetryInterval, in ticks
  FnStop,     \* how long fn takes to return once its context is cancelled
  MaxFaults,  \* lost sessions and crashes in a behaviour
  Free,       \* nobody holds the lock
  Orphan      \* a session no instance uses any more holds it

ASSUME LeaderAssumption ==
  /\ Interval \in Nat /\ FnStop \in Nat /\ MaxFaults \in Nat
  /\ Free \notin Instances /\ Orphan \notin Instances

VARIABLES
  pc,      \* instance -> where runAsLeader is
  fn,      \* instance -> "none", "running", "cancelled" or "returned" (in fnDone)
  conn,    \* instance -> its lock connection: "none", "ok" or "gone"
  ctx,     \* instance -> "live" or "done"
  timer,   \* instance -> ticks to its next retry, ticker or health deadline
  stop,    \* instance -> ticks since fn was cancelled
  lostFor, \* instance -> ticks since its fn lost the lock
  lock,    \* the session that holds the advisory lock, on the server
  faults

leadVars == <<pc, fn, conn, ctx, timer, stop, lostFor, lock, faults>>

Active(i) == fn[i] \in {"running", "cancelled"}

\* Where runAsLeader waits for a timer.
Waits == {"wait", "lead", "check"}

\* Types of the state.
LeadType ==
  /\ pc \in [Instances -> {"try", "wait", "lead", "check", "lost", "leave", "over", "end"}]
  /\ fn \in [Instances -> {"none", "running", "cancelled", "returned"}]
  /\ conn \in [Instances -> {"none", "ok", "gone"}]
  /\ ctx \in [Instances -> {"live", "done"}]
  /\ timer \in [Instances -> 0..Interval]
  /\ stop \in [Instances -> 0..FnStop]
  /\ lostFor \in [Instances -> Nat]
  /\ lock \in Instances \cup {Free, Orphan}
  /\ faults \in 0..MaxFaults

LeadInit ==
  /\ pc = [i \in Instances |-> "try"]
  /\ fn = [i \in Instances |-> "none"]
  /\ conn = [i \in Instances |-> "none"]
  /\ ctx = [i \in Instances |-> "live"]
  /\ timer = [i \in Instances |-> 0]
  /\ stop = [i \in Instances |-> 0]
  /\ lostFor = [i \in Instances |-> 0]
  /\ lock = Free
  /\ faults = 0

Goto(i, where) == pc' = [pc EXCEPT ![i] = where]
Arm(i) == timer' = [timer EXCEPT ![i] = Interval]

--------------------------------------------------------------------------------
\* tryAcquireLeaderLock takes the lock and leadTerm starts fn.
Acquire(i) ==
  /\ pc[i] = "try" /\ ctx[i] = "live" /\ lock = Free
  /\ lock' = i
  /\ conn' = [conn EXCEPT ![i] = "ok"]
  /\ fn' = [fn EXCEPT ![i] = "running"]
  /\ Goto(i, "lead") /\ Arm(i)
  /\ UNCHANGED <<ctx, stop, lostFor, faults>>

\* The lock is held elsewhere, or an error: the connection goes back and the
\* next attempt is an interval away.
Refused(i) ==
  /\ pc[i] = "try" /\ (lock # Free \/ ctx[i] = "done")
  /\ Goto(i, "wait") /\ Arm(i)
  /\ UNCHANGED <<fn, conn, ctx, stop, lostFor, lock, faults>>

\* The attempt fails, or the server grants the lock and the answer is lost.
\* The broken connection is destroyed by Release; its session holds the lock
\* until the server reaps it.
AnswerLost(i) ==
  /\ pc[i] = "try" /\ lock = Free /\ faults < MaxFaults
  /\ faults' = faults + 1
  /\ lock' \in {Orphan, Free}
  /\ Goto(i, "wait") /\ Arm(i)
  /\ UNCHANGED <<fn, conn, ctx, stop, lostFor>>

\* Plausible slip: a standby waits for the end of its context only.
RetryNever(i) ==
  /\ pc[i] = "wait" /\ ctx[i] = "done"
  /\ Goto(i, "end")
  /\ UNCHANGED <<fn, conn, ctx, timer, stop, lostFor, lock, faults>>

\* The select on ctx.Done and time.After.
RetryDue(i) ==
  /\ pc[i] = "wait"
  /\ \/ timer[i] = 0 /\ Goto(i, "try")
     \/ ctx[i] = "done" /\ Goto(i, "end")
  /\ UNCHANGED <<fn, conn, ctx, timer, stop, lostFor, lock, faults>>

\* cancelFn on a function that may have returned already.
Cancelled(i) == IF fn[i] = "running" THEN [fn EXCEPT ![i] = "cancelled"] ELSE fn

\* leadTerm, case <-ctx.Done().
Shutdown(i) ==
  /\ pc[i] = "lead" /\ ctx[i] = "done"
  /\ fn' = Cancelled(i)
  /\ Goto(i, "leave")
  /\ UNCHANGED <<conn, ctx, timer, stop, lostFor, lock, faults>>

\* leadTerm, case err := <-fnDone.
FnDone(i) ==
  /\ pc[i] = "lead" /\ fn[i] = "returned"
  /\ Goto(i, "leave")
  /\ UNCHANGED <<fn, conn, ctx, timer, stop, lostFor, lock, faults>>

\* leadTerm, case <-ticker.C: a health check starts, bounded by one interval,
\* which is also when the ticker fires next.
CheckStarts(i) ==
  /\ pc[i] = "lead" /\ timer[i] = 0
  /\ Goto(i, "check") /\ Arm(i)
  /\ UNCHANGED <<fn, conn, ctx, stop, lostFor, lock, faults>>

CheckPasses(i) ==
  /\ pc[i] = "check" /\ conn[i] = "ok" /\ ctx[i] = "live"
  /\ Goto(i, "lead")
  /\ UNCHANGED <<fn, conn, ctx, timer, stop, lostFor, lock, faults>>

\* The check fails at once (the session is dead, ctx is cancelled) or, at the
\* latest, when its deadline passes; fn is cancelled.
CheckFails(i) ==
  /\ pc[i] = "check" /\ (conn[i] = "gone" \/ ctx[i] = "done")
  /\ conn' = [conn EXCEPT ![i] = "gone"]
  /\ fn' = Cancelled(i)
  /\ Goto(i, "lost")
  /\ UNCHANGED <<ctx, timer, stop, lostFor, lock, faults>>

\* The server's view of a session its client has closed or broken: the lock
\* stays with it until the server notices (Reap).
Abandon(i) == lock' = IF lock = i THEN Orphan ELSE lock

\* Once fn is back, Hijack().Close, and the acquisition loop again.
Close(i) ==
  /\ pc[i] = "lost" /\ ~Active(i)
  /\ Abandon(i)
  /\ conn' = [conn EXCEPT ![i] = "none"]
  /\ fn' = [fn EXCEPT ![i] = "none"]
  /\ lostFor' = [lostFor EXCEPT ![i] = 0]
  /\ Goto(i, IF ctx[i] = "done" THEN "end" ELSE "try")
  /\ UNCHANGED <<ctx, timer, stop, faults>>

\* Plausible slip: the lock is handed on before fn has returned.
ReleaseAtOnce(i) ==
  /\ pc[i] = "leave"
  /\ IF conn[i] = "ok" THEN lock' = Free ELSE Abandon(i)
  /\ conn' = [conn EXCEPT ![i] = "none"]
  /\ Goto(i, "over")
  /\ UNCHANGED <<fn, ctx, timer, stop, lostFor, faults>>

\* releaseLeaderLock, once fn is back: unlock, or close the session.
Release(i) ==
  /\ pc[i] = "leave" /\ ~Active(i)
  /\ IF conn[i] = "ok" THEN lock' = Free ELSE Abandon(i)
  /\ conn' = [conn EXCEPT ![i] = "none"]
  /\ Goto(i, "over")
  /\ UNCHANGED <<fn, ctx, timer, stop, lostFor, faults>>

\* runAsLeader returns.
Return(i) ==
  /\ pc[i] = "over" /\ ~Active(i)
  /\ fn' = [fn EXCEPT ![i] = "none"]
  /\ lostFor' = [lostFor EXCEPT ![i] = 0]
  /\ Goto(i, "end")
  /\ UNCHANGED <<conn, ctx, timer, stop, lock, faults>>

\* fn returns, when cancelled or on its own.
FnReturns(i) ==
  /\ Active(i)
  /\ fn' = [fn EXCEPT ![i] = "returned"]
  /\ UNCHANGED <<pc, conn, ctx, timer, stop, lostFor, lock, faults>>

--------------------------------------------------------------------------------
\* The program is asked to stop: fn's context is a child of ctx.
Stop(i) ==
  /\ ctx[i] = "live" /\ pc[i] # "end"
  /\ ctx' = [ctx EXCEPT ![i] = "done"]
  /\ fn' = Cancelled(i)
  /\ UNCHANGED <<pc, conn, timer, stop, lostFor, lock, faults>>

\* The session stops working; the client has not noticed.
SessionLost(i) ==
  /\ conn[i] = "ok" /\ faults < MaxFaults
  /\ faults' = faults + 1
  /\ conn' = [conn EXCEPT ![i] = "gone"]
  /\ UNCHANGED <<pc, fn, ctx, timer, stop, lostFor, lock>>

\* The process dies with its functions and its sessions.
LeadCrash(i) ==
  /\ pc[i] # "end" /\ faults < MaxFaults
  /\ faults' = faults + 1
  /\ Abandon(i)
  /\ Goto(i, "end")
  /\ ctx' = [ctx EXCEPT ![i] = "done"]
  /\ conn' = [conn EXCEPT ![i] = "none"]
  /\ fn' = [fn EXCEPT ![i] = "none"]
  /\ lostFor' = [lostFor EXCEPT ![i] = 0]
  /\ UNCHANGED <<timer, stop>>

\* Postgres notices that a session is gone and frees its lock.
Reap ==
  /\ \/ lock = Orphan
     \/ lock \in Instances /\ conn[lock] = "gone"
  /\ lock' = Free
  /\ UNCHANGED <<pc, fn, conn, ctx, timer, stop, lostFor, faults>>

\* Nothing is overdue.
Punctual ==
  \A i \in Instances :
    /\ pc[i] # "try"
    /\ pc[i] \in {"wait", "lead"} => ctx[i] = "live" /\ fn[i] # "returned"
    /\ pc[i] \in Waits => timer[i] > 0
    /\ fn[i] = "cancelled" => stop[i] < FnStop
    /\ pc[i] \in {"lost", "leave", "over"} => Active(i)

Tick ==
  /\ Punctual
  /\ timer' = [i \in Instances |-> IF pc[i] \in Waits THEN timer[i] - 1 ELSE timer[i]]
  /\ stop' = [i \in Instances |-> IF fn[i] = "cancelled" THEN stop[i] + 1 ELSE 0]
  /\ lostFor' = [i \in Instances |-> IF Active(i) /\ lock # i THEN lostFor[i] + 1 ELSE lostFor[i]]
  /\ UNCHANGED <<pc, fn, conn, ctx, lock, faults>>

\* What the instance's goroutines do.
LeadStep(i) ==
  \/ Acquire(i) \/ Refused(i) \/ RetryDue(i) \/ Shutdown(i) \/ FnDone(i)
  \/ CheckStarts(i) \/ CheckPasses(i) \/ CheckFails(i)
  \/ Close(i) \/ Release(i) \/ Return(i)

LeadNext ==
  \/ \E i \in Instances :
       LeadStep(i) \/ FnReturns(i) \/ AnswerLost(i) \/ Stop(i) \/ SessionLost(i) \/ LeadCrash(i)
  \/ Reap \/ Tick

LeadSpec == LeadInit /\ [][LeadNext]_leadVars

--------------------------------------------------------------------------------
\* fn runs only under the lock, but for a leader whose session is lost
\* (leadTerm releases the lock only when fn is back).
RunsUnderLock == \A i \in Instances : Active(i) /\ lock # i => conn[i] = "gone"

\* A leader that lost the lock stops fn within the ticker's interval, the
\* health check's deadline and the time fn takes to stop.
OverlapBounded == \A i \in Instances : lostFor[i] <= 2 * Interval + FnStop

\* A session that holds the lock is not left in the pool (leadTerm,
\* releaseLeaderLock): the lock belongs to a term, or to a session being reaped.
LockNotParked == \A i \in Instances : lock = i => pc[i] \in {"lead", "check", "lost", "leave"}

\* fn runs only under the lock, but for a leader whose session is lost, which
\* stops within the bound; the lock is not left in the pool (leadTerm).
OneLeader == RunsUnderLock /\ OverlapBounded /\ LockNotParked
================================================================================
