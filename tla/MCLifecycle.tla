------------------------------ MODULE MCLifecycle ------------------------------
(* Instance of Lifecycle: two public servers.                                 *)
EXTENDS Lifecycle

TwoServers == <<"api", "internal">>

\* Main and the watchers run when they can, the budget is a timer, and a pg
\* connection is given back (a handler runs under HTTP_HANDLER_TIMEOUT).  A
\* worker need not heed its cancellation, a request need not end.
MCSpec ==
  /\ Spec
  /\ WF_vars(Main) /\ WF_vars(FatalWatch) /\ WF_vars(BudgetExpires)
  /\ \A s \in ServerNames : WF_vars(WatchServe(s))
  /\ \A w \in Workers \cup {Late} : WF_vars(WorkerReleases(w))
  /\ \A r \in Requests : WF_vars(RequestFinishes(r))

--------------------------------------------------------------------------------
\* A teardown that has begun ends, and a public listener that dies begins one
\* (Close, watchServe).
ProcessEnds == ShutdownCompletes /\ DeadListenerEndsProcess
================================================================================
