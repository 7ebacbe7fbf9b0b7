------------------------------- MODULE Lifecycle -------------------------------
(***************************************************************************)
(* The life of one service process: servicekit.Main builds the service,    *)
(* starts it, waits for a signal or a fatal listener error, and tears it   *)
(* down through run.Closer, last registered first, within one budget.      *)
(*                                                                         *)
(* Concurrent with main: the worker goroutines, the requests the public    *)
(* HTTP servers are serving, a watcher per public server (watchServe), and *)
(* runMain's fatal watch.  Workers and requests use the resources that the *)
(* teardown closes: the pg pool, the kafka producer and the consumers'     *)
(* kafka clients.  The log, telemetry and profiler entries of the closer   *)
(* are left out: nothing modelled here depends on them.                    *)
(***************************************************************************)
EXTENDS Naturals, Sequences, FiniteSets

CONSTANTS
  Workers,            \* goroutines registered before Start
  Servers,            \* public HTTP servers, a sequence of names
  Requests,           \* requests that clients may send
  InboxCleanup,       \* INBOX_CLEANUP_INTERVAL > 0 and the service has a pool
  Faulty              \* binds and builds may fail, listeners may die

\* A server is known by a name of its own, which no other closer has.
ASSUME LifeAssumption ==
  /\ Servers \in Seq(STRING)
  /\ \A i, j \in 1..Len(Servers) : Servers[i] = Servers[j] => i = j
  /\ \A i \in 1..Len(Servers) :
       Servers[i] \notin {"admin", "pg", "kafka", "consumer", "consumers-cancel", "drain-gate"}
  /\ {InboxCleanup, Faulty} \subseteq BOOLEAN

VARIABLES
  adminBindOptional,  \* Config.AdminBindOptional, from the environment
  main,       \* where runMain is
  started,    \* Service.started
  goroutines, \* Service.goroutines: the registered ones
  next,       \* the next public server Start starts
  closer,     \* Closer.items
  phase,      \* of the teardown in progress: "next" item or "wait"ing in it
  expired,    \* the teardown budget is spent
  errs,       \* Close has collected an error
  failed,     \* Start returned an error
  open,       \* the resources not yet closed
  ready,      \* /readyz is not forced to 503
  cancelled,  \* runCtx
  listener,   \* per public server
  notify,     \* Server.serveErr, per public server
  watcher,    \* watchServe, per public server
  fatal,      \* Service.fatal holds an error
  watch,      \* runMain's fatal watch
  fatalSeen,
  ctxDone,    \* the context run.Run waits on
  signals,    \* termination signals received
  worker,     \* per worker
  request,    \* per request
  at,         \* the server a request came to
  refused,    \* somebody met a resource that was already closed
  code        \* exit code

boot == <<adminBindOptional, main, started, goroutines, next, failed, code>>
teardown == <<closer, phase, expired, errs, open, ready>>
serving == <<listener, notify, watcher>>
ending == <<fatal, watch, fatalSeen, ctxDone, signals, cancelled>>
using == <<worker, request, at, refused>>
vars == <<boot, teardown, serving, ending, using>>

ServerNames == {Servers[i] : i \in 1..Len(Servers)}
Resources == {"admin", "pg", "kafka", "consumer"}
Late == "inbox-cleanup"
Top == closer[Len(closer)]
Alive == main # "exited"

Init ==
  /\ adminBindOptional \in BOOLEAN
  /\ main = "build" /\ started = FALSE /\ goroutines = {} /\ next = 1
  /\ failed = FALSE /\ code = 0
  /\ closer = <<>> /\ phase = "next" /\ expired = FALSE /\ errs = FALSE
  /\ open = {} /\ ready = TRUE
  /\ listener = [s \in ServerNames |-> "none"]
  /\ notify = [s \in ServerNames |-> "empty"]
  /\ watcher = [s \in ServerNames |-> "none"]
  /\ fatal = FALSE /\ watch = "none" /\ fatalSeen = FALSE /\ ctxDone = FALSE
  /\ signals = 0 /\ cancelled = FALSE
  /\ worker = [w \in Workers \cup {Late} |-> "none"]
  /\ request = [r \in Requests |-> "none"]
  /\ at = [r \in Requests |-> Servers[1]]
  /\ refused = FALSE

--------------------------------------------------------------------------------
(* Building and starting. *)

\* What New and the application's Add calls register.
NewClosers == <<"admin", "pg", "kafka">>
AddConsumer(items) == Append(items, "consumer")
AddWorker == Workers

\* New and the application's Add calls: resources open, with a closer each.
Build ==
  /\ main = "build"
  /\ main' = "admin"
  /\ closer' = AddConsumer(NewClosers)
  /\ open' = {"pg", "kafka", "consumer"}
  /\ goroutines' = AddWorker
  /\ UNCHANGED <<adminBindOptional, started, next, failed, code, phase,
                 expired, errs, ready, serving, ending, using>>

BuildFails ==
  /\ Faulty /\ main = "build"
  /\ main' = "exited" /\ code' = 1
  /\ UNCHANGED <<adminBindOptional, started, goroutines, next, failed,
                 teardown, serving, ending, using>>

\* Start first marks the service started, then binds the admin server.
StartAdmin ==
  /\ main = "admin"
  /\ started' = TRUE
  /\ \/ main' = "launch" /\ open' = open \cup {"admin"} /\ UNCHANGED failed
     \/ /\ Faulty
        /\ main' = IF adminBindOptional THEN "launch" ELSE "closing"
        /\ failed' = ~adminBindOptional
        /\ UNCHANGED open
  /\ UNCHANGED <<adminBindOptional, goroutines, next, code, closer, phase,
                 expired, errs, ready, serving, ending, using>>

\* AddPeriodicWorker refuses a service that has started; the error is dropped.
AddPeriodicWorker(g) == IF started THEN goroutines ELSE goroutines \cup {g}

registerInboxCleanup ==
  IF InboxCleanup THEN AddPeriodicWorker(Late) ELSE goroutines

\* The closers that stop the goroutines, the servers, and the traffic.
ConsumersCancelAdded == Append(closer, "consumers-cancel")

Launch ==
  /\ main = "launch"
  /\ goroutines' = registerInboxCleanup
  /\ worker' = [w \in DOMAIN worker |-> IF w \in goroutines' THEN "idle" ELSE "none"]
  /\ closer' = ConsumersCancelAdded
  /\ main' = "servers"
  /\ UNCHANGED <<adminBindOptional, started, next, failed, code, phase,
                 expired, errs, open, ready, serving, ending, request, at,
                 refused>>

ServerAdded(s) == Append(closer, s)

StartServer ==
  /\ main = "servers" /\ next <= Len(Servers)
  /\ LET s == Servers[next] IN
       /\ listener' = [listener EXCEPT ![s] = "serving"]
       /\ watcher' = [watcher EXCEPT ![s] = "running"]
       /\ closer' = ServerAdded(s)
       /\ next' = next + 1
  /\ UNCHANGED <<adminBindOptional, main, started, goroutines, failed, code,
                 phase, expired, errs, open, ready, notify, ending, using>>

StartServerFails ==
  /\ Faulty /\ main = "servers" /\ next <= Len(Servers)
  /\ cancelled' = TRUE /\ failed' = TRUE /\ main' = "closing"
  /\ UNCHANGED <<adminBindOptional, started, goroutines, next, code, teardown,
                 serving, fatal, watch, fatalSeen, ctxDone, signals, using>>

DrainGateAdded == Append(closer, "drain-gate")

\* Start returns; runMain starts its fatal watch and enters run.Run.
Started ==
  /\ main = "servers" /\ next > Len(Servers)
  /\ closer' = DrainGateAdded
  /\ watch' = "waiting"
  /\ main' = "run"
  /\ UNCHANGED <<adminBindOptional, started, goroutines, next, failed, code,
                 phase, expired, errs, open, ready, serving, fatal, fatalSeen,
                 ctxDone, signals, cancelled, using>>

--------------------------------------------------------------------------------
(* What ends the process: signals, and a listener that dies. *)

Signal ==
  /\ main = "run" /\ ~ctxDone
  /\ signals' = signals + 1 /\ ctxDone' = TRUE
  /\ UNCHANGED <<boot, teardown, serving, fatal, watch, fatalSeen, cancelled,
                 using>>

\* A signal during the teardown quits at once.
HardQuit ==
  /\ main = "closing" /\ ~failed
  /\ signals' = signals + 1 /\ main' = "exited" /\ code' = 1
  /\ UNCHANGED <<adminBindOptional, started, goroutines, next, failed,
                 teardown, serving, fatal, watch, fatalSeen, ctxDone,
                 cancelled, using>>

ListenerDies(s) ==
  /\ Faulty /\ Alive /\ listener[s] = "serving"
  /\ listener' = [listener EXCEPT ![s] = "dead"]
  /\ notify' = [notify EXCEPT ![s] = "error"]
  /\ UNCHANGED <<boot, teardown, watcher, ending, using>>

\* watchServe: forwards one serve error; ends on the closed channel or runCtx.
WatchServe(s) ==
  /\ Alive /\ watcher[s] = "running"
  /\ \/ /\ notify[s] = "error"
        /\ ready' = FALSE /\ fatal' = TRUE
     \/ /\ notify[s] = "closed" \/ cancelled
        /\ UNCHANGED <<ready, fatal>>
  /\ watcher' = [watcher EXCEPT ![s] = "done"]
  /\ UNCHANGED <<boot, closer, phase, expired, errs, open, listener, notify,
                 watch, fatalSeen, ctxDone, signals, cancelled, using>>

\* The fatal watch cancels before it records why.
FatalWatchCancelsFirst ==
  /\ Alive
  /\ \/ watch = "waiting" /\ fatal
        /\ ctxDone' = TRUE /\ watch' = "seen" /\ fatal' = FALSE
        /\ UNCHANGED fatalSeen
     \/ watch = "seen" /\ fatalSeen' = TRUE /\ watch' = "done"
        /\ UNCHANGED <<ctxDone, fatal>>
  /\ UNCHANGED <<boot, teardown, serving, signals, cancelled, using>>

\* runMain's fatal watch: remember, then cancel.
FatalWatch ==
  /\ Alive
  /\ \/ watch = "waiting" /\ fatal
        /\ fatalSeen' = TRUE /\ watch' = "seen" /\ fatal' = FALSE
        /\ UNCHANGED ctxDone
     \/ watch = "seen" /\ ctxDone' = TRUE /\ watch' = "done"
        /\ UNCHANGED <<fatalSeen, fatal>>
  /\ UNCHANGED <<boot, teardown, serving, signals, cancelled, using>>

\* run.Run wakes up and starts Close under a fresh budget.
RunWakes ==
  /\ main = "run" /\ ctxDone
  /\ main' = "closing"
  /\ UNCHANGED <<adminBindOptional, started, goroutines, next, failed, code,
                 teardown, serving, ending, using>>

--------------------------------------------------------------------------------
(* The teardown. *)

InFlight(s) == {r \in Requests : at[r] = s /\ request[r] \in {"running", "using"}}
Holders == {w \in DOMAIN worker : worker[w] = "using"}
             \cup {r \in Requests : request[r] = "using"}
GoroutinesDone ==
  /\ \A w \in DOMAIN worker : worker[w] \in {"none", "done"}
  /\ \A s \in ServerNames : watcher[s] # "running"

BudgetExpires ==
  /\ main = "closing" /\ ~expired
  /\ expired' = TRUE
  /\ UNCHANGED <<boot, closer, phase, errs, open, ready, serving, ending, using>>

\* Close calls the next teardown function: what it does before it waits.
CloseBegins ==
  /\ main = "closing" /\ closer # <<>> /\ phase = "next"
  /\ phase' = "wait"
  /\ errs' = (errs \/ expired)
  /\ ready' = (ready /\ Top # "drain-gate")
  /\ cancelled' = (cancelled \/ Top = "consumers-cancel")
  /\ open' = open \ {Top}
  /\ listener' = [s \in ServerNames |-> IF s = Top THEN "shut" ELSE listener[s]]
  /\ UNCHANGED <<boot, closer, expired, notify, watcher, fatal, watch,
                 fatalSeen, ctxDone, signals, using>>

\* consumers-cancel does not wait for the goroutines to be gone.
DrainedNoWait ==
  CASE Top \in ServerNames -> InFlight(Top) = {}
    [] Top = "pg" -> Holders = {}
    [] OTHER -> TRUE

\* What the teardown function waits for.
Drained ==
  CASE Top \in ServerNames -> InFlight(Top) = {}
    [] Top = "consumers-cancel" -> GoroutinesDone
    [] Top = "pg" -> Holders = {}
    [] OTHER -> TRUE

\* A wait that nothing bounds.
GivesUpNever == FALSE

\* Those that watch their context give up with an error when the budget is
\* spent; pg.Pool.Close does not look at its context.
GivesUp == expired /\ Top \in ServerNames \cup {"consumers-cancel", "kafka"}

\* Close returns at the first error.
RemainingIfNoError == IF errs' THEN <<>> ELSE SubSeq(closer, 1, Len(closer) - 1)

\* Every teardown function runs, whatever the others returned.
Remaining == SubSeq(closer, 1, Len(closer) - 1)

CloseEnds ==
  /\ main = "closing" /\ closer # <<>> /\ phase = "wait"
  /\ (Drained /\ UNCHANGED errs) \/ (GivesUp /\ errs' = TRUE)
  /\ phase' = "next"
  /\ closer' = Remaining
  /\ notify' = [s \in ServerNames |->
                  IF s = Top /\ notify[s] = "empty" THEN "closed" ELSE notify[s]]
  /\ UNCHANGED <<boot, expired, open, ready, listener, watcher, ending, using>>

\* Close has returned; runMain chooses the exit code.
Exit ==
  /\ main = "closing" /\ closer = <<>>
  /\ main' = "exited"
  /\ code' = IF failed \/ errs \/ fatalSeen THEN 1 ELSE 0
  /\ UNCHANGED <<adminBindOptional, started, goroutines, next, failed,
                 teardown, serving, ending, using>>

--------------------------------------------------------------------------------
(* Workers and requests. *)

Uses(r) == refused' = (refused \/ r \notin open)

\* A worker's step takes a pg connection for a while; the pool refuses a new
\* one once Close has begun.
WorkerAcquires(w) ==
  /\ Alive /\ worker[w] = "idle" /\ ~cancelled
  /\ Uses("pg")
  /\ worker' = [worker EXCEPT ![w] = IF "pg" \in open THEN "using" ELSE "idle"]
  /\ UNCHANGED <<boot, teardown, serving, ending, request, at>>

WorkerReleases(w) ==
  /\ Alive /\ worker[w] = "using"
  /\ worker' = [worker EXCEPT ![w] = "idle"]
  /\ UNCHANGED <<boot, teardown, serving, ending, request, at, refused>>

\* On cancellation a consumer commits its offsets and returns.
WorkerExits(w) ==
  /\ Alive /\ worker[w] = "idle" /\ cancelled
  /\ Uses("consumer")
  /\ worker' = [worker EXCEPT ![w] = "done"]
  /\ UNCHANGED <<boot, teardown, serving, ending, request, at>>

RequestArrives(r, s) ==
  /\ Alive /\ request[r] = "none" /\ listener[s] = "serving"
  /\ request' = [request EXCEPT ![r] = "running"]
  /\ at' = [at EXCEPT ![r] = s]
  /\ UNCHANGED <<boot, teardown, serving, ending, worker, refused>>

RequestAcquires(r) ==
  /\ Alive /\ request[r] = "running"
  /\ Uses("pg")
  /\ request' = [request EXCEPT ![r] = IF "pg" \in open THEN "using" ELSE "running"]
  /\ UNCHANGED <<boot, teardown, serving, ending, worker, at>>

\* The handler releases its connection, publishes, and answers.
RequestFinishes(r) ==
  /\ Alive /\ request[r] = "using"
  /\ Uses("kafka")
  /\ request' = [request EXCEPT ![r] = "done"]
  /\ UNCHANGED <<boot, teardown, serving, ending, worker, at>>

RequestFails(r) ==
  /\ Alive /\ request[r] = "running" /\ "pg" \notin open
  /\ request' = [request EXCEPT ![r] = "done"]
  /\ UNCHANGED <<boot, teardown, serving, ending, worker, at, refused>>

Gone == ~Alive /\ UNCHANGED vars

Main ==
  \/ Build \/ StartAdmin \/ Launch \/ StartServer \/ Started \/ RunWakes
  \/ CloseBegins \/ CloseEnds \/ Exit
Environment ==
  \/ BuildFails \/ StartServerFails \/ Signal \/ HardQuit
  \/ \E s \in ServerNames : ListenerDies(s)
  \/ \E r \in Requests, s \in ServerNames : RequestArrives(r, s)
WorkerSteps(w) == WorkerAcquires(w) \/ WorkerReleases(w) \/ WorkerExits(w)
RequestSteps(r) == RequestAcquires(r) \/ RequestFinishes(r) \/ RequestFails(r)

Next ==
  \/ Main \/ Environment \/ FatalWatch \/ BudgetExpires
  \/ \E s \in ServerNames : WatchServe(s)
  \/ \E w \in DOMAIN worker : WorkerSteps(w)
  \/ \E r \in Requests : RequestSteps(r)
  \/ Gone

Spec == Init /\ [][Next]_vars

--------------------------------------------------------------------------------
(* Properties. *)

\* Types of the variables.
TypeOK ==
  /\ main \in {"build", "admin", "launch", "servers", "run", "closing", "exited"}
  /\ {started, failed, expired, errs, ready, fatal, fatalSeen, ctxDone, cancelled,
      refused} \subseteq BOOLEAN
  /\ goroutines \subseteq Workers \cup {Late}
  /\ next \in 1..Len(Servers) + 1 /\ code \in {0, 1} /\ signals \in 0..2
  /\ \A i \in 1..Len(closer) :
       closer[i] \in Resources \cup ServerNames \cup {"consumers-cancel", "drain-gate"}
  /\ phase \in {"next", "wait"} /\ open \subseteq Resources
  /\ listener \in [ServerNames -> {"none", "serving", "dead", "shut"}]
  /\ notify \in [ServerNames -> {"empty", "error", "closed"}]
  /\ watcher \in [ServerNames -> {"none", "running", "done"}]
  /\ watch \in {"none", "waiting", "seen", "done"}
  /\ worker \in [Workers \cup {Late} -> {"none", "idle", "using", "done"}]
  /\ request \in [Requests -> {"none", "running", "using", "done"}]
  /\ at \in [Requests -> ServerNames]

\* While the budget lasts, no request in flight and no worker, a consumer's
\* last offset commit included, meets a resource that was already closed: the
\* LIFO order of the closers and their waits keep users ahead of what they use.
NoUseAfterClose == refused => expired

\* In the shutdown of a started service no public listener is shut before
\* /readyz says 503, and the admin server answers until the last one is shut.
ProbesSeeTheDrain ==
  \A s \in ServerNames :
    /\ listener[s] = "shut" /\ ~failed => ~ready
    /\ listener[s] \in {"serving", "dead"} /\ started /\ ~adminBindOptional
         => "admin" \in open

\* Users stay ahead of the resources they use, and probes ahead of the users
\* (the drain gate, the waits and the order of the closers).
TeardownOrder == NoUseAfterClose /\ ProbesSeeTheDrain

\* When Close has worked through its list nothing is left behind, whichever
\* step of Start failed: every listener that was bound is shut, every resource
\* closed, and unless the budget ran out every goroutine and request is over.
NothingLeftBehind ==
  main = "closing" /\ closer = <<>> =>
    /\ open = {}
    /\ \A s \in ServerNames : listener[s] \in {"none", "shut"}
    /\ expired \/ (GoroutinesDone /\ \A s \in ServerNames : InFlight(s) = {})

\* Exit code 0 is only given to a shutdown that was asked for by a signal and
\* that left no goroutine or request running; a process that stops because its
\* listener died exits with 1.
ExitCodeHonest ==
  main = "exited" /\ code = 0 =>
    /\ signals > 0 /\ ~failed
    /\ \A w \in DOMAIN worker : worker[w] \in {"none", "done"}
    /\ \A s \in ServerNames : InFlight(s) = {}

\* A teardown that has begun ends, even when goroutines and requests ignore
\* it, as long as pg connections are given back.
ShutdownCompletes == main = "closing" ~> main = "exited"

\* A public listener that dies brings the process down: the pod is not left
\* running, alive and not ready.
DeadListenerEndsProcess ==
  (\E s \in ServerNames : listener[s] = "dead") ~> main = "exited"

\* "Register inbox cleanup if configured": a started service runs it.
InboxCleanupRuns == main = "run" /\ InboxCleanup => Late \in goroutines
================================================================================
