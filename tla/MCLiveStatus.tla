------------------------------ MODULE MCLiveStatus ------------------------------
(* Instances of LiveStatus: two clients and one permit; one client over a      *)
(* lagging replica with anything failing, with current reads, or without Redis.*)
EXTENDS LiveStatus

CONSTANTS c1, c2

VARIABLE setup  \* "pair", "rough", "current" or "polling"

all == <<vars, setup>>

Mode(redis, current) == [redis |-> redis, lag |-> ~current, bestEffort |-> ~current]

\* How much happens: one event and no fault with two clients, one fault over a
\* lagging replica.
In(s, A) ==
    /\ setup = s /\ A /\ UNCHANGED <<mode, setup>>
    /\ IF s = "pair" THEN Len(notify') <= 1 /\ faults' = 0 ELSE UNCHANGED str[c2]
    /\ s # "current" => faults' <= 1

MCInit ==
    /\ Init
    /\ \/ setup \in {"pair", "rough"} /\ mode = Mode(TRUE, FALSE)
       \/ setup = "current" /\ mode = Mode(TRUE, TRUE)
       \/ setup = "polling" /\ mode = Mode(FALSE, FALSE)

MCNext == \E s \in {"pair", "rough", "current", "polling"} : In(s, Next)

\* Handlers, the subscriber loop, the safety poll's ticker and replication run;
\* a select serves each of its ready channels sooner or later.
MCSpec ==
    /\ MCInit /\ [][MCNext]_all
    /\ WF_all(In("rough", Step(c1))) /\ SF_all(In("rough", Poll(c1)))
    /\ SF_all(In("rough", draining /\ Close(c1)))
    /\ WF_all(In("rough", Replicate)) /\ WF_all(In("rough", Subscribe))
    /\ WF_all(In("rough", BroadcastRefresh)) /\ WF_all(In("rough", dispatch))
    /\ WF_all(In("polling", Step(c1))) /\ SF_all(In("polling", Poll(c1)))
    /\ WF_all(In("polling", Replicate))

--------------------------------------------------------------------------------
\* A client that stays connected learns the final status, with Redis and
\* without, whatever broadcasts are lost: "a stream can never silently stall"
\* (package documentation). A drain ends its stream.
StreamSettles ==
    /\ (setup \in {"rough", "polling"} /\ store \in Terminal /\ c1 \in Active)
           ~> (seen[c1].ord = 2 \/ c1 \notin Active)
    /\ (setup = "rough" /\ draining) ~> (c1 \notin Active)
================================================================================
