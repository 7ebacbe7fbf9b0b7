------------------------------ MODULE MCOrderSaga ------------------------------
(* Instance of OrderSaga: two requests that share a key and differ in the     *)
(* body, one request and two instances of the watcher, or a dead letter.      *)
EXTENDS OrderSaga, TLC

CONSTANTS o1, r1, r2

VARIABLE setup  \* "posts", "race" or "redrive"

\* Amounts 1 and 2: below and at the decline threshold 2
SameKey == (r1 :> [order |-> o1, amount |-> 1]) @@ (r2 :> [order |-> o1, amount |-> 2])

all == <<vars, setup>>

\* Only with "race" is the second watcher up and may a produce attempt fail,
\* only with "posts" is r2 sent, and only with "redrive" is a record
\* dead-lettered or duplicated.
Step(A) ==
    /\ A /\ UNCHANGED setup
    /\ setup # "race" => UNCHANGED cand["w2"] /\ req'[r1].tries + req'[r2].tries = 0
    /\ setup # "posts" => UNCHANGED req[r2]
    /\ setup # "redrive" => UNCHANGED dead

MCInit == Init /\ setup \in {"posts", "race", "redrive"}

MCNext == Step(Next)

\* Requests are answered, consumers make progress (their position advances in
\* the end), the clock runs, the watcher polls and an operator redrives dead
\* letters.
MCSpec ==
    /\ MCInit /\ [][MCNext]_all
    /\ \A r \in Requests : WF_all(Step(Server(r)))
    /\ \A s \in Subscriptions, o \in Orders :
         WF_all(Step(Consume(s, o) /\ pos' # pos))
    /\ \A o \in Orders : WF_all(Step(Expire(o)))
    /\ \A w \in Watchers : WF_all(Step(Watch(w)))
    /\ WF_all(Step(\E d \in dlt : Redrive(d) /\ dlt' # dlt))
================================================================================
