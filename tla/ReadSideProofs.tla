---------------------------- MODULE ReadSideProofs ----------------------------
(***************************************************************************)
(* What the readers of an order may rely on, proved for every value of the *)
(* constants.                                                              *)
(*                                                                         *)
(* The live status (LiveStatus): what a client is shown only moves         *)
(* forward, a final status it is shown is the order's own, and when reads  *)
(* are current and Notify succeeds there is no window in which the final   *)
(* status can be missed.                                                   *)
(*                                                                         *)
(* The two-tier cache (TwoTierCache): answers are of bounded staleness,    *)
(* Delete and its broadcast leave the old row nowhere but for the          *)
(* documented windows, and a cancellation stays with its query.            *)
(***************************************************************************)
EXTENDS LiveStatus, TwoTierCache, TLAPS

USE Zenon

Known == {"none"} \cup Statuses
Said == Known \cup {""}
Places == {"off", "notfound", "register", "snapshot", "send", "loop", "read"}

Modes == [redis : BOOLEAN, lag : BOOLEAN, bestEffort : BOOLEAN]
Notifies == [event : {"created"} \cup Terminal, read : Said \cup {"done"}]
Streams == [at : Places, status : Said, last : -1..2]
Slots == [reg : BOOLEAN, status : Said, refresh : BOOLEAN, woken : BOOLEAN]
Events == [status : Said, ord : -1..2]

\* Types of the state.
LiveType ==
    /\ mode \in Modes /\ store \in Known /\ replica \in Known
    /\ notify \in Seq(Notifies) /\ sub \in {"off", "down", "acked", "live"}
    /\ conn \in Seq(Known)
    /\ str \in [Clients -> Streams] /\ slot \in [Clients -> Slots]
    /\ seen \in [Clients -> Events]

\* A final status that is read, sent or kept anywhere is the order's own.
Says(status) == status \in Terminal => status = store

\* The final status is on its way to the streams: a Notify will read it or has
\* read it, a broadcast carries it, or a subscription's refresh will.
Coming ==
    \/ \E k \in DOMAIN notify : notify[k].read = "" \/ notify[k].read = store
    \/ \E k \in DOMAIN conn : conn[k] = store
    \/ sub # "live"

\* It has come to the stream.
AtHand(c) ==
    \/ str[c].at = "read"
    \/ str[c].at = "send" /\ str[c].status = store
    \/ slot[c].woken /\ slot[c].refresh
    \/ slot[c].woken /\ slot[c].status = store

Prompt == ~mode.lag /\ ~mode.bestEffort

Opened(c) == str[c].at \in {"send", "loop", "read"}

\* A stream past its snapshot has sent the final status, or it is at hand or
\* coming.
Window(c) ==
    Prompt /\ store \in Terminal /\ Opened(c) /\ str[c].last # 2 => AtHand(c) \/ Coming

ClientInv(c) ==
    /\ Says(slot[c].status) /\ Says(str[c].status) /\ Says(seen[c].status)
    /\ str[c].at \notin {"off", "notfound"} => str[c].last = seen[c].ord
    /\ str[c].at = "register" => mode.redis
    /\ mode.redis /\ (str[c].at = "snapshot" \/ Opened(c)) => slot[c].reg
    /\ Window(c)

SharedInv ==
    /\ Says(replica)
    /\ \A k \in DOMAIN notify : Says(notify[k].read)
    /\ \A k \in DOMAIN conn : Says(conn[k])
    /\ ~mode.lag => replica = store
    /\ ~mode.redis => sub = "off"

LiveInv == LiveType /\ SharedInv /\ \A c \in Clients : ClientInv(c)

--------------------------------------------------------------------------------
(* Statuses and their order.                                                *)

LEMMA Finals ==
    /\ Terminal \subseteq Known /\ Known \subseteq Said
    /\ "none" \in Known /\ "pending" \in Known /\ "created" \in Known /\ "" \in Said
    /\ "none" \notin Terminal /\ "" \notin Terminal /\ "done" \notin Terminal
    /\ "created" \notin Terminal /\ "pending" \notin Terminal
  BY DEF Terminal, Known, Said, Statuses

\* statusOrdinal ranks the final statuses above all others.
LEMMA Ordinals ==
    ASSUME NEW s \in Said
    PROVE  statusOrdinal(s) \in -1..2 /\ (statusOrdinal(s) = 2 <=> s \in Terminal)
<1>1. CASE s \in Terminal
  <2>1. statusOrdinal(s) = 2
    BY <1>1 DEF Terminal, statusOrdinal
  <2> QED  BY SMT, <1>1, <2>1
<1>2. CASE s = "pending" \/ s = "created"
  <2>1. s \notin Terminal
    BY <1>2, Finals
  <2>2. statusOrdinal(s) = 0 \/ statusOrdinal(s) = 1
    BY <1>2, <2>1 DEF statusOrdinal
  <2> QED  BY SMT, <2>1, <2>2
<1>3. CASE s = "none" \/ s = ""
  <2>1. s \notin Terminal /\ s # "pending" /\ s # "created"
    BY <1>3, Finals
  <2>2. statusOrdinal(s) = -1
    BY <2>1 DEF statusOrdinal
  <2> QED  BY SMT, <2>1, <2>2
<1> QED  BY <1>1, <1>2, <1>3 DEF Said, Known, Statuses

\* deliver and the re-read keep a final status.
LEMMA HigherIs ==
    ASSUME NEW s \in Said, NEW t \in Said
    PROVE  /\ Higher(s, t) \in Said /\ (Higher(s, t) = s \/ Higher(s, t) = t)
           /\ t \in Terminal => (Higher(s, t) = t \/ s \in Terminal)
           /\ s \in Terminal => Higher(s, t) = s
<1>1. /\ statusOrdinal(s) \in -1..2 /\ (statusOrdinal(s) = 2 <=> s \in Terminal)
      /\ statusOrdinal(t) \in -1..2 /\ (statusOrdinal(t) = 2 <=> t \in Terminal)
  BY Ordinals
<1>2. CASE statusOrdinal(t) > statusOrdinal(s)
  <2>1. Higher(s, t) = t
    BY <1>2 DEF Higher
  <2>2. s \notin Terminal
    BY SMT, <1>1, <1>2
  <2> QED  BY <2>1, <2>2
<1>3. CASE ~(statusOrdinal(t) > statusOrdinal(s))
  <2>1. Higher(s, t) = s
    BY <1>3 DEF Higher
  <2>2. t \in Terminal => s \in Terminal
    BY SMT, <1>1, <1>3
  <2> QED  BY <2>1, <2>2
<1> QED  BY <1>2, <1>3

--------------------------------------------------------------------------------
(* What the steps do to a stream and to its slot.                            *)

MovesTo(c, at, status, last) ==
    /\ str' \in [Clients -> Streams]
    /\ str'[c].at = at /\ str'[c].status = status /\ str'[c].last = last
    /\ \A d \in Clients : d # c => str'[d] = str[d]

SlotIs(c, reg, status, refresh, woken) ==
    /\ slot' \in [Clients -> Slots]
    /\ slot'[c].reg = reg /\ slot'[c].status = status
    /\ slot'[c].refresh = refresh /\ slot'[c].woken = woken
    /\ \A d \in Clients : d # c => slot'[d] = slot[d]

LEMMA FlagSet ==
    ASSUME NEW sl \in Slots, NEW b \in BOOLEAN
    PROVE  /\ [sl EXCEPT !.reg = b] \in Slots
           /\ [sl EXCEPT !.reg = b].reg = b
           /\ [sl EXCEPT !.reg = b].status = sl.status
  BY SMT DEF Slots

LEMMA RefreshSet ==
    ASSUME NEW sl \in Slots, NEW b \in BOOLEAN
    PROVE  /\ [sl EXCEPT !.refresh = b] \in Slots
           /\ [sl EXCEPT !.refresh = b].refresh = b
           /\ [sl EXCEPT !.refresh = b].reg = sl.reg
           /\ [sl EXCEPT !.refresh = b].status = sl.status
  BY SMT DEF Slots

LEMMA WokenSet ==
    ASSUME NEW sl \in Slots, NEW b \in BOOLEAN
    PROVE  /\ [sl EXCEPT !.woken = b] \in Slots
           /\ [sl EXCEPT !.woken = b].woken = b
           /\ [sl EXCEPT !.woken = b].reg = sl.reg
           /\ [sl EXCEPT !.woken = b].status = sl.status
           /\ [sl EXCEPT !.woken = b].refresh = sl.refresh
  BY SMT DEF Slots

LEMMA StatusSet ==
    ASSUME NEW sl \in Slots, NEW h \in Said
    PROVE  /\ [sl EXCEPT !.status = h] \in Slots
           /\ [sl EXCEPT !.status = h].status = h
           /\ [sl EXCEPT !.status = h].reg = sl.reg
           /\ [sl EXCEPT !.status = h].refresh = sl.refresh
  BY SMT DEF Slots

LEMMA Woken ==
    ASSUME NEW sl \in Slots
    PROVE  /\ markRefresh(sl) \in Slots
           /\ markRefresh(sl).reg = sl.reg /\ markRefresh(sl).status = sl.status
           /\ markRefresh(sl).refresh = TRUE /\ markRefresh(sl).woken = TRUE
<1>1. PICK g : g = [sl EXCEPT !.refresh = TRUE]
  OBVIOUS
<1>2. g \in Slots /\ g.reg = sl.reg /\ g.status = sl.status /\ g.refresh = TRUE
  BY <1>1, RefreshSet
<1>3. markRefresh(sl) = [g EXCEPT !.woken = TRUE]
  BY SMT, <1>1 DEF markRefresh
<1> QED  BY <1>2, <1>3, WokenSet

LEMMA Typed ==
    ASSUME LiveType, NEW c \in Clients
    PROVE  /\ str[c] \in Streams /\ str[c].at \in Places /\ str[c].status \in Said
           /\ str[c].last \in -1..2
           /\ slot[c] \in Slots /\ slot[c].reg \in BOOLEAN /\ slot[c].status \in Said
           /\ slot[c].refresh \in BOOLEAN /\ slot[c].woken \in BOOLEAN
           /\ seen[c] \in Events /\ seen[c].status \in Said /\ seen[c].ord \in -1..2
<1>1. str[c] \in Streams /\ slot[c] \in Slots /\ seen[c] \in Events
  BY DEF LiveType
<1>2. str[c].at \in Places /\ str[c].status \in Said /\ str[c].last \in -1..2
  BY <1>1 DEF Streams
<1>3. /\ slot[c].reg \in BOOLEAN /\ slot[c].status \in Said
      /\ slot[c].refresh \in BOOLEAN /\ slot[c].woken \in BOOLEAN
  BY <1>1 DEF Slots
<1>4. seen[c].status \in Said /\ seen[c].ord \in -1..2
  BY <1>1 DEF Events
<1> QED  BY <1>1, <1>2, <1>3, <1>4

\* A stream set to a record, and a slot.
LEMMA Moved ==
    ASSUME LiveType, NEW c \in Clients,
           NEW at \in Places, NEW status \in Said, NEW last \in -1..2,
           str' = [str EXCEPT ![c] = [at |-> at, status |-> status, last |-> last]]
    PROVE  MovesTo(c, at, status, last)
<1>1. [at |-> at, status |-> status, last |-> last] \in Streams
  BY DEF Streams
<1>2. str' \in [Clients -> Streams]
  BY <1>1 DEF LiveType
<1>3. str'[c] = [at |-> at, status |-> status, last |-> last]
  BY DEF LiveType
<1>4. str'[c].at = at /\ str'[c].status = status /\ str'[c].last = last
  BY SMT, <1>3
<1>5. \A d \in Clients : d # c => str'[d] = str[d]
  BY DEF LiveType
<1> QED  BY <1>2, <1>4, <1>5 DEF MovesTo

LEMMA SlotSet ==
    ASSUME LiveType, NEW c \in Clients, NEW reg \in BOOLEAN, NEW status \in Said,
           NEW refresh \in BOOLEAN, NEW woken \in BOOLEAN,
           slot' = [slot EXCEPT ![c] = [reg |-> reg, status |-> status,
                                        refresh |-> refresh, woken |-> woken]]
    PROVE  SlotIs(c, reg, status, refresh, woken)
<1>1. [reg |-> reg, status |-> status, refresh |-> refresh, woken |-> woken] \in Slots
  BY DEF Slots
<1>2. slot' \in [Clients -> Slots]
  BY <1>1 DEF LiveType
<1>3. slot'[c] = [reg |-> reg, status |-> status, refresh |-> refresh, woken |-> woken]
  BY DEF LiveType
<1>4. /\ slot'[c].reg = reg /\ slot'[c].status = status
      /\ slot'[c].refresh = refresh /\ slot'[c].woken = woken
  BY SMT, <1>3
<1>5. \A d \in Clients : d # c => slot'[d] = slot[d]
  BY DEF LiveType
<1> QED  BY <1>2, <1>4, <1>5 DEF SlotIs

\* Register, Snapshot, Take, Reread and Poll move a stream on.
LEMMA Goes ==
    ASSUME LiveType, NEW c \in Clients, NEW at \in Places, NEW status \in Said,
           str' = [str EXCEPT ![c].at = at, ![c].status = status]
    PROVE  MovesTo(c, at, status, str[c].last)
<1>1. str \in [Clients -> Streams] /\ str[c] \in Streams
  BY Typed DEF LiveType
<1>2. str' \in [Clients -> Streams]
  <2>1. PICK g : g = [str EXCEPT ![c].at = at]
    OBVIOUS
  <2>2. g \in [Clients -> Streams]
    BY SMT, <1>1, <2>1 DEF Streams
  <2>3. str' = [g EXCEPT ![c].status = status]
    BY SMT, <1>1, <2>1
  <2>4. [g EXCEPT ![c].status = status] \in [Clients -> Streams]
    BY SMT, <2>2 DEF Streams
  <2> QED  BY <2>3, <2>4
<1>3. str'[c].at = at /\ str'[c].status = status /\ str'[c].last = str[c].last
  BY SMT, <1>1 DEF Streams
<1>4. \A d \in Clients : d # c => str'[d] = str[d]
  BY SMT, <1>1
<1> QED  BY <1>2, <1>3, <1>4 DEF MovesTo

LEMMA GoesOn ==
    ASSUME LiveType, NEW c \in Clients, NEW at \in Places, str' = [str EXCEPT ![c].at = at]
    PROVE  MovesTo(c, at, str[c].status, str[c].last)
<1>1. str \in [Clients -> Streams] /\ str[c] \in Streams
  BY Typed DEF LiveType
<1>2. str' \in [Clients -> Streams]
  BY SMT, <1>1 DEF Streams
<1>3. str'[c].at = at /\ str'[c].status = str[c].status /\ str'[c].last = str[c].last
  BY SMT, <1>1 DEF Streams
<1>4. \A d \in Clients : d # c => str'[d] = str[d]
  BY SMT, <1>1
<1> QED  BY <1>2, <1>3, <1>4 DEF MovesTo
--------------------------------------------------------------------------------
(* The invariant across a step of one stream.                                *)

\* A stream that does not move keeps what it knows, while nothing is lost on
\* the way to it.
LEMMA OthersKept ==
    ASSUME NEW d \in Clients, ClientInv(d),
           str'[d] = str[d], slot'[d] = slot[d], seen'[d] = seen[d],
           UNCHANGED <<mode, store, notify, conn>>,
           sub' = sub \/ sub' # "live"
    PROVE  ClientInv(d)'
<1>1. Says(slot[d].status)' /\ Says(str[d].status)' /\ Says(seen[d].status)'
  BY DEF ClientInv, Says
<1>2. /\ str'[d].at \notin {"off", "notfound"} => str'[d].last = seen'[d].ord
      /\ str'[d].at = "register" => mode'.redis
  BY DEF ClientInv
<1>3. mode'.redis /\ (str'[d].at = "snapshot" \/ Opened(d)') => slot'[d].reg
  BY DEF ClientInv, Opened
<1>4. Window(d)'
  <2>1. Coming => Coming'
    BY DEF Coming
  <2>2. AtHand(d) => AtHand(d)'
    BY DEF AtHand
  <2> QED  BY <2>1, <2>2 DEF ClientInv, Window, Prompt, Opened
<1> QED  BY <1>1, <1>2, <1>3, <1>4 DEF ClientInv

\* The broadcasts are as they were.
LEMMA SharedKept ==
    ASSUME SharedInv, UNCHANGED <<mode, store, replica, notify, conn>>,
           sub' = sub \/ mode.redis
    PROVE  SharedInv'
  BY DEF SharedInv, Says

\* A step of one stream: what is to be shown of that stream.
StreamStep(c) ==
    /\ UNCHANGED <<mode, store, replica, notify, conn>>
    /\ sub' = sub \/ (mode.redis /\ sub' = "down")
    /\ str' \in [Clients -> Streams] /\ slot' \in [Clients -> Slots]
    /\ seen' \in [Clients -> Events]
    /\ \A d \in Clients : d # c => /\ str'[d] = str[d] /\ slot'[d] = slot[d]
                                   /\ seen'[d] = seen[d]

LEMMA OneStream ==
    ASSUME LiveInv, NEW c \in Clients, StreamStep(c), ClientInv(c)'
    PROVE  LiveInv'
<1>1. LiveType'
  BY DEF LiveInv, LiveType, StreamStep
<1>2. SharedInv'
  BY SharedKept DEF LiveInv, StreamStep
<1>3. ASSUME NEW d \in Clients PROVE ClientInv(d)'
  <2>1. CASE d = c
    BY <2>1
  <2>2. CASE d # c
    BY <2>2, OthersKept DEF LiveInv, StreamStep
  <2> QED  BY <2>1, <2>2
<1> QED  BY <1>1, <1>2, <1>3 DEF LiveInv

\* Open: the stream starts where the client left off.
LEMMA OpenKeeps ==
    ASSUME LiveInv, NEW c \in Clients, UNCHANGED mode, Open(c)
    PROVE  LiveInv'
<1>1. LiveType /\ SharedInv /\ ClientInv(c)
  BY DEF LiveInv
<1>2. /\ UNCHANGED <<mode, store, replica, notify, sub, conn, slot, seen>>
      /\ slot \in [Clients -> Slots] /\ seen \in [Clients -> Events]
  BY <1>1 DEF Open, LiveType
<1>3. Says(slot[c].status)' /\ Says(seen[c].status)'
  BY <1>1, <1>2 DEF ClientInv, Says
<1>4. CASE replica = "none"
  <2>1. str' = [str EXCEPT ![c] = [at |-> "notfound", status |-> "", last |-> -1]]
    BY <1>4 DEF Open, currentStatus
  <2>2. "notfound" \in Places /\ "" \in Said
    BY DEF Places, Said
  <2>3. -1 \in -1..2
    BY SMT
  <2>4. MovesTo(c, "notfound", "", -1)
    BY <1>1, <2>1, <2>2, <2>3, Moved
  <2>5. ClientInv(c)'
    BY <1>3, <2>4, Finals DEF ClientInv, Says, MovesTo, Opened, Window
  <2>6. StreamStep(c)
    BY <1>2, <2>4 DEF StreamStep, MovesTo
  <2> QED  BY <2>5, <2>6, OneStream
<1>5. CASE replica # "none"
  <2>1. PICK at \in {"register", "snapshot"} :
          /\ at = "register" => mode.redis
          /\ at = "snapshot" => ~mode.redis
          /\ str' = [str EXCEPT ![c] = [at |-> at, status |-> replica, last |-> seen[c].ord]]
    BY <1>5 DEF Open, currentStatus
  <2>2. at \in Places /\ replica \in Said /\ seen[c].ord \in -1..2
    BY <1>1, <2>1, Finals, Typed DEF Places, LiveType
  <2>3. MovesTo(c, at, replica, seen[c].ord)
    BY <1>1, <2>1, <2>2, Moved
  <2>4. Says(str[c].status)'
    BY <1>1, <1>2, <2>3 DEF SharedInv, Says, MovesTo
  <2>5. ~Opened(c)'
    BY <2>1, <2>3 DEF MovesTo, Opened
  <2>6. str'[c].last = seen'[c].ord
    BY <1>2, <2>3 DEF MovesTo
  <2>7. (str'[c].at = "register" => mode'.redis) /\ (str'[c].at = "snapshot" => ~mode'.redis)
    BY <1>2, <2>1, <2>3 DEF MovesTo
  <2>8. ClientInv(c)'
    BY <1>3, <2>4, <2>5, <2>6, <2>7 DEF ClientInv, Window
  <2>9. StreamStep(c)
    BY <1>2, <2>3 DEF StreamStep, MovesTo
  <2> QED  BY <2>8, <2>9, OneStream
<1> QED  BY <1>4, <1>5

\* Register: the slot is in place before the snapshot is read.
LEMMA RegisterKeeps ==
    ASSUME LiveInv, NEW c \in Clients, UNCHANGED mode, Register(c)
    PROVE  LiveInv'
<1>1. LiveType /\ SharedInv /\ ClientInv(c)
  BY DEF LiveInv
<1>2. UNCHANGED <<mode, store, replica, notify, conn, seen>> /\ seen \in [Clients -> Events]
  BY <1>1 DEF Register, LiveType
<1>3. MovesTo(c, "snapshot", str[c].status, str[c].last)
  BY <1>1, GoesOn DEF Register, Places
<1>4. slot \in [Clients -> Slots] /\ slot[c] \in Slots
  BY <1>1, Typed DEF LiveType
<1>5. slot' = [slot EXCEPT ![c].reg = TRUE]
  BY DEF Register
<1>6. /\ slot' \in [Clients -> Slots] /\ slot'[c].reg = TRUE
      /\ slot'[c].status = slot[c].status
  <2>1. slot'[c] = [slot[c] EXCEPT !.reg = TRUE]
    BY <1>4, <1>5
  <2> QED  BY <1>4, <1>5, <2>1, FlagSet
<1>7. \A d \in Clients : d # c => slot'[d] = slot[d]
  BY SMT, <1>4, <1>5
<1>8. mode.redis /\ str[c].at = "register"
  BY <1>1 DEF Register, ClientInv
<1>9. sub' = sub \/ sub' = "down"
  BY DEF Register
<1>10. Says(str[c].status)' /\ Says(slot[c].status)' /\ Says(seen[c].status)'
  BY <1>1, <1>2, <1>3, <1>6 DEF ClientInv, Says, MovesTo
<1>11. str'[c].last = seen'[c].ord
  BY <1>1, <1>2, <1>3, <1>8 DEF ClientInv, MovesTo
<1>12. ClientInv(c)'
  BY <1>3, <1>6, <1>10, <1>11 DEF ClientInv, MovesTo, Window, Opened
<1>13. StreamStep(c)
  BY <1>2, <1>3, <1>6, <1>7, <1>8, <1>9 DEF StreamStep, MovesTo
<1> QED  BY <1>12, <1>13, OneStream

\* A status is about to be sent: the store's, or one that is not all there is.
LEMMA SendsNext ==
    ASSUME LiveInv, NEW c \in Clients, NEW status \in Said,
           UNCHANGED <<mode, store, replica, notify, sub, conn, slot, seen>>,
           MovesTo(c, "send", status, str[c].last),
           str[c].at \in {"snapshot", "loop", "read"},
           Says(status),
           Prompt /\ store \in Terminal => status = store
    PROVE  LiveInv'
<1>1. LiveType /\ SharedInv /\ ClientInv(c)
  BY DEF LiveInv
<1>2. slot \in [Clients -> Slots] /\ seen \in [Clients -> Events]
  BY <1>1 DEF LiveType
<1>3. Says(str[c].status)' /\ Says(slot[c].status)' /\ Says(seen[c].status)'
  BY <1>1 DEF ClientInv, Says, MovesTo
<1>4. str'[c].last = seen'[c].ord /\ str'[c].at = "send"
  BY <1>1 DEF ClientInv, MovesTo
<1>5. mode'.redis => slot'[c].reg
  BY <1>1 DEF ClientInv, Opened
<1>6. Window(c)'
  BY DEF Window, AtHand, MovesTo, Prompt
<1>7. ClientInv(c)'
  BY <1>3, <1>4, <1>5, <1>6 DEF ClientInv
<1>8. StreamStep(c)
  BY <1>2 DEF StreamStep, MovesTo
<1> QED  BY <1>7, <1>8, OneStream

\* The status a stream reads is final when the order is, unless it may lag.
LEMMA ReadsStore ==
    ASSUME LiveInv
    PROVE  /\ currentStatus \in Said /\ Says(currentStatus)
           /\ Prompt => currentStatus = store
  BY Finals DEF LiveInv, LiveType, SharedInv, currentStatus, Prompt

LEMMA PollKeeps ==
    ASSUME LiveInv, NEW c \in Clients, UNCHANGED mode, Poll(c)
    PROVE  LiveInv'
<1>1. MovesTo(c, "send", currentStatus, str[c].last)
  BY Goes, ReadsStore DEF LiveInv, Poll, Places
<1> QED  BY <1>1, ReadsStore, SendsNext DEF Poll

\* Snapshot: the second read, after the slot is registered.
LEMMA SnapshotKeeps ==
    ASSUME LiveInv, NEW c \in Clients, UNCHANGED mode, Snapshot(c)
    PROVE  LiveInv'
<1>1. LiveType /\ ClientInv(c)
  BY DEF LiveInv
<1>2. str[c].at = "snapshot" /\ UNCHANGED <<store, replica, notify, sub, conn, slot, seen>>
  BY DEF Snapshot
<1>3. CASE str' = [str EXCEPT ![c].at = "send", ![c].status = currentStatus]
  <2>1. MovesTo(c, "send", currentStatus, str[c].last)
    BY <1>1, <1>3, Goes, ReadsStore DEF Places
  <2> QED  BY <1>2, <2>1, ReadsStore, SendsNext
<1>4. CASE mode.bestEffort /\ str' = [str EXCEPT ![c].at = "send"]
  <2>1. MovesTo(c, "send", str[c].status, str[c].last)
    BY <1>1, <1>4, GoesOn DEF Places
  <2>2. ~Prompt /\ Says(str[c].status) /\ str[c].status \in Said
    BY <1>1, <1>4, Typed DEF Prompt, ClientInv
  <2> QED  BY <1>2, <2>1, <2>2, SendsNext
<1> QED  BY <1>3, <1>4 DEF Snapshot

\* send: only what is news to the client, and the final status always is.
LEMMA SendKeeps ==
    ASSUME LiveInv, NEW c \in Clients, UNCHANGED mode, Send(c)
    PROVE  LiveInv' /\ (seen'[c] = seen[c] \/ seen'[c].ord > seen[c].ord)
                    /\ \A d \in Clients : d # c => seen'[d] = seen[d]
<1>1. LiveType /\ ClientInv(c)
  BY DEF LiveInv
<1>2. /\ str[c].at = "send" /\ UNCHANGED <<mode, store, replica, notify, sub, conn, slot>>
      /\ slot \in [Clients -> Slots] /\ seen \in [Clients -> Events]
  BY <1>1 DEF Send, LiveType
<1>3. PICK ord \in -1..2 : ord = statusOrdinal(str[c].status) /\ (ord = 2 <=> str[c].status \in Terminal)
  BY <1>1, Typed, Ordinals
<1>4. Says(slot[c].status)' /\ (mode'.redis => slot'[c].reg) /\ str[c].last = seen[c].ord
  BY <1>1, <1>2 DEF ClientInv, Says, Opened
<1>5. str[c].last \in -1..2 /\ str[c].status \in Said /\ Says(str[c].status)
  BY <1>1, Typed DEF ClientInv
<1>6. "loop" \in Places /\ "" \in Said
  BY Finals DEF Places
<1>7. Coming => Coming'
  BY <1>2 DEF Coming
<1>8. AtHand(c) => str[c].status = store \/ (slot[c].woken /\ (slot[c].refresh \/ slot[c].status = store))
  BY <1>2 DEF AtHand
<1>9. slot[c].woken /\ (slot[c].refresh \/ slot[c].status = store) => AtHand(c)'
  BY <1>2 DEF AtHand
<1>10. CASE ord <= str[c].last
  <2>1. str' = [str EXCEPT ![c].at = "loop", ![c].status = ""] /\ seen' = seen
    BY <1>3, <1>10 DEF Send
  <2>2. MovesTo(c, "loop", "", str[c].last)
    BY <1>1, <1>6, <2>1, Goes
  <2>3. ord = 2 => str[c].last = 2
    BY SMT, <1>5, <1>10
  <2>4. Prompt' /\ store' \in Terminal /\ str'[c].last # 2 => AtHand(c)' \/ Coming'
    <3>1. SUFFICES ASSUME Prompt', store' \in Terminal, str'[c].last # 2
                   PROVE  AtHand(c)' \/ Coming'
      OBVIOUS
    <3>2. Prompt /\ store \in Terminal /\ str[c].last # 2
      BY <1>2, <2>2, <3>1 DEF Prompt, MovesTo
    <3>3. AtHand(c) \/ Coming
      BY <1>1, <1>2, <3>2 DEF ClientInv, Window, Opened
    <3>4. str[c].status # store
      BY <1>3, <2>3, <3>2
    <3> QED  BY <1>7, <1>8, <1>9, <3>3, <3>4
  <2>5. ClientInv(c)'
    BY <1>1, <1>2, <1>4, <2>1, <2>2, <2>4, Finals DEF ClientInv, Says, MovesTo, Window
  <2>6. StreamStep(c)
    BY <1>2, <2>1, <2>2 DEF StreamStep, MovesTo
  <2> QED  BY <2>1, <2>5, <2>6, OneStream
<1>11. CASE ~(ord <= str[c].last)
  <2>1. /\ str' = [str EXCEPT ![c] = [at |-> "loop", status |-> "", last |-> ord]]
        /\ seen' = [seen EXCEPT ![c] = [status |-> str[c].status, ord |-> ord]]
    BY <1>3, <1>11 DEF Send
  <2>2. MovesTo(c, "loop", "", ord)
    BY <1>1, <1>6, <2>1, Moved
  <2>3. [status |-> str[c].status, ord |-> ord] \in Events
    BY <1>5 DEF Events
  <2>4. seen' \in [Clients -> Events] /\ seen'[c] = [status |-> str[c].status, ord |-> ord]
    BY <1>2, <2>1, <2>3
  <2>5. seen'[c].status = str[c].status /\ seen'[c].ord = ord
    BY SMT, <2>4
  <2>6. \A d \in Clients : d # c => seen'[d] = seen[d]
    BY <1>2, <2>1
  <2>7. ord > seen[c].ord
    BY SMT, <1>4, <1>5, <1>11
  <2>8. Prompt' /\ store' \in Terminal /\ str'[c].last # 2 => AtHand(c)' \/ Coming'
    <3>1. SUFFICES ASSUME Prompt', store' \in Terminal, str'[c].last # 2
                   PROVE  AtHand(c)' \/ Coming'
      OBVIOUS
    <3>2. Prompt /\ store \in Terminal /\ ord # 2
      BY <1>2, <2>2, <3>1 DEF Prompt, MovesTo
    <3>3. str[c].last # 2
      BY SMT, <1>5, <1>11, <3>2
    <3>4. AtHand(c) \/ Coming
      BY <1>1, <1>2, <3>2, <3>3 DEF ClientInv, Window, Opened
    <3>5. str[c].status # store
      BY <1>3, <3>2
    <3> QED  BY <1>7, <1>8, <1>9, <3>4, <3>5
  <2>9. Says(seen[c].status)' /\ Says(str[c].status)'
    BY <1>2, <1>5, <2>2, <2>5, Finals DEF Says, MovesTo
  <2>10. str'[c].last = seen'[c].ord /\ str'[c].at = "loop"
    BY <2>2, <2>5 DEF MovesTo
  <2>11. ClientInv(c)'
    BY <1>4, <2>8, <2>9, <2>10 DEF ClientInv, Window
  <2>12. StreamStep(c)
    BY <1>2, <2>2, <2>4, <2>6 DEF StreamStep, MovesTo
  <2>13. LiveInv'
    BY <2>11, <2>12, OneStream
  <2> QED  BY <2>5, <2>6, <2>7, <2>13
<1> QED  BY <1>10, <1>11

\* take: what the slot holds goes to the stream, the slot is empty.
LEMMA TakeKeeps ==
    ASSUME LiveInv, NEW c \in Clients, UNCHANGED mode, Take(c)
    PROVE  LiveInv'
<1>1. LiveType /\ ClientInv(c)
  BY DEF LiveInv
<1>2. /\ str[c].at = "loop" /\ UNCHANGED <<mode, store, replica, notify, sub, conn, seen>>
      /\ seen \in [Clients -> Events]
  BY <1>1 DEF Take, LiveType
<1>3. SlotIs(c, TRUE, "", FALSE, FALSE)
  BY <1>1, SlotSet, Finals DEF Take, Emptied
<1>4. slot[c].status \in Said /\ Says(slot[c].status)
  BY <1>1, Typed DEF ClientInv
<1>5. PICK at \in {"read", "send", "loop"} :
        /\ slot[c].refresh => at = "read"
        /\ ~slot[c].refresh /\ slot[c].status # "" => at = "send"
        /\ str' = [str EXCEPT ![c].at = at, ![c].status = slot[c].status]
  <2>1. PICK at \in {"read", "send", "loop"} :
          at = IF slot[c].refresh THEN "read"
               ELSE IF slot[c].status # "" THEN "send" ELSE "loop"
    OBVIOUS
  <2>2. str' = [str EXCEPT ![c].at = at, ![c].status = slot[c].status]
    BY <2>1 DEF Take
  <2> QED  BY <2>1, <2>2
<1>6. MovesTo(c, at, slot[c].status, str[c].last)
  BY <1>1, <1>4, <1>5, Goes DEF Places
<1>7. Says(str[c].status)' /\ Says(slot[c].status)' /\ Says(seen[c].status)'
  BY <1>1, <1>2, <1>3, <1>4, <1>6, Finals DEF ClientInv, Says, MovesTo, SlotIs
<1>8. str'[c].last = seen'[c].ord /\ slot'[c].reg /\ str'[c].at = at
  BY <1>1, <1>2, <1>3, <1>6 DEF ClientInv, MovesTo, SlotIs
<1>9. Window(c)'
  <2>1. SUFFICES ASSUME Prompt', store' \in Terminal, str'[c].last # 2
                 PROVE  AtHand(c)' \/ Coming'
    BY DEF Window
  <2>2. Prompt /\ store \in Terminal /\ str[c].last # 2
    BY <1>2, <1>6, <2>1 DEF Prompt, MovesTo
  <2>3. AtHand(c) \/ Coming
    BY <1>1, <1>2, <2>2 DEF ClientInv, Window, Opened
  <2>4. CASE Coming
    BY <1>2, <2>4 DEF Coming
  <2>5. CASE AtHand(c)
    <3>1. slot[c].refresh \/ slot[c].status = store
      BY <1>2, <2>5 DEF AtHand
    <3>2. at = "read" \/ (at = "send" /\ slot[c].status = store)
      BY <1>5, <2>2, <3>1, Finals
    <3> QED  BY <1>2, <1>6, <3>2 DEF AtHand, MovesTo
  <2> QED  BY <2>3, <2>4, <2>5
<1>10. ClientInv(c)'
  BY <1>5, <1>7, <1>8, <1>9 DEF ClientInv
<1>11. StreamStep(c)
  BY <1>2, <1>3, <1>6 DEF StreamStep, MovesTo, SlotIs
<1> QED  BY <1>10, <1>11, OneStream

LEMMA Rearmed ==
    ASSUME LiveType, NEW c \in Clients, slot' = [slot EXCEPT ![c] = markRefresh(slot[c])]
    PROVE  SlotIs(c, slot[c].reg, slot[c].status, TRUE, TRUE)
<1>1. slot \in [Clients -> Slots] /\ slot[c] \in Slots
  BY Typed DEF LiveType
<1>2. PICK v \in Slots : v = markRefresh(slot[c])
  BY <1>1, Woken
<1>3. v.reg = slot[c].reg /\ v.status = slot[c].status /\ v.refresh = TRUE /\ v.woken = TRUE
  BY <1>1, <1>2, Woken
<1>4. slot' = [slot EXCEPT ![c] = v]
  BY <1>2
<1>5. slot' \in [Clients -> Slots] /\ slot'[c] = v
  BY <1>1, <1>4
<1>6. \A d \in Clients : d # c => slot'[d] = slot[d]
  BY <1>1, <1>4
<1> QED  BY <1>3, <1>5, <1>6 DEF SlotIs

\* The refresh: the store is read, or the flag is set again.
LEMMA RereadKeeps ==
    ASSUME LiveInv, NEW c \in Clients, UNCHANGED mode, Reread(c)
    PROVE  LiveInv'
<1>1. LiveType /\ ClientInv(c)
  BY DEF LiveInv
<1>2. /\ str[c].at = "read" /\ UNCHANGED <<mode, store, replica, notify, sub, conn, seen>>
      /\ seen \in [Clients -> Events]
  BY <1>1 DEF Reread, LiveType
<1>3. str[c].status \in Said /\ Says(str[c].status)
  BY <1>1, Typed DEF ClientInv
<1>4. CASE /\ str' = [str EXCEPT ![c].at = "send", ![c].status = Higher(@, currentStatus)]
           /\ slot' = slot
  <2>1. PICK status : status = Higher(str[c].status, currentStatus)
    OBVIOUS
  <2>2. str \in [Clients -> Streams] /\ str[c] \in Streams
    BY <1>1, Typed DEF LiveType
  <2>3. str' = [str EXCEPT ![c].at = "send", ![c].status = status]
    BY SMT, <1>4, <2>1, <2>2 DEF Streams
  <2>4. /\ status \in Said /\ (status = str[c].status \/ status = currentStatus)
        /\ currentStatus \in Terminal => (status = currentStatus \/ str[c].status \in Terminal)
        /\ str[c].status \in Terminal => status = str[c].status
    BY <1>3, <2>1, ReadsStore, HigherIs
  <2>5. MovesTo(c, "send", status, str[c].last)
    BY <1>1, <2>3, <2>4, Goes DEF Places
  <2>6. Says(status)
    BY <1>3, <2>4, ReadsStore DEF Says
  <2>7. ASSUME Prompt, store \in Terminal PROVE status = store
    <3>1. currentStatus = store /\ currentStatus \in Terminal
      BY <2>7, ReadsStore
    <3>2. CASE str[c].status \in Terminal
      BY <1>3, <2>4, <3>2 DEF Says
    <3> QED  BY <2>4, <3>1, <3>2
  <2> QED  BY <1>2, <1>4, <2>4, <2>5, <2>6, <2>7, SendsNext
<1>5. CASE /\ slot' = [slot EXCEPT ![c] = markRefresh(slot[c])]
           /\ str' = [str EXCEPT ![c].at = IF str[c].status # "" THEN "send" ELSE "loop"]
  <2>1. PICK at \in {"send", "loop"} : at = IF str[c].status # "" THEN "send" ELSE "loop"
    OBVIOUS
  <2>2. str' = [str EXCEPT ![c].at = at]
    BY <1>5, <2>1
  <2>3. MovesTo(c, at, str[c].status, str[c].last)
    BY <1>1, <2>1, <2>2, GoesOn DEF Places
  <2>4. SlotIs(c, slot[c].reg, slot[c].status, TRUE, TRUE)
    BY <1>1, <1>5, Rearmed
  <2>5. Says(str[c].status)' /\ Says(slot[c].status)' /\ Says(seen[c].status)'
    BY <1>1, <1>2, <2>3, <2>4 DEF ClientInv, Says, MovesTo, SlotIs
  <2>6. str'[c].last = seen'[c].ord /\ (mode'.redis => slot'[c].reg) /\ str'[c].at = at
    BY <1>1, <1>2, <2>3, <2>4 DEF ClientInv, MovesTo, SlotIs, Opened
  <2>7. Window(c)'
    BY <2>4 DEF Window, AtHand, SlotIs
  <2>8. ClientInv(c)'
    BY <2>1, <2>5, <2>6, <2>7 DEF ClientInv
  <2>9. StreamStep(c)
    BY <1>2, <2>3, <2>4 DEF StreamStep, MovesTo, SlotIs
  <2> QED  BY <2>8, <2>9, OneStream
<1> QED  BY <1>4, <1>5 DEF Reread

LEMMA CloseKeeps ==
    ASSUME LiveInv, NEW c \in Clients, UNCHANGED mode, Close(c)
    PROVE  LiveInv'
<1>1. LiveType /\ ClientInv(c)
  BY DEF LiveInv
<1>2. UNCHANGED <<mode, store, replica, notify, sub, conn, seen>> /\ seen \in [Clients -> Events]
  BY <1>1 DEF Close, LiveType
<1>3. "off" \in Places /\ "" \in Said
  BY Finals DEF Places
<1>4. -1 \in -1..2
  BY SMT
<1>5. MovesTo(c, "off", "", -1)
  BY <1>1, <1>3, <1>4, Moved DEF Close, Closed
<1>6. SlotIs(c, FALSE, "", FALSE, FALSE)
  BY <1>1, <1>3, SlotSet DEF Close, NoSlot
<1>7. ClientInv(c)'
  BY <1>1, <1>2, <1>5, <1>6, Finals DEF ClientInv, Says, MovesTo, SlotIs, Opened, Window
<1>8. StreamStep(c)
  BY <1>2, <1>5, <1>6 DEF StreamStep, MovesTo, SlotIs
<1> QED  BY <1>7, <1>8, OneStream

--------------------------------------------------------------------------------
(* The invariant across the projection, Notify and the subscriber.           *)

\* The order's final status stays, so what was said of it stays true.
LEMMA SaysKept ==
    ASSUME NEW x, Says(x), store' = store \/ store \notin Terminal
    PROVE  x \in Terminal => x = store'
  BY DEF Says

\* What a stream knows, when only its slot changes.
LEMMA Waits ==
    ASSUME NEW d \in Clients, ClientInv(d), UNCHANGED <<mode, str, seen>>,
           store' = store \/ store \notin Terminal,
           slot'[d].reg = slot[d].reg, Says(slot[d].status)',
           Prompt /\ store' \in Terminal /\ Opened(d) /\ str[d].last # 2 => AtHand(d)' \/ Coming'
    PROVE  ClientInv(d)'
<1>1. Says(str[d].status)' /\ Says(seen[d].status)'
  BY SaysKept DEF ClientInv, Says
<1>2. Window(d)'
  BY DEF Window, Prompt, Opened
<1> QED  BY <1>1, <1>2 DEF ClientInv, Opened

LEMMA InsertPendingKeeps ==
    ASSUME LiveInv, UNCHANGED mode, InsertPending
    PROVE  LiveInv'
<1>1. LiveType /\ SharedInv
  BY DEF LiveInv
<1>2. /\ store \notin Terminal /\ store' = "pending" /\ store' \notin Terminal
      /\ UNCHANGED <<mode, notify, sub, conn, str, slot, seen>>
  BY Finals DEF InsertPending
<1>3. (mode.lag /\ replica' = replica) \/ (~mode.lag /\ replica' = store')
  BY <1>2 DEF InsertPending, Catches
<1>4. LiveType'
  BY <1>1, <1>2, <1>3, Finals DEF LiveType
<1>5. SharedInv'
  BY <1>1, <1>2, <1>3, SaysKept DEF SharedInv, Says
<1>6. ASSUME NEW d \in Clients PROVE ClientInv(d)'
  <2>1. Says(slot[d].status)'
    BY <1>2, SaysKept DEF LiveInv, ClientInv, Says
  <2> QED  BY <1>2, <2>1, Waits DEF LiveInv
<1> QED  BY <1>4, <1>5, <1>6 DEF LiveInv

LEMMA ReplicateKeeps ==
    ASSUME LiveInv, UNCHANGED mode, Replicate
    PROVE  LiveInv'
<1>1. UNCHANGED <<mode, store, notify, sub, conn, str, slot, seen>> /\ replica' = store
  BY DEF Replicate
<1>2. LiveType'
  BY <1>1 DEF LiveInv, LiveType
<1>3. SharedInv'
  BY <1>1 DEF LiveInv, SharedInv, Says
<1>4. ASSUME NEW d \in Clients PROVE ClientInv(d)'
  BY <1>1, OthersKept DEF LiveInv
<1> QED  BY <1>2, <1>3, <1>4 DEF LiveInv

\* The projection's hook: a Notify to come tells of the new status.
LEMMA ProjectKeeps ==
    ASSUME LiveInv, UNCHANGED mode, NEW status \in {"created"} \cup Outcomes, Project(status)
    PROVE  LiveInv'
<1>1. LiveType /\ SharedInv
  BY DEF LiveInv
<1>2. UNCHANGED <<mode, sub, conn, str, slot, seen>>
  BY DEF Project
<1>3. status \in {"created"} \cup Terminal
  BY LiveAssumption DEF Terminal
<1>4. store' \in Known /\ (store' = store \/ store \notin Terminal)
  BY <1>1, <1>3, Finals DEF Project, Precedence, LiveType
<1>5. (mode.lag /\ replica' = replica) \/ (~mode.lag /\ replica' = store')
  BY DEF Project, Catches
<1>6. PICK n : n = [event |-> status, read |-> ""]
  OBVIOUS
<1>7. n \in Notifies
  BY <1>3, <1>6, Finals DEF Notifies
<1>8. n.read = ""
  BY <1>6
<1>9. notify' = Append(notify, n) /\ notify \in Seq(Notifies)
  BY <1>1, <1>6 DEF Project, LiveType
<1>10. /\ notify' \in Seq(Notifies)
       /\ Len(notify) + 1 \in DOMAIN notify' /\ notify'[Len(notify) + 1] = n
       /\ \A k \in DOMAIN notify' : (k \in DOMAIN notify /\ notify'[k] = notify[k]) \/ notify'[k] = n
  BY SMT, <1>7, <1>9
<1>11. LiveType'
  BY <1>1, <1>2, <1>4, <1>5, <1>10 DEF LiveType
<1>12. SharedInv'
  <2>1. Says(replica)'
    BY <1>1, <1>4, <1>5, SaysKept DEF SharedInv, Says
  <2>2. ASSUME NEW k \in DOMAIN notify' PROVE Says(notify[k].read)'
    <3>1. CASE k \in DOMAIN notify /\ notify'[k] = notify[k]
      BY <1>1, <1>4, <3>1, SaysKept DEF SharedInv, Says
    <3>2. CASE notify'[k] = n
      BY <1>8, <3>2, Finals DEF Says
    <3> QED  BY <1>10, <3>1, <3>2
  <2>3. \A k \in DOMAIN conn' : Says(conn[k])'
    BY <1>1, <1>2, <1>4, SaysKept DEF SharedInv, Says
  <2>4. ~mode'.lag => replica' = store'
    BY <1>2, <1>5
  <2>5. ~mode'.redis => sub' = "off"
    BY <1>1, <1>2 DEF SharedInv
  <2> QED  BY <2>1, <2>2, <2>3, <2>4, <2>5 DEF SharedInv
<1>13. Coming'
  BY <1>8, <1>10 DEF Coming
<1>14. ASSUME NEW d \in Clients PROVE ClientInv(d)'
  <2>1. Says(slot[d].status)'
    BY <1>2, <1>4, SaysKept DEF LiveInv, ClientInv, Says
  <2> QED  BY <1>2, <1>4, <1>13, <2>1, Waits DEF LiveInv
<1> QED  BY <1>11, <1>12, <1>14 DEF LiveInv

LEMMA ReadSet ==
    ASSUME NEW E, NEW R, NEW r \in [event : E, read : R], NEW v \in R
    PROVE  /\ [r EXCEPT !.read = v] \in [event : E, read : R]
           /\ [r EXCEPT !.read = v].read = v
  BY SMT

LEMMA NotifyCall ==
    ASSUME LiveType, NEW k \in DOMAIN notify
    PROVE  notify[k] \in Notifies
<1>1. notify \in Seq(Notifies)
  BY DEF LiveType
<1> QED  BY SMT, <1>1

\* A Notify call moves on.
LEMMA NotifySet ==
    ASSUME LiveType, NEW k \in DOMAIN notify, NEW v \in Said \cup {"done"},
           notify' = [notify EXCEPT ![k].read = v]
    PROVE  /\ notify' \in Seq(Notifies) /\ DOMAIN notify' = DOMAIN notify
           /\ notify'[k].read = v
           /\ \A j \in DOMAIN notify : j # k => notify'[j] = notify[j]
<1>1. notify \in Seq(Notifies) /\ notify[k] \in Notifies
  BY NotifyCall DEF LiveType
<1>2. PICK n : n = [notify[k] EXCEPT !.read = v]
  OBVIOUS
<1>3. n \in Notifies
  BY <1>1, <1>2, ReadSet DEF Notifies
<1>4. n.read = v
  BY <1>1, <1>2, ReadSet DEF Notifies
<1>5. notify' = [notify EXCEPT ![k] = n]
  BY <1>2
<1>6. notify' \in Seq(Notifies) /\ DOMAIN notify' = DOMAIN notify /\ notify'[k] = n
  BY SMT, <1>1, <1>3, <1>5
<1>7. \A j \in DOMAIN notify : j # k => notify'[j] = notify[j]
  BY <1>5
<1> QED  BY <1>4, <1>6, <1>7

\* Notify reads the writer: a status it reads is the store's.
LEMMA NotifyReadsKeeps ==
    ASSUME LiveInv, UNCHANGED mode, NEW k \in DOMAIN notify, NotifyReads(k)
    PROVE  LiveInv'
<1>1. LiveType /\ SharedInv
  BY DEF LiveInv
<1>2. UNCHANGED <<mode, store, replica, sub, conn, str, slot, seen>>
  BY DEF NotifyReads
<1>3. PICK v \in Said \cup {"done"} :
        /\ v = store \/ (v = "done" /\ mode.bestEffort)
        /\ notify' = [notify EXCEPT ![k].read = v]
  <2>1. store \in Said
    BY <1>1, Finals DEF LiveType
  <2> QED  BY <2>1 DEF NotifyReads
<1>4. /\ notify' \in Seq(Notifies) /\ DOMAIN notify' = DOMAIN notify
      /\ notify'[k].read = v
      /\ \A j \in DOMAIN notify : j # k => notify'[j] = notify[j]
  BY <1>1, <1>3, NotifySet
<1>5. LiveType'
  BY <1>1, <1>2, <1>4 DEF LiveType
<1>6. ASSUME NEW j \in DOMAIN notify' PROVE Says(notify[j].read)'
  <2>1. CASE j = k
    BY <1>2, <1>3, <1>4, <2>1, Finals DEF Says
  <2>2. CASE j # k
    BY <1>1, <1>2, <1>4, <2>2 DEF SharedInv, Says
  <2> QED  BY <2>1, <2>2
<1>7. SharedInv'
  BY <1>1, <1>2, <1>6 DEF SharedInv, Says
<1>8. Prompt /\ Coming => Coming'
  <2>1. SUFFICES ASSUME Prompt, Coming PROVE Coming'
    OBVIOUS
  <2>2. v = store
    BY <1>3, <2>1 DEF Prompt
  <2>3. CASE \E j \in DOMAIN notify : notify[j].read = "" \/ notify[j].read = store
    <3>1. PICK j \in DOMAIN notify : notify[j].read = "" \/ notify[j].read = store
      BY <2>3
    <3>2. CASE j = k
      BY <1>2, <1>4, <2>2, <3>2 DEF Coming
    <3>3. CASE j # k
      BY <1>2, <1>4, <3>1, <3>3 DEF Coming
    <3> QED  BY <3>2, <3>3
  <2>4. CASE (\E j \in DOMAIN conn : conn[j] = store) \/ sub # "live"
    BY <1>2, <2>4 DEF Coming
  <2> QED  BY <2>1, <2>3, <2>4 DEF Coming
<1>9. ASSUME NEW d \in Clients PROVE ClientInv(d)'
  <2>1. Says(slot[d].status)'
    BY <1>2 DEF LiveInv, ClientInv, Says
  <2>2. AtHand(d) => AtHand(d)'
    BY <1>2 DEF AtHand
  <2>3. Prompt /\ store' \in Terminal /\ Opened(d) /\ str[d].last # 2 => AtHand(d)' \/ Coming'
    BY <1>2, <1>8, <2>2 DEF LiveInv, ClientInv, Window
  <2> QED  BY <1>2, <2>1, <2>3, Waits DEF LiveInv
<1> QED  BY <1>5, <1>7, <1>9 DEF LiveInv

\* The broadcast reaches a live subscription's connection.
LEMMA NotifyPublishesKeeps ==
    ASSUME LiveInv, UNCHANGED mode, NEW k \in DOMAIN notify, NotifyPublishes(k)
    PROVE  LiveInv'
<1>1. LiveType /\ SharedInv
  BY DEF LiveInv
<1>2. /\ UNCHANGED <<mode, store, replica, sub, str, slot, seen>>
      /\ notify[k].read # "" /\ notify[k].read # "done"
  BY DEF NotifyPublishes
<1>3. PICK said : said = notify[k].read
  OBVIOUS
<1>4. said \in Known /\ Says(said)
  <2>1. notify[k] \in Notifies
    BY <1>1, NotifyCall
  <2>2. said \in Said \cup {"done"}
    BY <1>3, <2>1 DEF Notifies
  <2> QED  BY <1>1, <1>2, <1>3, <2>2 DEF Said, SharedInv
<1>5. /\ notify' \in Seq(Notifies) /\ DOMAIN notify' = DOMAIN notify
      /\ notify'[k].read = "done"
      /\ \A j \in DOMAIN notify : j # k => notify'[j] = notify[j]
  BY <1>1, NotifySet DEF NotifyPublishes
<1>6. conn \in Seq(Known)
  BY <1>1 DEF LiveType
<1>7. /\ conn' = conn \/ conn' = Append(conn, said)
      /\ Prompt /\ sub = "live" /\ said # "none" => conn' = Append(conn, said)
  BY <1>3 DEF NotifyPublishes, Prompt, Subscribed
<1>8. conn' = Append(conn, said) =>
        /\ conn' \in Seq(Known)
        /\ Len(conn) + 1 \in DOMAIN conn' /\ conn'[Len(conn) + 1] = said
        /\ \A j \in DOMAIN conn : j \in DOMAIN conn' /\ conn'[j] = conn[j]
        /\ \A j \in DOMAIN conn' : conn'[j] = said \/ (j \in DOMAIN conn /\ conn'[j] = conn[j])
  BY SMT, <1>4, <1>6
<1>9. LiveType'
  BY <1>1, <1>2, <1>5, <1>7, <1>8 DEF LiveType
<1>10. ASSUME NEW j \in DOMAIN notify' PROVE Says(notify[j].read)'
  <2>1. CASE j = k
    BY <1>5, <2>1, Finals DEF Says
  <2>2. CASE j # k
    BY <1>1, <1>2, <1>5, <2>2 DEF SharedInv, Says
  <2> QED  BY <2>1, <2>2
<1>11. ASSUME NEW j \in DOMAIN conn' PROVE Says(conn[j])'
  BY <1>1, <1>2, <1>4, <1>7, <1>8 DEF SharedInv, Says
<1>12. SharedInv'
  BY <1>1, <1>2, <1>10, <1>11 DEF SharedInv, Says
<1>13. Prompt /\ store \in Terminal /\ Coming => Coming'
  <2>1. SUFFICES ASSUME Prompt, store \in Terminal, Coming PROVE Coming'
    OBVIOUS
  <2>2. CASE \E j \in DOMAIN notify : notify[j].read = "" \/ notify[j].read = store
    <3>1. PICK j \in DOMAIN notify : notify[j].read = "" \/ notify[j].read = store
      BY <2>2
    <3>2. CASE j # k
      BY <1>2, <1>5, <3>1, <3>2 DEF Coming
    <3>3. CASE j = k
      <4>1. said = store /\ said # "none"
        BY <1>2, <1>3, <2>1, <3>1, <3>3, Finals
      <4>2. CASE sub = "live"
        <5>1. conn' = Append(conn, said)
          BY <1>7, <2>1, <4>1, <4>2
        <5> QED  BY <1>2, <1>8, <4>1, <5>1 DEF Coming
      <4>3. CASE sub # "live"
        BY <1>2, <4>3 DEF Coming
      <4> QED  BY <4>2, <4>3
    <3> QED  BY <3>2, <3>3
  <2>3. CASE \E j \in DOMAIN conn : conn[j] = store
    BY <1>2, <1>7, <1>8, <2>3 DEF Coming
  <2>4. CASE sub # "live"
    BY <1>2, <2>4 DEF Coming
  <2> QED  BY <2>1, <2>2, <2>3, <2>4 DEF Coming
<1>14. ASSUME NEW d \in Clients PROVE ClientInv(d)'
  <2>1. Says(slot[d].status)'
    BY <1>2 DEF LiveInv, ClientInv, Says
  <2>2. AtHand(d) => AtHand(d)'
    BY <1>2 DEF AtHand
  <2>3. Prompt /\ store' \in Terminal /\ Opened(d) /\ str[d].last # 2 => AtHand(d)' \/ Coming'
    BY <1>2, <1>13, <2>2 DEF LiveInv, ClientInv, Window
  <2> QED  BY <1>2, <2>1, <2>3, Waits DEF LiveInv
<1> QED  BY <1>9, <1>12, <1>14 DEF LiveInv

LEMMA SubscribeKeeps ==
    ASSUME LiveInv, UNCHANGED mode, Subscribe
    PROVE  LiveInv'
<1>1. /\ UNCHANGED <<mode, store, replica, notify, conn, str, slot, seen>>
      /\ sub = "down" /\ sub' = "acked"
  BY DEF Subscribe
<1>2. LiveType'
  BY <1>1 DEF LiveInv, LiveType
<1>3. SharedInv'
  BY <1>1 DEF LiveInv, SharedInv, Says
<1>4. ASSUME NEW d \in Clients PROVE ClientInv(d)'
  BY <1>1, OthersKept DEF LiveInv
<1> QED  BY <1>2, <1>3, <1>4 DEF LiveInv

\* A lost connection leaves the subscription down until the next refresh.
LEMMA DropKeeps ==
    ASSUME LiveInv, UNCHANGED mode, Drop \/ Shutdown
    PROVE  LiveInv'
<1>1. /\ UNCHANGED <<mode, store, replica, notify, str, slot, seen>>
      /\ sub' \in {"down", "off"} /\ conn' = <<>>
      /\ sub' = "down" => sub # "off"
  BY DEF Drop, Shutdown, Subscribed
<1>2. conn' \in Seq(Known) /\ DOMAIN conn' = {}
  BY SMT, <1>1
<1>3. LiveType'
  BY <1>1, <1>2 DEF LiveInv, LiveType
<1>4. SharedInv'
  BY <1>1, <1>2 DEF LiveInv, SharedInv, Says
<1>5. Coming'
  BY <1>1 DEF Coming
<1>6. ASSUME NEW d \in Clients PROVE ClientInv(d)'
  <2>1. Says(slot[d].status)'
    BY <1>1 DEF LiveInv, ClientInv, Says
  <2> QED  BY <1>1, <1>5, <2>1, Waits DEF LiveInv
<1> QED  BY <1>3, <1>4, <1>6 DEF LiveInv

\* markLive: every registered stream is told to read the store.
LEMMA RefreshKeeps ==
    ASSUME LiveInv, UNCHANGED mode, BroadcastRefresh
    PROVE  LiveInv'
<1>1. LiveType /\ SharedInv
  BY DEF LiveInv
<1>2. /\ UNCHANGED <<mode, store, replica, notify, conn, str, seen>>
      /\ sub = "acked" /\ sub' = "live" /\ slot' = Refreshed
  BY DEF BroadcastRefresh
<1>3. mode.redis
  BY <1>1, <1>2 DEF SharedInv
<1>4. ASSUME NEW d \in Clients
      PROVE  /\ slot'[d] \in Slots /\ slot'[d].reg = slot[d].reg
             /\ slot'[d].status = slot[d].status
             /\ slot[d].reg => slot'[d].refresh /\ slot'[d].woken
  <2>1. slot'[d] = IF slot[d].reg THEN markRefresh(slot[d]) ELSE slot[d]
    BY <1>2 DEF Refreshed
  <2>2. slot[d] \in Slots
    BY <1>1, Typed
  <2>3. CASE slot[d].reg
    BY <2>1, <2>2, <2>3, Woken
  <2>4. CASE ~slot[d].reg
    BY <2>1, <2>2, <2>4
  <2> QED  BY <2>3, <2>4
<1>5. slot' \in [Clients -> Slots]
  <2>1. DOMAIN slot' = Clients /\ slot' = [d \in Clients |-> slot'[d]]
    BY <1>2 DEF Refreshed
  <2> QED  BY <1>4, <2>1
<1>6. LiveType'
  BY <1>1, <1>2, <1>5 DEF LiveType
<1>7. SharedInv'
  BY <1>1, <1>2, <1>3 DEF SharedInv, Says
<1>8. ASSUME NEW d \in Clients PROVE ClientInv(d)'
  <2>1. Says(slot[d].status)'
    BY <1>2, <1>4 DEF LiveInv, ClientInv, Says
  <2>2. Opened(d) => AtHand(d)'
    <3>1. Opened(d) => slot[d].reg
      BY <1>3 DEF LiveInv, ClientInv
    <3> QED  BY <1>4, <3>1 DEF AtHand
  <2>3. slot'[d].reg = slot[d].reg
    BY <1>4
  <2> QED  BY <1>2, <2>1, <2>2, <2>3, Waits DEF LiveInv
<1> QED  BY <1>6, <1>7, <1>8 DEF LiveInv

LEMMA Delivered ==
    ASSUME NEW sl \in Slots, NEW status \in Said
    PROVE  /\ deliver(sl, status) \in Slots /\ deliver(sl, status).reg = sl.reg
           /\ deliver(sl, status).status = Higher(sl.status, status)
           /\ deliver(sl, status).refresh = sl.refresh
           /\ deliver(sl, status).woken = TRUE
<1>1. PICK h \in Said : h = Higher(sl.status, status)
  <2>1. sl.status \in Said
    BY DEF Slots
  <2> QED  BY <2>1, HigherIs
<1>2. PICK g : g = [sl EXCEPT !.status = h]
  OBVIOUS
<1>3. /\ g \in Slots /\ g.reg = sl.reg /\ g.status = h /\ g.refresh = sl.refresh
  BY <1>2, StatusSet
<1>4. deliver(sl, status) = [g EXCEPT !.woken = TRUE]
  BY SMT, <1>1, <1>2 DEF deliver
<1>5. /\ [g EXCEPT !.woken = TRUE] \in Slots /\ [g EXCEPT !.woken = TRUE].reg = g.reg
      /\ [g EXCEPT !.woken = TRUE].status = g.status
      /\ [g EXCEPT !.woken = TRUE].refresh = g.refresh
      /\ [g EXCEPT !.woken = TRUE].woken = TRUE
  BY <1>3, WokenSet
<1> QED  BY <1>1, <1>3, <1>4, <1>5

LEMMA Tailed ==
    ASSUME NEW S, NEW q \in Seq(S), q # <<>>
    PROVE  /\ Head(q) = q[1] /\ q[1] \in S /\ 1 \in DOMAIN q /\ Tail(q) \in Seq(S)
           /\ \A j \in DOMAIN Tail(q) : j + 1 \in DOMAIN q /\ Tail(q)[j] = q[j + 1]
           /\ \A j \in DOMAIN q : j # 1 => j - 1 \in DOMAIN Tail(q) /\ Tail(q)[j - 1] = q[j]
  BY SMT

\* dispatch: a broadcast that is taken from the connection is in the slots.
LEMMA DispatchKeeps ==
    ASSUME LiveInv, UNCHANGED mode, dispatch
    PROVE  LiveInv'
<1>1. LiveType /\ SharedInv
  BY DEF LiveInv
<1>2. /\ UNCHANGED <<mode, store, replica, notify, sub, str, seen>>
      /\ sub # "off" /\ conn \in Seq(Known) /\ conn # <<>> /\ conn' = Tail(conn)
  BY <1>1 DEF dispatch, Subscribed, LiveType
<1>3. mode.redis
  BY <1>1, <1>2 DEF SharedInv
<1>4. PICK said : said = Head(conn)
  OBVIOUS
<1>5. /\ conn' \in Seq(Known) /\ said \in Known /\ said = conn[1] /\ 1 \in DOMAIN conn
      /\ \A j \in DOMAIN conn' : j + 1 \in DOMAIN conn /\ conn'[j] = conn[j + 1]
      /\ \A j \in DOMAIN conn : j # 1 => j - 1 \in DOMAIN conn' /\ conn'[j - 1] = conn[j]
  BY <1>2, <1>4, Tailed
<1>6. said \in Said /\ Says(said)
  BY <1>1, <1>5, Finals DEF SharedInv
<1>7. slot' = [d \in Clients |-> IF slot[d].reg THEN deliver(slot[d], said) ELSE slot[d]]
  BY <1>4 DEF dispatch
<1>8. ASSUME NEW d \in Clients
      PROVE  /\ slot'[d] \in Slots /\ slot'[d].reg = slot[d].reg
             /\ slot'[d].refresh = slot[d].refresh
             /\ slot[d].woken => slot'[d].woken
             /\ slot'[d].status = slot[d].status \/ slot'[d].status = said
             /\ slot[d].status \in Terminal => slot'[d].status = slot[d].status
             /\ slot[d].reg /\ said \in Terminal
                   => slot'[d].woken /\ (slot'[d].status = said \/ slot[d].status \in Terminal)
  <2>1. slot'[d] = IF slot[d].reg THEN deliver(slot[d], said) ELSE slot[d]
    BY <1>7
  <2>2. slot[d] \in Slots /\ slot[d].status \in Said
    BY <1>1, Typed
  <2>3. CASE slot[d].reg
    <3>1. /\ slot'[d] \in Slots /\ slot'[d].reg = slot[d].reg
          /\ slot'[d].status = Higher(slot[d].status, said)
          /\ slot'[d].refresh = slot[d].refresh /\ slot'[d].woken = TRUE
      <4>1. slot'[d] = deliver(slot[d], said)
        BY <2>1, <2>3
      <4>2. /\ deliver(slot[d], said) \in Slots /\ deliver(slot[d], said).reg = slot[d].reg
            /\ deliver(slot[d], said).status = Higher(slot[d].status, said)
            /\ deliver(slot[d], said).refresh = slot[d].refresh
            /\ deliver(slot[d], said).woken = TRUE
        BY <1>6, <2>2, Delivered
      <4> QED  BY <4>1, <4>2
    <3>2. /\ slot'[d].status = slot[d].status \/ slot'[d].status = said
          /\ said \in Terminal => (slot'[d].status = said \/ slot[d].status \in Terminal)
          /\ slot[d].status \in Terminal => slot'[d].status = slot[d].status
      BY <1>6, <2>2, <3>1, HigherIs
    <3> QED  BY <3>1, <3>2
  <2>4. CASE ~slot[d].reg
    BY <2>1, <2>2, <2>4
  <2> QED  BY <2>3, <2>4
<1>9. slot' \in [Clients -> Slots]
  <2>1. slot' = [d \in Clients |-> slot'[d]]
    BY <1>7
  <2> QED  BY <1>8, <2>1
<1>10. LiveType'
  BY <1>1, <1>2, <1>5, <1>9 DEF LiveType
<1>11. SharedInv'
  BY <1>1, <1>2, <1>5 DEF SharedInv, Says
<1>12. ASSUME NEW d \in Clients PROVE ClientInv(d)'
  <2>1. Says(slot[d].status) /\ Window(d)
    BY DEF LiveInv, ClientInv
  <2>2. Says(slot[d].status)'
    BY <1>2, <1>6, <1>8, <2>1 DEF Says
  <2>3. ASSUME Prompt, store \in Terminal, Opened(d), str[d].last # 2
        PROVE  AtHand(d)' \/ Coming'
    <3>1. CASE str[d].at = "read" \/ (str[d].at = "send" /\ str[d].status = store)
      BY <1>2, <3>1 DEF AtHand
    <3>2. CASE slot[d].woken /\ slot[d].refresh
      BY <1>8, <3>2 DEF AtHand
    <3>3. CASE slot[d].woken /\ slot[d].status = store
      <4>1. slot'[d].status = store /\ slot'[d].woken
        BY <1>8, <2>3, <3>3
      <4> QED  BY <1>2, <4>1 DEF AtHand
    <3>4. CASE (\E k \in DOMAIN notify : notify[k].read = "" \/ notify[k].read = store) \/ sub # "live"
      BY <1>2, <3>4 DEF Coming
    <3>5. CASE \E j \in DOMAIN conn : conn[j] = store
      <4>1. PICK j \in DOMAIN conn : conn[j] = store
        BY <3>5
      <4>2. CASE j # 1
        BY <1>2, <1>5, <4>1, <4>2 DEF Coming
      <4>3. CASE j = 1
        <5>1. said = store /\ said \in Terminal
          BY <1>5, <2>3, <4>1, <4>3
        <5>2. slot[d].reg
          BY <1>3, <2>3 DEF LiveInv, ClientInv
        <5>3. slot'[d].woken /\ slot'[d].status = store
          BY <1>8, <2>1, <5>1, <5>2 DEF Says
        <5> QED  BY <1>2, <5>3 DEF AtHand
      <4> QED  BY <4>2, <4>3
    <3>6. AtHand(d) \/ Coming
      BY <2>1, <2>3 DEF Window
    <3> QED  BY <3>1, <3>2, <3>3, <3>4, <3>5, <3>6 DEF AtHand, Coming
  <2>4. slot'[d].reg = slot[d].reg
    BY <1>8
  <2> QED  BY <1>2, <2>2, <2>3, <2>4, Waits DEF LiveInv
<1> QED  BY <1>10, <1>11, <1>12 DEF LiveInv

--------------------------------------------------------------------------------
(* The theorems.                                                            *)

LEMMA LiveInitInv == Init => LiveInv
<1>1. SUFFICES ASSUME Init PROVE LiveInv
  OBVIOUS
<1>2. notify \in Seq(Notifies) /\ conn \in Seq(Known) /\ DOMAIN notify = {} /\ DOMAIN conn = {}
  <2>1. notify = <<>> /\ conn = <<>>
    BY <1>1 DEF Init
  <2> QED  BY SMT, <2>1
<1>3. -1 \in -1..2
  BY SMT
<1>4. Closed \in Streams /\ NoSlot \in Slots /\ Nothing \in Events
  BY <1>3, Finals DEF Closed, NoSlot, Nothing, Streams, Slots, Events, Places
<1>5. LiveType
  BY <1>1, <1>2, <1>4, Finals DEF Init, LiveType, Modes
<1>6. SharedInv
  BY <1>1, <1>2, Finals DEF Init, SharedInv, Says
<1>7. ASSUME NEW c \in Clients PROVE ClientInv(c)
  <2>1. str[c] = Closed /\ slot[c] = NoSlot /\ seen[c] = Nothing
    BY <1>1 DEF Init
  <2>2. str[c].at = "off" /\ str[c].status = ""
    <3>1. Closed.at = "off"
      BY DEF Closed
    <3>2. Closed.status = ""
      BY DEF Closed
    <3> QED  BY <2>1, <3>1, <3>2
  <2>3. slot[c].status = "" /\ seen[c].status = ""
    <3>1. NoSlot.status = ""
      BY DEF NoSlot
    <3>2. Nothing.status = ""
      BY DEF Nothing
    <3> QED  BY <2>1, <3>1, <3>2
  <2> QED  BY <2>2, <2>3, Finals DEF ClientInv, Says, Opened, Window
<1> QED  BY <1>5, <1>6, <1>7 DEF LiveInv

\* A step keeps the invariant, and shows a client only what is news to it.
LEMMA LiveStepInv ==
    ASSUME LiveInv, [Next]_vars
    PROVE  /\ LiveInv'
           /\ \A c \in Clients : seen'[c] # seen[c] => seen'[c].ord > seen[c].ord
<1>1. CASE UNCHANGED vars
  <2>1. UNCHANGED <<mode, store, replica, notify, sub, conn, str, slot, seen>>
    BY <1>1 DEF vars
  <2>2. LiveType' /\ SharedInv'
    BY <2>1 DEF LiveInv, LiveType, SharedInv, Says
  <2>3. ASSUME NEW d \in Clients PROVE ClientInv(d)'
    BY <2>1, OthersKept DEF LiveInv
  <2> QED  BY <2>1, <2>2, <2>3 DEF LiveInv
<1>2. CASE UNCHANGED mode /\ \E c \in Clients : Send(c)
  BY <1>2, SendKeeps
<1>3. CASE UNCHANGED mode /\ \E c \in Clients : Open(c) \/ Register(c) \/ Snapshot(c)
  <2>1. LiveInv'
    BY <1>3, OpenKeeps, RegisterKeeps, SnapshotKeeps
  <2>2. seen' = seen
    BY <1>3 DEF Open, Register, Snapshot
  <2> QED  BY <2>1, <2>2
<1>4. CASE UNCHANGED mode /\ \E c \in Clients : Take(c) \/ Reread(c) \/ Poll(c) \/ Close(c)
  <2>1. LiveInv'
    BY <1>4, TakeKeeps, RereadKeeps, PollKeeps, CloseKeeps
  <2>2. seen' = seen
    BY <1>4 DEF Take, Reread, Poll, Close
  <2> QED  BY <2>1, <2>2
<1>5. CASE UNCHANGED mode /\ \E k \in DOMAIN notify : NotifyStep(k)
  <2>1. LiveInv'
    BY <1>5, NotifyReadsKeeps, NotifyPublishesKeeps DEF NotifyStep
  <2>2. seen' = seen
    BY <1>5 DEF NotifyStep, NotifyReads, NotifyPublishes
  <2> QED  BY <2>1, <2>2
<1>6. CASE UNCHANGED mode /\ \E status \in {"created"} \cup Outcomes : Project(status)
  <2>1. LiveInv'
    BY <1>6, ProjectKeeps
  <2>2. seen' = seen
    BY <1>6 DEF Project
  <2> QED  BY <2>1, <2>2
<1>7. CASE UNCHANGED mode /\ (InsertPending \/ Replicate \/ Subscribe \/ Drop \/ Shutdown)
  <2>1. LiveInv'
    BY <1>7, InsertPendingKeeps, ReplicateKeeps, SubscribeKeeps, DropKeeps
  <2>2. seen' = seen
    BY <1>7 DEF InsertPending, Replicate, Subscribe, Drop, Shutdown
  <2> QED  BY <2>1, <2>2
<1>8. CASE UNCHANGED mode /\ (BroadcastRefresh \/ dispatch)
  <2>1. LiveInv'
    BY <1>8, RefreshKeeps, DispatchKeeps
  <2>2. seen' = seen
    BY <1>8 DEF BroadcastRefresh, dispatch
  <2> QED  BY <2>1, <2>2
<1> QED  BY <1>1, <1>2, <1>3, <1>4, <1>5, <1>6, <1>7, <1>8 DEF Next, Step

LEMMA LiveInvariance == Spec => []LiveInv
<1>1. LiveInv /\ [Next]_vars => LiveInv'
  BY LiveStepInv
<1> QED  BY <1>1, LiveInitInv, PTL DEF Spec

\* However events, broadcasts, reconnects and streams interleave, when reads
\* are current and Notify succeeds an idle stream whose client lacks the final
\* status is about to be woken (Stream: "no window in which a terminal status
\* can be missed").
THEOREM NothingIsMissed == Spec => []NoWindow
<1>1. LiveInv => NoWindow
  <2>1. SUFFICES ASSUME LiveInv, ~mode.lag, ~mode.bestEffort, NEW c \in Clients,
                        store \in Terminal, str[c].at = "loop", ~slot[c].woken, str[c].last < 2
                 PROVE  Announcing \/ conn # <<>> \/ sub # "live"
    BY DEF NoWindow
  <2>2. str[c].last # 2
    BY SMT, <2>1
  <2>3. ~AtHand(c)
    BY <2>1 DEF AtHand
  <2>4. Coming
    BY <2>1, <2>2, <2>3 DEF LiveInv, ClientInv, Window, Prompt, Opened
  <2>5. CASE \E k \in DOMAIN notify : notify[k].read = "" \/ notify[k].read = store
    BY <2>1, <2>5, Finals DEF Announcing
  <2>6. CASE \E k \in DOMAIN conn : conn[k] = store
    BY SMT, <2>6
  <2> QED  BY <2>4, <2>5, <2>6 DEF Coming
<1> QED  BY <1>1, LiveInvariance, PTL

\* What a client is shown only moves forward, over coalescing, stale reads and
\* reconnects, and a final status it is shown is the order's own, also when a
\* losing outcome arrives later (send, Precedence of the projection).
THEOREM StreamsAreTruthful == Spec => StreamTruthful
<1>1. LiveInv => FinalIsTrue
  BY DEF LiveInv, ClientInv, Says, FinalIsTrue
<1>2. LiveInv /\ [Next]_vars
        => [\A c \in Clients : seen'[c] # seen[c] => seen'[c].ord > seen[c].ord]_vars
  BY LiveStepInv
<1>3. Spec => []FinalIsTrue
  BY <1>1, LiveInvariance, PTL
<1>4. Spec => NoRegression
  BY <1>2, LiveInvariance, PTL DEF Spec, NoRegression
<1> QED  BY <1>3, <1>4 DEF StreamTruthful

--------------------------------------------------------------------------------
(* The two-tier cache.  A copy's lag and the ticks it has left never add up to *)
(* more than its tier allows, and from the moment Delete has emptied L2 what   *)
(* is stored, or about to be, is the current row.                              *)

\* Ticks since a version was superseded; none for the current one.
Lag(v) == IF v < db THEN age[v] ELSE 0

\* Delete has emptied L2, or is over, and nothing excuses an old copy.
Settled == ~excuse /\ writer \in {"publish", "idle"}
Rest == ~excuse /\ writer = "idle"

\* A version that is stored, or about to be: at most n ticks old, and the
\* current one once Delete has emptied L2.
Holds(v, n) == v <= db /\ Lag(v) <= n /\ (Settled => v = db)

L2Inv == l2 # None => Holds(l2.v, LoaderTimeout + TTL - l2.left)
FlightInv(i) ==
  /\ flight[i].pc = "load" => flight[i].v = Zero
  /\ flight[i].pc = "fill" => Holds(flight[i].v, LoaderTimeout + TTL - 1)
  /\ flight[i].pc \in {"set2", "publish", "set1"} => Holds(flight[i].v, flight[i].age)
CallInv(c) ==
  /\ call[c].pc = "fill" => Holds(call[c].v, LoaderTimeout + TTL - 1)
  /\ Served(c) => Lag(call[c].v) <= Bound
L1Inv(i) ==
  l1[i] # None =>
    /\ l1[i].v <= db
    /\ Lag(l1[i].v) + l1[i].left <= LoaderTimeout + TTL - 1 + DefaultTTL
    /\ feed[i] = "resubscribing" => l1[i].gap
    /\ Rest /\ i # WriterAt /\ feed[i] = "live"
         => l1[i].v = db \/ l1[i].gap \/ inbox[i] > 0

CacheInv ==
  /\ CacheType /\ L2Inv
  /\ \A i \in Instances : FlightInv(i) /\ L1Inv(i)
  /\ \A c \in Callers : CallInv(c)

--------------------------------------------------------------------------------
(* Types. *)

\* The TTLs and the loader's timeout are whole numbers of ticks (Config).
LEMMA CacheNatural ==
  /\ Versions = 0..MaxVersion /\ MaxVersion \in Nat /\ MaxInbox \in Nat /\ LoaderTimeout \in Nat
  /\ TTL \in Nat /\ TTL >= 1 /\ DefaultTTL \in Nat /\ DefaultTTL >= 1
  /\ Zero \in Nat /\ Zero > MaxVersion
  /\ Bound \in Nat /\ Cap \in Nat /\ Cap = Bound + 1
BY SMT, CacheAssumption DEF Versions, Zero, Bound, Cap

\* What an entry of either tier is (Set and the fill of L1 in Get).
LEMMA EntryFields ==
  ASSUME NEW e \in Entries, e # None
  PROVE  e.v \in Versions /\ e.left \in Nat /\ e.left >= 1 /\ e.gap \in BOOLEAN
BY SMT, CacheNatural DEF Entries

LEMMA EntryMade ==
  ASSUME NEW v \in Versions, NEW n \in 1..(TTL + DefaultTTL), NEW g \in BOOLEAN
  PROVE  /\ [v |-> v, left |-> n, gap |-> g] \in Entries
         /\ [v |-> v, left |-> n, gap |-> g] # None
<1>1. [v |-> v, left |-> n, gap |-> g] \in Entries
  BY SMT DEF Entries
<1>2. [v |-> v, left |-> n, gap |-> g].left # None.left
  BY SMT, CacheNatural DEF None
<1> QED BY <1>1, <1>2

\* A load moves (the closure of GetOrLoad's flight).
LEMMA FlightMoved ==
  ASSUME CacheType, NEW i \in Instances,
         NEW pc \in {"none", "get1", "get2", "fill", "load", "set2", "publish", "set1"},
         NEW v \in Values, FlightGoes(i, pc, v)
  PROVE  /\ flight' \in [Instances -> Flights]
         /\ flight'[i].pc = pc /\ flight'[i].v = v /\ flight'[i].age = flight[i].age
         /\ \A j \in Instances : j # i => flight'[j] = flight[j]
         /\ call' = call
BY SMT DEF CacheType, Calls, Flights, FlightGoes

\* The load is over and those who wait have its outcome (GetOrLoad).
Ended(i, kind, v) ==
  /\ call' \in [Callers -> Calls]
  /\ \A c \in Callers : \/ call'[c] = call[c]
                        \/ call'[c].pc = "done" /\ call'[c].v = v /\ call'[c].kind = kind
  /\ flight' \in [Instances -> Flights]
  /\ flight'[i].pc = "none"
  /\ \A j \in Instances : j # i => flight'[j] = flight[j]

\* That is what Deliver does (GetOrLoad).
LEMMA DeliverEnds ==
  ASSUME CacheType, NEW i \in Instances, NEW v \in Values,
         NEW kind \in {"none", "value", "error", "cancelled"}, Deliver(i, kind, v)
  PROVE  Ended(i, kind, v)
<1>1. (CHOOSE c \in Callers : TRUE) \in Callers
  BY Zenon, CacheAssumption
<1>2. PICK ch \in Callers : ch = CHOOSE c \in Callers : TRUE
  BY Zenon, <1>1
<1>3. NoFlight = [pc |-> "none", leader |-> ch, v |-> Zero, age |-> 0]
  BY Zenon, <1>2 DEF NoFlight
<1>4. flight' = [flight EXCEPT ![i] = [pc |-> "none", leader |-> ch, v |-> Zero, age |-> 0]]
  BY Zenon, <1>3 DEF Deliver
<1>5. /\ flight' \in [Instances -> Flights]
      /\ flight'[i].pc = "none"
      /\ \A j \in Instances : j # i => flight'[j] = flight[j]
  BY SMT, <1>4, CacheNatural DEF CacheType, Calls, Flights, Values
<1>6. /\ call' \in [Callers -> Calls]
      /\ \A c \in Callers : \/ call'[c] = call[c]
                            \/ call'[c].pc = "done" /\ call'[c].v = v /\ call'[c].kind = kind
  BY SMT DEF CacheType, Calls, Flights, Deliver
<1> QED BY <1>5, <1>6 DEF Ended

--------------------------------------------------------------------------------
(* What the others keep while one of them steps. *)

\* A step that makes no version older and asks no more of the stored ones.
Eases ==
  /\ db' >= db /\ db' \in Versions
  /\ \A v \in Values : Lag(v)' \in Nat /\ Lag(v)' <= Lag(v)
  /\ Settled' => Settled /\ db' = db
  /\ Rest' => Rest

\* The age of a version is a number of ticks (the TTLs of Set and Get).
LEMMA LagNatural ==
  ASSUME CacheType, NEW v \in Values
  PROVE  Lag(v) \in Nat
BY SMT, CacheNatural DEF CacheType, Calls, Flights, Values, Lag

\* Reads and fills write neither the row nor the course of Delete (Get, Set).
LEMMA Unwritten ==
  ASSUME CacheType, UNCHANGED source, UNCHANGED excuse
  PROVE  Eases
<1>1. db' = db /\ age' = age /\ writer' = writer /\ excuse' = excuse
  BY DEF source
<1>2. \A v \in Values : Lag(v)' = Lag(v)
  BY Zenon, <1>1 DEF Lag
<1>3. \A v \in Values : Lag(v)' \in Nat /\ Lag(v)' <= Lag(v)
  BY SMT, <1>2, LagNatural
<1>4. db' >= db /\ db' \in Versions
  BY SMT, <1>1, CacheNatural DEF CacheType, Calls, Flights
<1>5. (Settled' => Settled /\ db' = db) /\ (Rest' => Rest)
  BY SMT, <1>1 DEF Settled, Rest
<1> QED BY <1>3, <1>4, <1>5 DEF Eases

\* Whoever holds a version still may.
LEMMA HoldsKept ==
  ASSUME CacheType, Eases, NEW v \in Values, NEW n \in Int, Holds(v, n)
  PROVE  /\ v <= db' /\ Lag(v)' <= n
         /\ Settled' => v = db'
<1>1. Lag(v) \in Nat /\ Lag(v)' \in Nat /\ Lag(v)' <= Lag(v) /\ Lag(v) <= n
  BY LagNatural DEF Eases, Holds
<1>2. Lag(v)' <= n
  BY SMT, <1>1
<1>3. v <= db' 
  BY SMT, CacheNatural DEF Eases, Holds, CacheType, Calls, Flights, Values
<1>4. Settled' => v = db'
  BY DEF Eases, Holds
<1> QED BY <1>2, <1>3, <1>4

LEMMA L2Kept ==
  ASSUME CacheType, Eases, L2Inv, l2' = l2
  PROVE  L2Inv'
<1>1. SUFFICES ASSUME l2 # None PROVE Holds(l2.v, LoaderTimeout + TTL - l2.left)'
  BY DEF L2Inv, None
<1>2. PICK v \in Values, n \in Int : v = l2.v /\ n = LoaderTimeout + TTL - l2.left
  <2>1. l2.v \in Versions /\ l2.left \in Nat
    BY <1>1, EntryFields DEF CacheType
  <2> QED BY SMT, <2>1, CacheNatural DEF Values
<1>3. Holds(v, n)
  BY <1>1, <1>2 DEF L2Inv
<1>4. v <= db' /\ Lag(v)' <= n /\ (Settled' => v = db')
  BY <1>3, HoldsKept
<1>5. v = l2'.v /\ n = LoaderTimeout + TTL - l2'.left
  BY <1>2
<1> QED BY <1>4, <1>5 DEF Holds, Lag

LEMMA FlightKept ==
  ASSUME CacheType, Eases, NEW i \in Instances, FlightInv(i), flight'[i] = flight[i]
  PROVE  FlightInv(i)'
<1>1. PICK v \in Values, n \in Int : v = flight[i].v /\ n = flight[i].age
  BY SMT, CacheNatural DEF CacheType, Calls, Flights
<1>2. v = flight'[i].v /\ n = flight'[i].age
  BY <1>1
<1>3. PICK m \in Int : m = LoaderTimeout + TTL - 1
  BY SMT, CacheNatural
<1>4. Holds(v, m) => v <= db' /\ Lag(v)' <= m /\ (Settled' => v = db')
  BY HoldsKept
<1>5. Holds(v, n) => v <= db' /\ Lag(v)' <= n /\ (Settled' => v = db')
  BY HoldsKept
<1>6. (flight[i].pc = "load" => flight[i].v = Zero)'
  BY DEF FlightInv, Zero
<1>7. (flight[i].pc = "fill" => Holds(flight[i].v, LoaderTimeout + TTL - 1))'
  BY <1>1, <1>2, <1>3, <1>4 DEF FlightInv, Holds, Lag
<1>8. (flight[i].pc \in {"set2", "publish", "set1"} => Holds(flight[i].v, flight[i].age))'
  BY <1>1, <1>2, <1>5 DEF FlightInv, Holds, Lag
<1> QED BY <1>6, <1>7, <1>8 DEF FlightInv

LEMMA CallKept ==
  ASSUME CacheType, Eases, NEW c \in Callers, CallInv(c), call'[c] = call[c]
  PROVE  CallInv(c)'
<1>1. PICK v \in Values : v = call[c].v
  BY SMT, CacheNatural DEF CacheType, Calls, Flights
<1>2. v = call'[c].v
  BY <1>1
<1>3. PICK m \in Int : m = LoaderTimeout + TTL - 1
  BY SMT, CacheNatural
<1>4. Holds(v, m) => v <= db' /\ Lag(v)' <= m /\ (Settled' => v = db')
  BY HoldsKept
<1>5. Lag(v) <= Bound => Lag(v)' <= Bound
  <2>1. Lag(v) \in Nat /\ Lag(v)' \in Nat /\ Lag(v)' <= Lag(v)
    BY LagNatural DEF Eases
  <2> QED BY SMT, <2>1, CacheNatural
<1>6. (call[c].pc = "fill" => Holds(call[c].v, LoaderTimeout + TTL - 1))'
  BY <1>1, <1>2, <1>3, <1>4 DEF CallInv, Holds, Lag
<1>7. (Served(c) => Lag(call[c].v) <= Bound)'
  BY <1>1, <1>2, <1>5 DEF CallInv, Served, Lag, Bound
<1> QED BY <1>6, <1>7 DEF CallInv

LEMMA L1Kept ==
  ASSUME CacheType, Eases, NEW i \in Instances, L1Inv(i), l1'[i] = l1[i],
         feed'[i] = feed[i], inbox[i] > 0 => inbox'[i] > 0
  PROVE  L1Inv(i)'
<1>1. SUFFICES ASSUME l1[i] # None
               PROVE (/\ l1[i].v <= db
                      /\ Lag(l1[i].v) + l1[i].left <= LoaderTimeout + TTL - 1 + DefaultTTL
                      /\ feed[i] = "resubscribing" => l1[i].gap
                      /\ Rest /\ i # WriterAt /\ feed[i] = "live"
                            => l1[i].v = db \/ l1[i].gap \/ inbox[i] > 0)'
  BY DEF L1Inv, None
<1>2. PICK v \in Versions, n \in Nat : v = l1[i].v /\ n = l1[i].left
  BY <1>1, EntryFields DEF CacheType
<1>3. v = l1'[i].v /\ n = l1'[i].left /\ v \in Values
  BY <1>2 DEF Values
<1>4. Lag(v) \in Nat /\ Lag(v)' \in Nat /\ Lag(v)' <= Lag(v)
  BY <1>3, LagNatural DEF Eases
<1>5. v <= db /\ Lag(v) + n <= LoaderTimeout + TTL - 1 + DefaultTTL
  BY <1>1, <1>2 DEF L1Inv
<1>6. Lag(v)' + n <= LoaderTimeout + TTL - 1 + DefaultTTL
  BY SMT, <1>4, <1>5, CacheNatural
<1>7. (Lag(l1[i].v) + l1[i].left <= LoaderTimeout + TTL - 1 + DefaultTTL)'
  BY <1>3, <1>6 DEF Lag
<1>8. v <= db'
  BY SMT, <1>5, CacheNatural DEF Eases, CacheType, Calls, Flights
<1>9. (l1[i].v <= db)'
  BY <1>3, <1>8
<1>10. (feed[i] = "resubscribing" => l1[i].gap)'
  BY <1>1 DEF L1Inv
<1>11. Rest' => Rest /\ db' = db
  BY DEF Eases, Rest, Settled
<1>12. (Rest /\ i # WriterAt /\ feed[i] = "live" => l1[i].v = db \/ l1[i].gap \/ inbox[i] > 0)'
  BY <1>1, <1>11 DEF L1Inv
<1> QED BY <1>7, <1>9, <1>10, <1>12

--------------------------------------------------------------------------------
(* Queries and loads. *)

\* A query moves and nothing else does (GetL1, GetL2, Cancel, Return).
LEMMA CallInvKept ==
  ASSUME CacheInv, NEW c \in Callers,
         NEW pc \in {"idle", "get", "fill", "join", "wait", "done"}, NEW v \in Values,
         NEW kind \in {"none", "value", "error", "cancelled"},
         call' = [call EXCEPT ![c] = [pc |-> pc, v |-> v, kind |-> kind]],
         UNCHANGED <<source, excuse>>,
         pc = "fill" => Holds(v, LoaderTimeout + TTL - 1),
         pc = "done" /\ kind = "value" => Lag(v) <= Bound
  PROVE  /\ call' \in [Callers -> Calls]
         /\ \A d \in Callers : CallInv(d)'
<1> CacheType /\ \A d \in Callers : CallInv(d)
  BY DEF CacheInv
<1>1. /\ call' \in [Callers -> Calls]
      /\ call'[c].pc = pc /\ call'[c].v = v /\ call'[c].kind = kind
      /\ \A d \in Callers : d # c => call'[d] = call[d]
  BY SMT DEF CacheType, Calls, Flights
<1>2. db' = db /\ age' = age /\ writer' = writer /\ excuse' = excuse
  BY DEF source
<1>3. Eases
  BY <1>2, Unwritten DEF source
<1>4. CallInv(c)'
  <2>1. pc = "fill" => v <= db' /\ Lag(v)' <= LoaderTimeout + TTL - 1 /\ (Settled' => v = db')
    <3>1. LoaderTimeout + TTL - 1 \in Int
      BY SMT, CacheNatural
    <3> QED BY <1>3, <3>1, HoldsKept
  <2>3. (call[c].pc = "fill" => Holds(call[c].v, LoaderTimeout + TTL - 1))'
    BY <1>1, <2>1 DEF Holds, Lag
  <2>2. (Served(c) => Lag(call[c].v) <= Bound)'
    BY <1>1, <1>2 DEF Served, Lag, Bound
  <2> QED BY <2>2, <2>3 DEF CallInv
<1>5. ASSUME NEW d \in Callers, d # c PROVE CallInv(d)'
  BY <1>1, <1>3, <1>5, CallKept
<1> QED BY <1>1, <1>4, <1>5

\* Nothing but the queries changes.
LEMMA OnlyCalls ==
  ASSUME CacheInv, UNCHANGED <<source, l1, redis, feed, flight, excuse>>,
         call' \in [Callers -> Calls],
         \A d \in Callers : CallInv(d)'
  PROVE  CacheInv'
<1> CacheType /\ L2Inv /\ (\A i \in Instances : FlightInv(i) /\ L1Inv(i))
  BY DEF CacheInv
<1>1. /\ db' = db /\ age' = age /\ writer' = writer /\ excuse' = excuse
      /\ l1' = l1 /\ l2' = l2 /\ inbox' = inbox /\ feed' = feed /\ flight' = flight
  BY DEF source, redis
<1>2. Eases
  BY <1>1, Unwritten DEF source
<1>3. CacheType'
  BY <1>1 DEF CacheType, Versions, Cap, Bound, Entries, None, Values, Zero, Calls, Flights
<1>4. L2Inv'
  BY <1>1, <1>2, L2Kept
<1>5. \A i \in Instances : FlightInv(i)' /\ L1Inv(i)'
  BY <1>1, <1>2, FlightKept, L1Kept
<1> QED BY <1>3, <1>4, <1>5 DEF CacheInv

\* The values stored in a tier can be answered with (the hits of Get).
LEMMA HitIsBounded ==
  ASSUME CacheInv, NEW i \in Instances, l1[i] # None
  PROVE  l1[i].v \in Values /\ Lag(l1[i].v) <= Bound
<1> CacheType /\ L1Inv(i)
  BY DEF CacheInv
<1>1. PICK v \in Versions, n \in Nat : v = l1[i].v /\ n = l1[i].left /\ n >= 1
  BY EntryFields DEF CacheType
<1>2. Lag(v) + n <= LoaderTimeout + TTL - 1 + DefaultTTL
  BY <1>1 DEF L1Inv
<1>3. v \in Values
  BY DEF Values
<1>4. Lag(v) \in Nat
  BY <1>3, LagNatural
<1>5. Lag(v) <= Bound
  BY SMT, <1>1, <1>2, <1>4, CacheNatural, CacheAssumption DEF Bound
<1> QED BY <1>1, <1>3, <1>5

LEMMA ReadIsBounded ==
  ASSUME CacheInv, l2 # None
  PROVE  l2.v \in Values /\ l2.v \in Versions /\ Holds(l2.v, LoaderTimeout + TTL - 1)
<1> CacheType /\ L2Inv
  BY DEF CacheInv
<1>1. PICK v \in Versions, n \in Nat : v = l2.v /\ n = l2.left /\ n >= 1
  BY EntryFields DEF CacheType
<1>2. Holds(v, LoaderTimeout + TTL - n)
  BY <1>1 DEF L2Inv
<1>3. v \in Values
  BY DEF Values
<1>4. Lag(v) \in Nat
  BY <1>3, LagNatural
<1>5. Lag(v) <= LoaderTimeout + TTL - 1
  BY SMT, <1>1, <1>2, <1>4, CacheNatural DEF Holds
<1> QED BY <1>1, <1>2, <1>3, <1>5 DEF Holds

LEMMA ZeroIsNobodys ==
  ASSUME CacheType
  PROVE  Zero \in Values /\ Lag(Zero) = 0 /\ Lag(Zero) <= Bound
BY SMT, CacheNatural DEF CacheType, Calls, Flights, Lag, Values

LEMMA GetInv ==
  ASSUME CacheInv, NEW c \in Callers, GetL1(c) \/ GetL2(c) \/ Return(c)
  PROVE  CacheInv'
<1> CacheType
  BY DEF CacheInv
<1>z. Zero \in Values
  BY ZeroIsNobodys
<1>u. UNCHANGED <<source, l1, redis, feed, flight, excuse>>
  BY DEF GetL1, GetL2, Return
<1>1. ASSUME l1[At[c]] # None, Answer(c, "value", l1[At[c]].v) PROVE CacheInv'
  <2>1. At[c] \in Instances
    BY CacheAssumption
  <2>2. PICK v \in Values : v = l1[At[c]].v /\ Lag(v) <= Bound
    BY <1>1, <2>1, HitIsBounded
  <2>3. call' = [call EXCEPT ![c] = [pc |-> "done", v |-> v, kind |-> "value"]]
    BY <1>1, <2>2 DEF Answer
  <2> QED BY <1>u, <2>2, <2>3, CallInvKept, OnlyCalls
<1>2. ASSUME NEW pc \in {"get", "join"}, CallGoes(c, pc, Zero) PROVE CacheInv'
  <2>1. call' = [call EXCEPT ![c] = [pc |-> pc, v |-> Zero, kind |-> "none"]]
    BY <1>2 DEF CallGoes
  <2>2. pc # "fill" /\ pc # "done" /\ pc \in {"idle", "get", "fill", "join", "wait", "done"}
    BY <1>2
  <2> QED BY <1>u, <1>z, <2>1, <2>2, CallInvKept, OnlyCalls
<1>3. ASSUME l2 # None, CallGoes(c, "fill", l2.v) PROVE CacheInv'
  <2>1. PICK v \in Values : v = l2.v /\ Holds(v, LoaderTimeout + TTL - 1)
    BY <1>3, ReadIsBounded
  <2>2. call' = [call EXCEPT ![c] = [pc |-> "fill", v |-> v, kind |-> "none"]]
    BY <1>3, <2>1 DEF CallGoes
  <2> QED BY <1>u, <2>1, <2>2, CallInvKept, OnlyCalls
<1>4. ASSUME Return(c) PROVE CacheInv'
  <2>1. call' = [call EXCEPT ![c] = [pc |-> "idle", v |-> Zero, kind |-> "none"]]
    BY <1>4 DEF Return, Idle
  <2> QED BY <1>u, <1>z, <2>1, CallInvKept, OnlyCalls
<1>5. CASE GetL1(c)
  BY <1>1, <1>2, <1>5 DEF GetL1
<1>6. CASE GetL2(c)
  BY <1>2, <1>3, <1>6 DEF GetL2
<1> QED BY <1>4, <1>5, <1>6

\* A value is put into L1 (the fill of Get, Set).
LEMMA StoredInL1 ==
  ASSUME CacheInv, NEW i \in Instances, NEW v \in Versions, NEW n \in 1..(TTL + DefaultTTL),
         l1' = [l1 EXCEPT ![i] = Entry(v, n, i)], UNCHANGED <<source, inbox, feed, excuse>>,
         v <= db, Lag(v) + n <= LoaderTimeout + TTL - 1 + DefaultTTL, Settled => v = db
  PROVE  l1' \in [Instances -> Entries] /\ \A j \in Instances : L1Inv(j)'
<1> CacheType /\ \A j \in Instances : L1Inv(j)
  BY DEF CacheInv
<1>1. /\ db' = db /\ age' = age /\ writer' = writer /\ excuse' = excuse
      /\ inbox' = inbox /\ feed' = feed
  BY DEF source
<1>2. Eases
  BY <1>1, Unwritten DEF source
<1>3. PICK g \in BOOLEAN : g = (feed[i] # "live")
  OBVIOUS
<1>4. PICK e \in Entries : e = [v |-> v, left |-> n, gap |-> g]
  BY EntryMade
<1>5. l1' = [l1 EXCEPT ![i] = e]
  BY <1>3, <1>4 DEF Entry
<1>6. l1' \in [Instances -> Entries] /\ l1'[i] = e /\ \A j \in Instances : j # i => l1'[j] = l1[j]
  BY SMT, <1>5 DEF CacheType, Calls, Flights
<1>7. e.v = v /\ e.left = n /\ e.gap = g
  BY SMT, <1>4
<1>8. L1Inv(i)'
  <2>1. (l1[i].v <= db)'
    BY <1>1, <1>6, <1>7
  <2>2. (Lag(l1[i].v) + l1[i].left <= LoaderTimeout + TTL - 1 + DefaultTTL)'
    BY <1>1, <1>6, <1>7 DEF Lag
  <2>3. (feed[i] = "resubscribing" => l1[i].gap)'
    BY <1>1, <1>3, <1>6, <1>7
  <2>4. (Rest /\ i # WriterAt /\ feed[i] = "live" => l1[i].v = db \/ l1[i].gap \/ inbox[i] > 0)'
    BY <1>1, <1>2, <1>6, <1>7 DEF Eases, Rest, Settled
  <2> QED BY <2>1, <2>2, <2>3, <2>4 DEF L1Inv
<1>9. ASSUME NEW j \in Instances, j # i PROVE L1Inv(j)'
  BY <1>1, <1>2, <1>6, <1>9, L1Kept
<1> QED BY <1>6, <1>8, <1>9

\* What an L2 hit leaves in L1 (Get).
LEMMA Filled ==
  ASSUME CacheInv, NEW i \in Instances, NEW v \in Values,
         Holds(v, LoaderTimeout + TTL - 1), Fill(i, v), UNCHANGED <<source, inbox, feed, excuse>>
  PROVE  /\ l1' \in [Instances -> Entries] /\ \A j \in Instances : L1Inv(j)'
         /\ Lag(v) <= Bound
<1> CacheType
  BY DEF CacheInv
<1>1. Lag(v) \in Nat /\ v <= db /\ Lag(v) <= LoaderTimeout + TTL - 1 /\ (Settled => v = db)
  BY LagNatural DEF Holds
<1>2. Lag(v) + DefaultTTL <= LoaderTimeout + TTL - 1 + DefaultTTL /\ Lag(v) <= Bound
  BY SMT, <1>1, CacheNatural DEF Bound
<1>3. v \in Versions /\ DefaultTTL \in 1..(TTL + DefaultTTL)
  BY SMT, <1>1, CacheNatural DEF CacheType, Calls, Flights, Values
<1>4. l1' = [l1 EXCEPT ![i] = Entry(v, DefaultTTL, i)]
  BY DEF Fill
<1> QED BY <1>1, <1>2, <1>3, <1>4, StoredInL1

LEMMA GetFillsInv ==
  ASSUME CacheInv, NEW c \in Callers, GetFills(c)
  PROVE  CacheInv'
<1> CacheType /\ L2Inv /\ (\A i \in Instances : FlightInv(i)) /\ CallInv(c)
  BY DEF CacheInv
<1>1. /\ db' = db /\ age' = age /\ writer' = writer /\ excuse' = excuse
      /\ l2' = l2 /\ inbox' = inbox /\ feed' = feed /\ flight' = flight
  BY DEF source, redis, GetFills
<1>2. Eases
  BY <1>1, Unwritten DEF source
<1>3. PICK i \in Instances, v \in Values : i = At[c] /\ v = call[c].v
  BY CacheAssumption, SMT DEF CacheType, Calls, Flights
<1>4. Holds(v, LoaderTimeout + TTL - 1) /\ Fill(i, v)
  BY <1>3 DEF GetFills, CallInv
<1>5. l1' \in [Instances -> Entries] /\ (\A j \in Instances : L1Inv(j)') /\ Lag(v) <= Bound
  BY <1>1, <1>4, Filled DEF source
<1>6. call' = [call EXCEPT ![c] = [pc |-> "done", v |-> v, kind |-> "value"]]
  BY <1>3 DEF GetFills, Answer
<1>7. /\ call' \in [Callers -> Calls]
      /\ \A d \in Callers : CallInv(d)'
  BY <1>1, <1>5, <1>6, CallInvKept DEF source
<1>8. CacheType'
  BY <1>1, <1>5, <1>7 DEF CacheType, Versions, Cap, Bound, Entries, None, Values, Zero, Calls, Flights
<1>9. L2Inv' /\ \A j \in Instances : FlightInv(j)'
  BY <1>1, <1>2, L2Kept, FlightKept
<1> QED BY <1>5, <1>7, <1>8, <1>9 DEF CacheInv

LEMMA CancelInv ==
  ASSUME CacheInv, NEW c \in Callers, Cancel(c)
  PROVE  CacheInv'
<1> CacheType
  BY DEF CacheInv
<1>u. UNCHANGED <<source, l1, redis, feed, flight, excuse>>
  BY DEF Cancel
<1>1. PICK i \in Instances : i = At[c]
  BY CacheAssumption
<1>2. FlightInv(i) /\ flight[i].v \in Values /\ flight[i].age \in 0..LoaderTimeout
  BY SMT DEF CacheInv, CacheType, Calls, Flights
<1>3. ASSUME flight[i].pc \in {"load", "set2", "publish", "set1"} PROVE Lag(flight[i].v) <= Bound
  <2>1. CASE flight[i].pc = "load"
    BY <1>2, <2>1, ZeroIsNobodys DEF FlightInv
  <2>2. CASE flight[i].pc \in {"set2", "publish", "set1"}
    <3>1. Lag(flight[i].v) \in Nat /\ Lag(flight[i].v) <= flight[i].age
      BY <1>2, <2>2, LagNatural DEF FlightInv, Holds
    <3> QED BY SMT, <1>2, <3>1, CacheNatural, CacheAssumption DEF Bound
  <2> QED BY <1>3, <2>1, <2>2
<1>4. PICK v \in Values, kind \in {"none", "value", "error", "cancelled"} :
        /\ call' = [call EXCEPT ![c] = [pc |-> "done", v |-> v, kind |-> kind]]
        /\ kind = "value" => Lag(v) <= Bound
  <2>1. CASE flight[i].leader = c /\ flight[i].pc \in {"load", "set2", "publish", "set1"}
    BY <1>1, <1>2, <1>3, <2>1 DEF Cancel, Answer
  <2>2. CASE ~(flight[i].leader = c /\ flight[i].pc \in {"load", "set2", "publish", "set1"})
    BY <1>1, <2>2, ZeroIsNobodys DEF Cancel, Answer
  <2> QED BY <2>1, <2>2
<1> QED BY <1>u, <1>4, CallInvKept, OnlyCalls

\* A load moves on and its query waits (the flight of GetOrLoad).
LEMMA FlightGoesInv ==
  ASSUME CacheInv, NEW i \in Instances,
         NEW pc \in {"none", "get1", "get2", "fill", "load", "set2", "publish", "set1"},
         NEW v \in Values, FlightGoes(i, pc, v),
         UNCHANGED <<source, l1, feed, excuse>>, l2' \in Entries, L2Inv',
         inbox' \in [Instances -> 0..MaxInbox],
         \A j \in Instances : inbox[j] > 0 => inbox'[j] > 0,
         pc = "load" => v = Zero,
         pc = "fill" => Holds(v, LoaderTimeout + TTL - 1),
         pc \in {"set2", "publish", "set1"} => Holds(v, flight[i].age)
  PROVE  CacheInv'
<1> /\ CacheType /\ (\A j \in Instances : FlightInv(j) /\ L1Inv(j))
    /\ \A c \in Callers : CallInv(c)
  BY DEF CacheInv
<1>1. /\ db' = db /\ age' = age /\ writer' = writer /\ excuse' = excuse
      /\ l1' = l1 /\ feed' = feed
  BY DEF source
<1>2. Eases
  BY <1>1, Unwritten DEF source
<1>3. /\ flight' \in [Instances -> Flights]
      /\ flight'[i].pc = pc /\ flight'[i].v = v /\ flight'[i].age = flight[i].age
      /\ \A j \in Instances : j # i => flight'[j] = flight[j]
      /\ call' = call
  BY FlightMoved
<1>4. FlightInv(i)'
  <2>1. flight[i].age \in Int /\ LoaderTimeout + TTL - 1 \in Int
    BY SMT, CacheNatural DEF CacheType, Calls, Flights
  <2>2. pc = "fill" => v <= db' /\ Lag(v)' <= LoaderTimeout + TTL - 1 /\ (Settled' => v = db')
    BY <1>2, <2>1, HoldsKept
  <2>3. pc \in {"set2", "publish", "set1"}
          => v <= db' /\ Lag(v)' <= flight[i].age /\ (Settled' => v = db')
    BY <1>2, <2>1, HoldsKept
  <2>4. (flight[i].pc = "load" => flight[i].v = Zero)'
    BY <1>3 DEF Zero
  <2>5. (flight[i].pc = "fill" => Holds(flight[i].v, LoaderTimeout + TTL - 1))'
    BY <1>3, <2>2 DEF Holds, Lag
  <2>6. (flight[i].pc \in {"set2", "publish", "set1"} => Holds(flight[i].v, flight[i].age))'
    BY <1>3, <2>3 DEF Holds, Lag
  <2> QED BY <2>4, <2>5, <2>6 DEF FlightInv
<1>5. \A j \in Instances : FlightInv(j)'
  BY <1>2, <1>3, <1>4, FlightKept
<1>6. \A j \in Instances : L1Inv(j)'
  BY <1>1, <1>2, L1Kept
<1>7. \A c \in Callers : CallInv(c)'
  BY <1>2, <1>3, CallKept
<1>8. CacheType'
  BY <1>1, <1>3 DEF CacheType, Versions, Cap, Bound, Entries, None, Values, Zero, Calls, Flights
<1> QED BY <1>5, <1>6, <1>7, <1>8 DEF CacheInv

\* A load ends and the queries that wait are answered (GetOrLoad).
LEMMA DeliverInv ==
  ASSUME CacheInv, NEW i \in Instances, NEW v \in Values,
         NEW kind \in {"none", "value", "error", "cancelled"}, Deliver(i, kind, v),
         UNCHANGED <<source, redis, feed, excuse>>,
         l1' \in [Instances -> Entries], \A j \in Instances : L1Inv(j)',
         kind = "value" => Lag(v) <= Bound
  PROVE  CacheInv'
<1> /\ CacheType /\ L2Inv /\ (\A j \in Instances : FlightInv(j))
    /\ \A c \in Callers : CallInv(c)
  BY DEF CacheInv
<1>1. /\ db' = db /\ age' = age /\ writer' = writer /\ excuse' = excuse
      /\ l2' = l2 /\ inbox' = inbox /\ feed' = feed
  BY DEF source, redis
<1>2. Eases
  BY <1>1, Unwritten DEF source
<1>3. Ended(i, kind, v)
  BY DeliverEnds
<1>4. FlightInv(i)'
  BY <1>3 DEF FlightInv, Ended
<1>5. \A j \in Instances : FlightInv(j)'
  BY <1>2, <1>3, <1>4, FlightKept DEF Ended
<1>6. ASSUME NEW c \in Callers PROVE CallInv(c)'
  <2>1. CASE call'[c] = call[c]
    BY <1>2, <2>1, CallKept
  <2>2. CASE call'[c].pc = "done" /\ call'[c].v = v /\ call'[c].kind = kind
    <3>1. (Served(c) => Lag(call[c].v) <= Bound)'
      BY <1>1, <2>2 DEF Served, Lag, Bound
    <3>2. (call[c].pc = "fill" => Holds(call[c].v, LoaderTimeout + TTL - 1))'
      BY <2>2
    <3> QED BY <3>1, <3>2 DEF CallInv
  <2> QED BY <1>3, <2>1, <2>2 DEF Ended
<1>7. L2Inv'
  BY <1>1, <1>2, L2Kept
<1>8. CacheType'
  BY <1>1, <1>3 DEF Ended, CacheType, Versions, Cap, Bound, Entries, None, Values, Zero, Calls, Flights
<1> QED BY <1>5, <1>6, <1>7, <1>8 DEF CacheInv

\* Nothing happens to the tiers or to the broadcasts.
LEMMA TiersKept ==
  ASSUME CacheInv, UNCHANGED <<source, l1, redis, feed, excuse>>
  PROVE  /\ l1' \in [Instances -> Entries] /\ (\A j \in Instances : L1Inv(j)')
         /\ l2' \in Entries /\ L2Inv' /\ inbox' \in [Instances -> 0..MaxInbox]
         /\ \A j \in Instances : inbox[j] > 0 => inbox'[j] > 0
<1> CacheType /\ L2Inv /\ \A j \in Instances : L1Inv(j)
  BY DEF CacheInv
<1>1. /\ db' = db /\ age' = age /\ writer' = writer /\ excuse' = excuse
      /\ l1' = l1 /\ l2' = l2 /\ inbox' = inbox /\ feed' = feed
  BY DEF source, redis
<1>2. Eases
  BY <1>1, Unwritten DEF source
<1>3. L2Inv' /\ \A j \in Instances : L1Inv(j)'
  BY <1>1, <1>2, L2Kept, L1Kept
<1> QED BY <1>1, <1>3 DEF CacheType

LEMMA JoinInv ==
  ASSUME CacheInv, NEW c \in Callers, Join(c)
  PROVE  CacheInv'
<1> CacheType /\ (\A j \in Instances : FlightInv(j))
  BY DEF CacheInv
<1>1. /\ db' = db /\ age' = age /\ writer' = writer /\ excuse' = excuse
      /\ l1' = l1 /\ l2' = l2 /\ inbox' = inbox /\ feed' = feed
  BY DEF source, redis, Join
<1>2. Eases
  BY <1>1, Unwritten DEF source
<1>3. call' = [call EXCEPT ![c] = [pc |-> "wait", v |-> Zero, kind |-> "none"]]
  BY DEF Join, CallGoes
<1>4. /\ call' \in [Callers -> Calls]
      /\ \A d \in Callers : CallInv(d)'
  BY <1>1, <1>3, CallInvKept, ZeroIsNobodys DEF source
<1>5. PICK i \in Instances : i = At[c]
  BY CacheAssumption
<1>6. CASE flight[i].pc # "none"
  <2>1. flight' = flight
    BY SMT, <1>5, <1>6 DEF Join, CacheType, Calls, Flights
  <2> QED BY <1>1, <1>4, <2>1, OnlyCalls DEF source, redis
<1>7. CASE flight[i].pc = "none"
  <2>1. flight' = [flight EXCEPT ![i] = [pc |-> "get1", leader |-> c, v |-> Zero, age |-> 0]]
    BY <1>5, <1>7 DEF Join
  <2>2. /\ flight' \in [Instances -> Flights]
        /\ flight'[i].pc = "get1"
        /\ \A j \in Instances : j # i => flight'[j] = flight[j]
    BY SMT, <2>1, CacheNatural DEF CacheType, Calls, Flights, Values
  <2>3. FlightInv(i)'
    BY <2>2 DEF FlightInv
  <2>4. \A j \in Instances : FlightInv(j)'
    BY <1>2, <2>2, <2>3, FlightKept
  <2>5. L2Inv' /\ \A j \in Instances : L1Inv(j)'
    BY <1>1, TiersKept DEF source, redis
  <2>6. CacheType'
    BY <1>1, <1>4, <2>2 DEF CacheType, Versions, Cap, Bound, Entries, None, Values, Zero, Calls, Flights
  <2> QED BY <1>4, <2>4, <2>5, <2>6 DEF CacheInv
<1> QED BY <1>6, <1>7

\* The second Get, inside the flight, and the loader (GetOrLoad, Caching).
LEMMA FlightReadsInv ==
  ASSUME CacheInv, NEW i \in Instances, FlightGetL1(i) \/ FlightGetL2(i) \/ Load(i)
  PROVE  CacheInv'
<1> CacheType
  BY DEF CacheInv
<1>z. Zero \in Values
  BY ZeroIsNobodys
<1>u. UNCHANGED <<source, l1, redis, feed, excuse>>
  BY DEF FlightGetL1, FlightGetL2, Load
<1>t. /\ l1' \in [Instances -> Entries] /\ (\A j \in Instances : L1Inv(j)')
      /\ l2' \in Entries /\ L2Inv' /\ inbox' \in [Instances -> 0..MaxInbox]
      /\ \A j \in Instances : inbox[j] > 0 => inbox'[j] > 0
  BY <1>u, TiersKept
<1>1. ASSUME l1[i] # None, Deliver(i, "value", l1[i].v) PROVE CacheInv'
  <2>1. PICK v \in Values : v = l1[i].v /\ Lag(v) <= Bound
    BY <1>1, HitIsBounded
  <2>2. Deliver(i, "value", v)
    BY <1>1, <2>1
  <2> QED BY <1>u, <1>t, <2>1, <2>2, DeliverInv
<1>2. ASSUME FlightGoes(i, "get2", Zero) PROVE CacheInv'
  BY <1>u, <1>t, <1>z, <1>2, FlightGoesInv
<1>3. ASSUME l2 # None, FlightGoes(i, "fill", l2.v) PROVE CacheInv'
  <2>1. PICK v \in Values : v = l2.v /\ Holds(v, LoaderTimeout + TTL - 1)
    BY <1>3, ReadIsBounded
  <2>2. FlightGoes(i, "fill", v)
    BY <1>3, <2>1
  <2> QED BY <1>u, <1>t, <2>1, <2>2, FlightGoesInv
<1>4. ASSUME FlightGoes(i, "load", Zero) PROVE CacheInv'
  BY <1>u, <1>t, <1>z, <1>4, FlightGoesInv
<1>5. ASSUME FlightGoes(i, "set2", db) PROVE CacheInv'
  <2>1. PICK v \in Values : v = db
    BY DEF CacheType, Values
  <2>2. v <= db /\ Lag(v) <= flight[i].age
    BY SMT, <2>1, CacheNatural DEF CacheType, Calls, Flights, Lag
  <2>3. Holds(v, flight[i].age) /\ FlightGoes(i, "set2", v)
    BY <1>5, <2>1, <2>2 DEF Holds
  <2> QED BY <1>u, <1>t, <2>3, FlightGoesInv
<1>6. ASSUME Deliver(i, "error", Zero) PROVE CacheInv'
  BY <1>u, <1>t, <1>z, <1>6, DeliverInv
<1>7. CASE FlightGetL1(i)
  BY <1>1, <1>2, <1>7 DEF FlightGetL1
<1>8. CASE FlightGetL2(i)
  BY <1>3, <1>4, <1>8 DEF FlightGetL2
<1>9. CASE Load(i)
  BY <1>5, <1>6, <1>9 DEF Load
<1> QED BY <1>7, <1>8, <1>9

LEMMA FlightFillsInv ==
  ASSUME CacheInv, NEW i \in Instances, FlightFills(i)
  PROVE  CacheInv'
<1> CacheType /\ FlightInv(i)
  BY DEF CacheInv
<1>1. PICK v \in Values : v = flight[i].v
  BY SMT DEF CacheType, Calls, Flights
<1>2. /\ Holds(v, LoaderTimeout + TTL - 1) /\ Fill(i, v) /\ Deliver(i, "value", v)
      /\ UNCHANGED <<source, redis, feed, excuse>>
  BY <1>1 DEF FlightFills, FlightInv
<1>3. UNCHANGED <<source, inbox, feed, excuse>>
  BY <1>2 DEF redis
<1>4. l1' \in [Instances -> Entries] /\ (\A j \in Instances : L1Inv(j)') /\ Lag(v) <= Bound
  BY <1>2, <1>3, Filled
<1> QED BY <1>2, <1>4, DeliverInv

LEMMA SetL1Inv ==
  ASSUME CacheInv, NEW i \in Instances, SetL1(i)
  PROVE  CacheInv'
<1> CacheType /\ FlightInv(i)
  BY DEF CacheInv
<1>1. PICK v \in Values, n \in 0..LoaderTimeout : v = flight[i].v /\ n = flight[i].age
  BY SMT DEF CacheType, Calls, Flights
<1>2. /\ Holds(v, n) /\ Deliver(i, "value", v)
      /\ l1' = [l1 EXCEPT ![i] = Entry(v, TTL, i)]
      /\ UNCHANGED <<source, redis, feed, excuse>>
  BY <1>1 DEF SetL1, FlightInv
<1>3. UNCHANGED <<source, inbox, feed, excuse>>
  BY <1>2 DEF redis
<1>4. Lag(v) \in Nat /\ v <= db /\ Lag(v) <= n /\ (Settled => v = db)
  BY <1>2, LagNatural DEF Holds
<1>5. Lag(v) + TTL <= LoaderTimeout + TTL - 1 + DefaultTTL /\ Lag(v) <= Bound
  BY SMT, <1>4, CacheNatural DEF Bound
<1>6. v \in Versions /\ TTL \in 1..(TTL + DefaultTTL)
  BY SMT, <1>4, CacheNatural DEF CacheType, Calls, Flights, Values
<1>7. l1' \in [Instances -> Entries] /\ (\A j \in Instances : L1Inv(j)')
  BY <1>2, <1>3, <1>4, <1>5, <1>6, StoredInL1
<1> QED BY <1>2, <1>5, <1>7, DeliverInv

\* Set's first half: the value goes to L2, or fails to (Set).
LEMMA SetL2Inv ==
  ASSUME CacheInv, NEW i \in Instances, SetL2(i)
  PROVE  CacheInv'
<1> CacheType /\ FlightInv(i) /\ L2Inv
  BY DEF CacheInv
<1>1. PICK v \in Values, n \in 0..LoaderTimeout : v = flight[i].v /\ n = flight[i].age
  BY SMT DEF CacheType, Flights
<1>2. Holds(v, flight[i].age)
  BY <1>1 DEF SetL2, FlightInv
<1>3. UNCHANGED <<source, l1, inbox, feed, excuse>>
  BY DEF SetL2
<1>4. /\ db' = db /\ age' = age /\ writer' = writer /\ excuse' = excuse
      /\ inbox' = inbox /\ feed' = feed
  BY <1>3 DEF source
<1>5. Eases
  BY <1>4, Unwritten DEF source
<1>6. inbox' \in [Instances -> 0..MaxInbox] /\ \A j \in Instances : inbox[j] > 0 => inbox'[j] > 0
  BY <1>4 DEF CacheType
<1>7. UNCHANGED <<source, l1, feed, excuse>>
  BY <1>3
<1>8. ASSUME NEW pc \in {"publish", "set1"}, FlightGoes(i, pc, flight[i].v),
             l2' \in Entries, L2Inv'
      PROVE  CacheInv'
  <2>1. FlightGoes(i, pc, v)
    BY <1>1, <1>8
  <2>2. pc # "load" /\ pc # "fill"
        /\ pc \in {"none", "get1", "get2", "fill", "load", "set2", "publish", "set1"}
    BY <1>8
  <2> QED BY <1>2, <1>6, <1>7, <1>8, <2>1, <2>2, FlightGoesInv
<1>9. l2' = l2 => l2' \in Entries /\ L2Inv'
  BY <1>5, L2Kept DEF CacheType
<1>10. ASSUME l2' = Entry(flight[i].v, TTL, i) PROVE l2' \in Entries /\ L2Inv'
  <2>1. v <= db /\ Lag(v) <= n /\ (Settled => v = db) /\ Lag(v) \in Nat
    BY <1>1, <1>2, LagNatural DEF Holds
  <2>2. v \in Versions /\ TTL \in 1..(TTL + DefaultTTL)
    BY SMT, <2>1, CacheNatural DEF CacheType, Values
  <2>3. PICK g \in BOOLEAN : g = (feed[i] # "live")
    OBVIOUS
  <2>4. PICK e \in Entries : e = [v |-> v, left |-> TTL, gap |-> g]
    BY <2>2, EntryMade
  <2>5. l2' = e
    BY <1>1, <1>10, <2>3, <2>4 DEF Entry
  <2>6. e.v = v /\ e.left = TTL
    BY SMT, <2>4
  <2>7. Lag(v) <= LoaderTimeout + TTL - TTL
    BY SMT, <2>1, CacheNatural
  <2>8. Holds(v, LoaderTimeout + TTL - TTL)
    BY <2>1, <2>7 DEF Holds
  <2>9. v <= db' /\ Lag(v)' <= LoaderTimeout + TTL - TTL /\ (Settled' => v = db')
    <3>1. LoaderTimeout + TTL - TTL \in Int
      BY SMT, CacheNatural
    <3> QED BY <1>5, <2>8, <3>1, HoldsKept
  <2>10. L2Inv'
    BY <2>5, <2>6, <2>9 DEF L2Inv, Holds, Lag
  <2> QED BY <2>5, <2>10
<1> QED BY <1>8, <1>9, <1>10 DEF SetL2

\* A broadcast adds to what is under way and takes nothing from it
\* (publishInvalidation).
LEMMA Published ==
  ASSUME CacheType, NEW i \in Instances, Publish(i)
  PROVE  /\ inbox' \in [Instances -> 0..MaxInbox]
         /\ \A j \in Instances : inbox[j] > 0 => inbox'[j] > 0
         /\ \A j \in Instances : j # i /\ feed[j] = "live" => inbox'[j] > 0
BY SMT, CacheNatural DEF CacheType, Publish

LEMMA SetPublishesInv ==
  ASSUME CacheInv, NEW i \in Instances, SetPublishes(i)
  PROVE  CacheInv'
<1> CacheType /\ FlightInv(i) /\ L2Inv
  BY DEF CacheInv
<1>1. PICK v \in Values : v = flight[i].v
  BY SMT DEF CacheType, Flights
<1>2. Holds(v, flight[i].age) /\ FlightGoes(i, "set1", v)
  BY <1>1 DEF SetPublishes, FlightInv
<1>3. UNCHANGED <<source, l1, feed, excuse>> /\ l2' = l2
  BY DEF SetPublishes
<1>4. Eases
  BY <1>3, Unwritten
<1>5. l2' \in Entries /\ L2Inv'
  BY <1>3, <1>4, L2Kept DEF CacheType
<1>6. inbox' \in [Instances -> 0..MaxInbox] /\ \A j \in Instances : inbox[j] > 0 => inbox'[j] > 0
  <2>1. CASE Publish(i)
    BY <2>1, Published
  <2>2. CASE inbox' = inbox
    BY <2>2 DEF CacheType
  <2> QED BY <2>1, <2>2 DEF SetPublishes
<1> QED BY <1>2, <1>3, <1>5, <1>6, FlightGoesInv

--------------------------------------------------------------------------------
(* The writer and the subscriber. *)

\* Steps that leave queries and loads alone.
LEMMA OnlyTiers ==
  ASSUME CacheInv, Eases, call' = call, flight' = flight,
         age' \in [Versions -> 0..Cap], writer' \in {"idle", "del1", "del2", "publish"},
         excuse' \in BOOLEAN, l2' \in Entries, L2Inv',
         l1' \in [Instances -> Entries], \A i \in Instances : L1Inv(i)',
         feed' \in [Instances -> {"live", "down", "resubscribing"}],
         inbox' \in [Instances -> 0..MaxInbox]
  PROVE  CacheInv'
<1> /\ CacheType /\ (\A i \in Instances : FlightInv(i))
    /\ \A c \in Callers : CallInv(c)
  BY DEF CacheInv
<1>1. \A i \in Instances : FlightInv(i)'
  BY FlightKept
<1>2. \A c \in Callers : CallInv(c)'
  BY CallKept
<1>3. db' \in Versions
  BY DEF Eases
<1>4. CacheType'
  BY <1>3 DEF CacheType, Versions, Cap, Bound, Entries, None, Values, Zero, Calls, Flights
<1> QED BY <1>1, <1>2, <1>4 DEF CacheInv

LEMMA CommitInv ==
  ASSUME CacheInv, Commit
  PROVE  CacheInv'
<1> CacheType /\ L2Inv /\ \A i \in Instances : L1Inv(i)
  BY DEF CacheInv
<1>1. /\ db < MaxVersion /\ db' = db + 1 /\ age' = [age EXCEPT ![db] = 0] /\ writer' = "del1"
      /\ l1' = l1 /\ l2' = l2 /\ inbox' = inbox /\ feed' = feed /\ excuse' = excuse
      /\ call' = call /\ flight' = flight
  BY DEF Commit, redis
<1>2. db' >= db /\ db' \in Versions /\ age' \in [Versions -> 0..Cap]
  BY SMT, <1>1, CacheNatural DEF CacheType
<1>3. ASSUME NEW v \in Values PROVE Lag(v)' \in Nat /\ Lag(v)' <= Lag(v)
  BY SMT, <1>1, CacheNatural DEF CacheType, Values, Lag
<1>4. ~Settled' /\ ~Rest'
  BY <1>1 DEF Settled, Rest
<1>5. Eases
  BY <1>2, <1>3, <1>4 DEF Eases
<1>6. L2Inv' /\ \A i \in Instances : L1Inv(i)'
  BY <1>1, <1>5, L2Kept, L1Kept
<1> QED BY <1>1, <1>2, <1>5, <1>6, OnlyTiers DEF CacheType

\* An instance drops its L1 copy (Delete, the subscriber).
LEMMA DroppedFromL1 ==
  ASSUME CacheType, NEW i \in Instances, l1' = [l1 EXCEPT ![i] = None]
  PROVE  /\ l1' \in [Instances -> Entries]
         /\ L1Inv(i)'
         /\ \A j \in Instances : j # i => l1'[j] = l1[j]
<1>1. None \in Entries
  BY DEF Entries
<1>2. /\ l1' \in [Instances -> Entries]
      /\ l1'[i] = None
      /\ \A j \in Instances : j # i => l1'[j] = l1[j]
  BY SMT, <1>1 DEF CacheType
<1>3. L1Inv(i)'
  BY <1>2 DEF L1Inv, None
<1> QED BY <1>2, <1>3

LEMMA DeleteL1Inv ==
  ASSUME CacheInv, DeleteL1
  PROVE  CacheInv'
<1> CacheType /\ L2Inv /\ \A i \in Instances : L1Inv(i)
  BY DEF CacheInv
<1>1. /\ db' = db /\ age' = age /\ writer' = "del2" /\ excuse' = excuse
      /\ l1' = [l1 EXCEPT ![WriterAt] = None] /\ l2' = l2 /\ inbox' = inbox /\ feed' = feed
      /\ call' = call /\ flight' = flight
  BY DEF DeleteL1, redis
<1>2. \A v \in Values : Lag(v)' \in Nat /\ Lag(v)' <= Lag(v)
  <2>1. \A v \in Values : Lag(v)' = Lag(v)
    BY <1>1 DEF Lag
  <2> QED BY SMT, <2>1, LagNatural
<1>3. db' >= db /\ db' \in Versions
  BY SMT, <1>1, CacheNatural DEF CacheType
<1>4. ~Settled' /\ ~Rest'
  BY <1>1 DEF Settled, Rest
<1>5. Eases
  BY <1>2, <1>3, <1>4 DEF Eases
<1>6. /\ l1' \in [Instances -> Entries]
      /\ L1Inv(WriterAt)'
      /\ \A j \in Instances : j # WriterAt => l1'[j] = l1[j]
  BY <1>1, DroppedFromL1, CacheAssumption
<1>7. \A j \in Instances : L1Inv(j)'
  BY <1>1, <1>5, <1>6, L1Kept
<1>8. L2Inv'
  BY <1>1, <1>5, L2Kept
<1> QED BY <1>1, <1>5, <1>6, <1>7, <1>8, OnlyTiers DEF CacheType

\* The end of Delete asks more of what is stored than its beginning; nobody
\* holds the old row then, or there is an excuse (Delete).
LEMMA DeleteL2Inv ==
  ASSUME CacheInv, DeleteL2
  PROVE  CacheInv'
<1> /\ CacheType /\ L2Inv /\ (\A i \in Instances : FlightInv(i) /\ L1Inv(i))
    /\ \A c \in Callers : CallInv(c)
  BY DEF CacheInv
<1>1. /\ writer = "del2" /\ db' = db /\ age' = age /\ l1' = l1 /\ inbox' = inbox /\ feed' = feed
      /\ call' = call /\ flight' = flight
      /\ writer' \in {"publish", "idle"}
  BY DEF DeleteL2
<1>2. \/ excuse' = TRUE /\ l2' = l2
      \/ l2' = None /\ writer' = "publish" /\ excuse' = (excuse \/ SomebodyHoldsOld)
  BY DEF DeleteL2
<1>9. excuse' \in BOOLEAN
  BY <1>2
<1>3. ~Rest'
  BY <1>2 DEF Rest
<1>4. Settled' => ~SomebodyHoldsOld
  BY <1>2 DEF Settled
<1>5. l2' \in Entries /\ L2Inv'
  <2>1. CASE l2' = None
    BY <2>1 DEF Entries, L2Inv, None
  <2>2. CASE excuse' = TRUE /\ l2' = l2
    <3>1. ~Settled'
      BY <2>2 DEF Settled
    <3> QED BY <1>1, <2>2, <3>1 DEF CacheType, L2Inv, Holds, Lag, None
  <2> QED BY <1>2, <2>1, <2>2
<1>6. ASSUME NEW i \in Instances PROVE FlightInv(i)' /\ L1Inv(i)'
  <2>1. PICK v \in Values : v = flight[i].v
    BY SMT DEF CacheType, Flights
  <2>2. flight[i].pc \in {"fill", "set2", "publish", "set1"} /\ Settled' => ~(v < db)
    BY <1>4, <2>1 DEF SomebodyHoldsOld, HoldsOld
  <2>3. v <= db /\ ~(v < db) => v = db
    BY SMT, CacheNatural DEF CacheType, Values
  <2>4. (flight[i].pc = "load" => flight[i].v = Zero)'
    BY <1>1 DEF FlightInv, Zero
  <2>5. (flight[i].pc = "fill" => Holds(flight[i].v, LoaderTimeout + TTL - 1))'
    BY <1>1, <2>1, <2>2, <2>3 DEF FlightInv, Holds, Lag
  <2>6. (flight[i].pc \in {"set2", "publish", "set1"} => Holds(flight[i].v, flight[i].age))'
    BY <1>1, <2>1, <2>2, <2>3 DEF FlightInv, Holds, Lag
  <2>7. FlightInv(i)'
    BY <2>4, <2>5, <2>6 DEF FlightInv
  <2>8. L1Inv(i)'
    BY <1>1, <1>3 DEF L1Inv, Lag, None
  <2> QED BY <2>7, <2>8
<1>7. ASSUME NEW c \in Callers PROVE CallInv(c)'
  <2>1. PICK v \in Values : v = call[c].v
    BY SMT DEF CacheType, Calls
  <2>2. call[c].pc = "fill" /\ Settled' => ~(v < db)
    BY <1>4, <2>1 DEF SomebodyHoldsOld, HoldsOld
  <2>3. v <= db /\ ~(v < db) => v = db
    BY SMT, CacheNatural DEF CacheType, Values
  <2>4. (call[c].pc = "fill" => Holds(call[c].v, LoaderTimeout + TTL - 1))'
    BY <1>1, <2>1, <2>2, <2>3 DEF CallInv, Holds, Lag
  <2>5. (Served(c) => Lag(call[c].v) <= Bound)'
    BY <1>1 DEF CallInv, Served, Lag, Bound
  <2> QED BY <2>4, <2>5 DEF CallInv
<1>8. CacheType'
  BY <1>1, <1>5, <1>9
     DEF CacheType, Versions, Cap, Bound, Entries, None, Values, Zero, Calls, Flights
<1> QED BY <1>5, <1>6, <1>7, <1>8 DEF CacheInv

LEMMA DeletePublishesInv ==
  ASSUME CacheInv, DeletePublishes
  PROVE  CacheInv'
<1> /\ CacheType /\ L2Inv /\ \A i \in Instances : L1Inv(i)
  BY DEF CacheInv
<1>1. /\ db' = db /\ age' = age /\ writer = "publish" /\ writer' = "idle"
      /\ l1' = l1 /\ l2' = l2 /\ feed' = feed /\ call' = call /\ flight' = flight
  BY DEF DeletePublishes
<1>2. \/ Publish(WriterAt) /\ excuse' = excuse
      \/ inbox' = inbox /\ excuse' = TRUE
  BY DEF DeletePublishes
<1>3. Settled' => Settled
  BY <1>1, <1>2 DEF Settled
<1>5. inbox' \in [Instances -> 0..MaxInbox] /\ excuse' \in BOOLEAN
  <2>1. CASE Publish(WriterAt) /\ excuse' = excuse
    BY <2>1, Published, CacheAssumption DEF CacheType
  <2>2. CASE inbox' = inbox /\ excuse' = TRUE
    BY <2>2 DEF CacheType
  <2> QED BY <1>2, <2>1, <2>2
<1>6. ASSUME Rest', NEW i \in Instances, i # WriterAt, feed[i] = "live" PROVE inbox'[i] > 0
  <2>1. Publish(WriterAt)
    BY <1>2, <1>6 DEF Rest
  <2> QED BY <1>6, <2>1, Published, CacheAssumption
<1>7. ASSUME NEW i \in Instances PROVE L1Inv(i)'
  <2>1. (l1[i] # None => l1[i].v <= db)'
    BY <1>1 DEF L1Inv, None
  <2>2. (l1[i] # None => Lag(l1[i].v) + l1[i].left <= LoaderTimeout + TTL - 1 + DefaultTTL)'
    BY <1>1 DEF L1Inv, None, Lag
  <2>3. (l1[i] # None => (feed[i] = "resubscribing" => l1[i].gap))'
    BY <1>1 DEF L1Inv, None
  <2>4. (Rest /\ i # WriterAt /\ feed[i] = "live" => inbox[i] > 0)'
    BY <1>1, <1>6
  <2> QED BY <2>1, <2>2, <2>3, <2>4 DEF L1Inv
<1>8. L2Inv'
  BY <1>1, <1>3 DEF L2Inv, Holds, Lag, None
<1>9. \A i \in Instances : FlightInv(i)'
  BY <1>1, <1>3 DEF CacheInv, FlightInv, Holds, Lag, Zero
<1>10. \A c \in Callers : CallInv(c)'
  BY <1>1, <1>3 DEF CacheInv, CallInv, Served, Holds, Lag, Bound
<1>11. CacheType'
  BY <1>1, <1>5
     DEF CacheType, Versions, Cap, Bound, Entries, None, Values, Zero, Calls, Flights
<1> QED BY <1>7, <1>8, <1>9, <1>10, <1>11 DEF CacheInv

\* A broadcast arrives: the copy goes (the subscriber's handler).
LEMMA ReceiveInv ==
  ASSUME CacheInv, NEW i \in Instances, Receive(i)
  PROVE  CacheInv'
<1> CacheType /\ L2Inv /\ \A j \in Instances : L1Inv(j)
  BY DEF CacheInv
<1>1. /\ inbox[i] > 0 /\ inbox' = [inbox EXCEPT ![i] = @ - 1] /\ l1' = [l1 EXCEPT ![i] = None]
      /\ UNCHANGED source /\ l2' = l2 /\ feed' = feed /\ call' = call /\ flight' = flight
      /\ excuse' = excuse
  BY DEF Receive
<1>2. Eases
  BY <1>1, Unwritten
<1>3. inbox' \in [Instances -> 0..MaxInbox] /\ \A j \in Instances : j # i => inbox'[j] = inbox[j]
  BY SMT, <1>1, CacheNatural DEF CacheType
<1>4. /\ l1' \in [Instances -> Entries] /\ L1Inv(i)'
      /\ \A j \in Instances : j # i => l1'[j] = l1[j]
  BY <1>1, DroppedFromL1
<1>5. ASSUME NEW j \in Instances, j # i PROVE L1Inv(j)'
  BY <1>1, <1>2, <1>3, <1>4, <1>5, L1Kept
<1>6. L2Inv'
  BY <1>1, <1>2, L2Kept
<1>7. age' = age /\ writer' = writer
  BY <1>1 DEF source
<1> QED BY <1>1, <1>2, <1>3, <1>4, <1>5, <1>6, <1>7, OnlyTiers DEF CacheType

\* The subscription breaks off, L1 is emptied, and it is live again: a copy
\* made in between is marked (subscribeLoop).
LEMMA SubscriptionInv ==
  ASSUME CacheInv, NEW i \in Instances,
         SubscriptionEnds(i) \/ Resubscribe(i) \/ SubscriptionLive(i)
  PROVE  CacheInv'
<1> CacheType /\ L2Inv /\ \A j \in Instances : L1Inv(j)
  BY DEF CacheInv
<1>1. /\ UNCHANGED source /\ l2' = l2 /\ call' = call /\ flight' = flight /\ excuse' = excuse
  BY DEF SubscriptionEnds, Resubscribe, SubscriptionLive, redis
<1>2. Eases
  BY <1>1, Unwritten
<1>3. L2Inv'
  BY <1>1, <1>2, L2Kept
<1>4. age' = age /\ writer' = writer
  BY <1>1 DEF source
<1>5. SUFFICES
        /\ l1' \in [Instances -> Entries] /\ (\A j \in Instances : L1Inv(j)')
        /\ feed' \in [Instances -> {"live", "down", "resubscribing"}]
        /\ inbox' \in [Instances -> 0..MaxInbox]
  BY <1>1, <1>2, <1>3, <1>4, OnlyTiers DEF CacheType
<1>6. db' = db /\ age' = age
  BY <1>1 DEF source
<1>7. ASSUME l1'[i] = l1[i], l1[i] # None
      PROVE  (/\ l1[i].v <= db
              /\ Lag(l1[i].v) + l1[i].left <= LoaderTimeout + TTL - 1 + DefaultTTL)'
  BY <1>6, <1>7 DEF L1Inv, Lag
<1>8. CASE SubscriptionEnds(i)
  <2>1. l1' = l1 /\ feed' = [feed EXCEPT ![i] = "down"] /\ inbox' = [inbox EXCEPT ![i] = 0]
    BY <1>8 DEF SubscriptionEnds
  <2>2. /\ feed' \in [Instances -> {"live", "down", "resubscribing"}] /\ feed'[i] = "down"
        /\ \A j \in Instances : j # i => feed'[j] = feed[j]
    BY <2>1 DEF CacheType
  <2>3. /\ inbox' \in [Instances -> 0..MaxInbox]
        /\ \A j \in Instances : j # i => inbox'[j] = inbox[j]
    BY SMT, <2>1, CacheNatural DEF CacheType
  <2>4. L1Inv(i)'
    BY <1>7, <2>1, <2>2 DEF L1Inv, None
  <2>5. ASSUME NEW j \in Instances, j # i PROVE L1Inv(j)'
    BY <1>2, <2>1, <2>2, <2>3, <2>5, L1Kept
  <2> QED BY <2>1, <2>2, <2>3, <2>4, <2>5 DEF CacheType
<1>9. CASE Resubscribe(i)
  <2>1. /\ l1' = [l1 EXCEPT ![i] = None] /\ feed' = [feed EXCEPT ![i] = "resubscribing"]
        /\ inbox' = inbox
    BY <1>9 DEF Resubscribe, redis
  <2>2. /\ feed' \in [Instances -> {"live", "down", "resubscribing"}]
        /\ \A j \in Instances : j # i => feed'[j] = feed[j]
    BY <2>1 DEF CacheType
  <2>3. /\ l1' \in [Instances -> Entries] /\ L1Inv(i)'
        /\ \A j \in Instances : j # i => l1'[j] = l1[j]
    BY <2>1, DroppedFromL1
  <2>4. ASSUME NEW j \in Instances, j # i PROVE L1Inv(j)'
    BY <1>2, <2>1, <2>2, <2>3, <2>4, L1Kept
  <2> QED BY <2>1, <2>2, <2>3, <2>4 DEF CacheType
<1>10. CASE SubscriptionLive(i)
  <2>1. /\ l1' = l1 /\ feed' = [feed EXCEPT ![i] = "live"] /\ inbox' = inbox
        /\ feed[i] = "resubscribing"
    BY <1>10 DEF SubscriptionLive, redis
  <2>2. /\ feed' \in [Instances -> {"live", "down", "resubscribing"}] /\ feed'[i] = "live"
        /\ \A j \in Instances : j # i => feed'[j] = feed[j]
    BY <2>1 DEF CacheType
  <2>3. l1[i] # None => l1'[i].gap
    BY <2>1 DEF L1Inv
  <2>4. L1Inv(i)'
    BY <1>7, <2>1, <2>2, <2>3 DEF L1Inv, None
  <2>5. ASSUME NEW j \in Instances, j # i PROVE L1Inv(j)'
    BY <1>2, <2>1, <2>2, <2>5, L1Kept
  <2> QED BY <2>1, <2>2, <2>4, <2>5 DEF CacheType
<1> QED BY <1>8, <1>9, <1>10

--------------------------------------------------------------------------------
(* Time. *)

\* An entry that survives a tick has one tick less left (the TTLs of Set).
LEMMA AgedEntry ==
  ASSUME NEW e \in Entries
  PROVE  /\ Aged(e) \in Entries
         /\ Aged(e) # None => /\ e # None /\ Aged(e).v = e.v /\ Aged(e).left = e.left - 1
                              /\ Aged(e).gap = e.gap
<1>1. CASE e = None \/ e.left <= 1
  BY <1>1 DEF Aged, Entries
<1>2. CASE ~(e = None \/ e.left <= 1)
  <2>1. Aged(e) = [v |-> e.v, left |-> e.left - 1, gap |-> e.gap]
    BY <1>2 DEF Aged
  <2>2. Aged(e) \in Entries
    BY SMT, <1>2, <2>1, CacheNatural DEF Entries
  <2>3. Aged(e).v = e.v /\ Aged(e).left = e.left - 1 /\ Aged(e).gap = e.gap
    BY SMT, <2>1
  <2> QED BY <1>2, <2>2, <2>3
<1> QED BY <1>1, <1>2

LEMMA TickInv ==
  ASSUME CacheInv, Tick
  PROVE  CacheInv'
<1> /\ CacheType /\ L2Inv /\ (\A i \in Instances : FlightInv(i) /\ L1Inv(i))
  BY DEF CacheInv
<1>1. /\ db' = db /\ writer' = writer /\ excuse' = excuse /\ feed' = feed /\ inbox' = inbox
      /\ call' = call /\ l2' = Aged(l2) /\ l1' = [i \in Instances |-> Aged(l1[i])]
  BY DEF Tick
<1>2. age' = [v \in Versions |-> IF v < db /\ age[v] < Cap THEN age[v] + 1 ELSE age[v]]
  BY DEF Tick
<1>3. age' \in [Versions -> 0..Cap]
  BY SMT, <1>2, CacheNatural DEF CacheType
<1>4. ASSUME NEW v \in Values
      PROVE  Lag(v) \in Nat /\ Lag(v)' \in Nat /\ Lag(v)' <= Lag(v) + 1
  BY SMT, <1>1, <1>2, CacheNatural DEF CacheType, Values, Lag
<1>5. (Settled' <=> Settled) /\ (Rest' <=> Rest)
  BY <1>1 DEF Settled, Rest
<1>6. l2' \in Entries /\ L2Inv'
  <2>1. l2' \in Entries
    BY <1>1, AgedEntry DEF CacheType
  <2>2. SUFFICES ASSUME l2' # None PROVE Holds(l2.v, LoaderTimeout + TTL - l2.left)'
    BY <2>1 DEF L2Inv, None
  <2>3. l2 # None /\ l2'.v = l2.v /\ l2'.left = l2.left - 1
    BY <1>1, <2>2, AgedEntry DEF CacheType
  <2>4. PICK v \in Versions, n \in Nat : v = l2.v /\ n = l2.left
    BY <2>3, EntryFields DEF CacheType
  <2>5. Holds(v, LoaderTimeout + TTL - n)
    BY <2>3, <2>4 DEF L2Inv
  <2>6. v \in Values
    BY DEF Values
  <2>7. Lag(v)' <= LoaderTimeout + TTL - (n - 1)
    BY SMT, <1>4, <2>5, <2>6, CacheNatural DEF Holds
  <2> QED BY <1>1, <1>5, <2>3, <2>4, <2>5, <2>7 DEF Holds, Lag
<1>7. l1' \in [Instances -> Entries]
  BY <1>1, AgedEntry DEF CacheType
<1>8. ASSUME NEW i \in Instances PROVE L1Inv(i)'
  <2>1. SUFFICES ASSUME l1'[i] # None
                 PROVE (/\ l1[i].v <= db
                        /\ Lag(l1[i].v) + l1[i].left <= LoaderTimeout + TTL - 1 + DefaultTTL
                        /\ feed[i] = "resubscribing" => l1[i].gap
                        /\ Rest /\ i # WriterAt /\ feed[i] = "live"
                              => l1[i].v = db \/ l1[i].gap \/ inbox[i] > 0)'
    BY DEF L1Inv, None
  <2>2. l1'[i] = Aged(l1[i]) /\ l1[i] \in Entries
    BY <1>1 DEF CacheType
  <2>3. l1[i] # None /\ l1'[i].v = l1[i].v /\ l1'[i].left = l1[i].left - 1 /\ l1'[i].gap = l1[i].gap
    BY <2>1, <2>2, AgedEntry
  <2>4. PICK v \in Versions, n \in Nat : v = l1[i].v /\ n = l1[i].left
    BY <2>2, <2>3, EntryFields
  <2>5. Lag(v) + n <= LoaderTimeout + TTL - 1 + DefaultTTL
    BY <2>3, <2>4 DEF L1Inv
  <2>6. v \in Values
    BY DEF Values
  <2>7. Lag(v)' + (n - 1) <= LoaderTimeout + TTL - 1 + DefaultTTL
    BY SMT, <1>4, <2>5, <2>6, CacheNatural
  <2>8. (Lag(l1[i].v) + l1[i].left <= LoaderTimeout + TTL - 1 + DefaultTTL)'
    BY <2>3, <2>4, <2>7 DEF Lag
  <2>9. (l1[i].v <= db)'
    BY <1>1, <2>3 DEF L1Inv
  <2>10. (feed[i] = "resubscribing" => l1[i].gap)'
    BY <1>1, <2>3 DEF L1Inv
  <2>11. (Rest /\ i # WriterAt /\ feed[i] = "live" => l1[i].v = db \/ l1[i].gap \/ inbox[i] > 0)'
    BY <1>1, <1>5, <2>3 DEF L1Inv
  <2> QED BY <2>8, <2>9, <2>10, <2>11
<1>9. ASSUME NEW i \in Instances
      PROVE  /\ flight'[i].pc = flight[i].pc /\ flight'[i].v = flight[i].v
             /\ flight[i].pc \in {"load", "set2"} => flight'[i].age = flight[i].age + 1
             /\ flight[i].pc \notin {"fill", "publish", "set1"}
             /\ flight'[i] \in Flights
  <2>1. flight'[i] = IF flight[i].pc \in {"load", "set2"} THEN Later(flight[i]) ELSE flight[i]
    BY DEF Tick
  <2>2. flight[i].age < LoaderTimeout /\ flight[i].pc \notin {"fill", "publish", "set1"}
    BY DEF Tick
  <2> QED BY SMT, <2>1, <2>2, CacheNatural DEF CacheType, Flights, Later
<1>10. flight' \in [Instances -> Flights]
  BY <1>9 DEF Tick
<1>11. ASSUME NEW i \in Instances PROVE FlightInv(i)'
  <2>1. PICK v \in Values, n \in Nat : v = flight[i].v /\ n = flight[i].age
    BY SMT, CacheNatural DEF CacheType, Flights
  <2>2. (flight[i].pc = "load" => flight[i].v = Zero)'
    BY <1>9 DEF FlightInv, Zero
  <2>3. ASSUME flight[i].pc = "set2" PROVE (Holds(flight[i].v, flight[i].age))'
    <3>1. Holds(v, n)
      BY <2>1, <2>3 DEF FlightInv
    <3>2. Lag(v)' <= n + 1
      BY SMT, <1>4, <3>1 DEF Holds
    <3> QED BY <1>1, <1>5, <1>9, <2>1, <2>3, <3>1, <3>2 DEF Holds, Lag
  <2> QED BY <1>9, <2>2, <2>3 DEF FlightInv
<1>12. \A c \in Callers : CallInv(c)'
  BY <1>1 DEF CallInv, Served, Tick
<1>13. CacheType'
  BY <1>1, <1>3, <1>6, <1>7, <1>10
     DEF CacheType, Versions, Cap, Bound, Entries, None, Values, Zero, Calls, Flights
<1> QED BY <1>6, <1>8, <1>11, <1>12, <1>13 DEF CacheInv

--------------------------------------------------------------------------------
(* The theorem. *)

LEMMA CacheInitInv ==
  ASSUME CacheInit
  PROVE  CacheInv
<1>1. l2 = None /\ (\A i \in Instances : l1[i] = None) /\ None \in Entries
  BY DEF CacheInit, Entries
<1>2. PICK ch \in Callers : ch = CHOOSE c \in Callers : TRUE
  BY CacheAssumption
<1>3. flight = [i \in Instances |-> [pc |-> "none", leader |-> ch, v |-> Zero, age |-> 0]]
  BY <1>2 DEF CacheInit, NoFlight
<1>4. flight \in [Instances -> Flights] /\ \A i \in Instances : flight[i].pc = "none"
  BY SMT, <1>3, CacheNatural DEF Flights, Values
<1>5. call \in [Callers -> Calls] /\ \A c \in Callers : call[c].pc = "idle"
  BY SMT DEF CacheInit, Idle, Calls, Values
<1>6. db \in Versions /\ age \in [Versions -> 0..Cap] /\ inbox \in [Instances -> 0..MaxInbox]
  BY SMT, CacheNatural DEF CacheInit
<1>7. CacheType
  BY <1>1, <1>4, <1>5, <1>6 DEF CacheType, CacheInit
<1>8. \A i \in Instances : FlightInv(i) /\ L1Inv(i)
  BY <1>1, <1>4 DEF FlightInv, L1Inv
<1>9. \A c \in Callers : CallInv(c)
  BY <1>5 DEF CallInv, Served
<1> QED BY <1>1, <1>7, <1>8, <1>9 DEF CacheInv, L2Inv

LEMMA CacheStepInv ==
  ASSUME CacheInv, [CacheNext]_cacheVars
  PROVE  CacheInv'
<1>1. CASE UNCHANGED cacheVars
  <2>1. UNCHANGED <<source, l1, redis, feed, flight, excuse>> /\ call' = call
    BY <1>1 DEF cacheVars, source, redis
  <2>2. call' \in [Callers -> Calls] /\ Eases
    BY <2>1, Unwritten DEF CacheInv, CacheType
  <2>3. \A c \in Callers : CallInv(c)'
    BY <2>1, <2>2, CallKept DEF CacheInv
  <2> QED BY <2>1, <2>2, <2>3, OnlyCalls
<1>2. ASSUME NEW c \in Callers, CallStep(c) \/ Cancel(c) PROVE CacheInv'
  BY <1>2, GetInv, GetFillsInv, JoinInv, CancelInv DEF CallStep
<1>3. ASSUME NEW i \in Instances, FlightStep(i) PROVE CacheInv'
  BY <1>3, FlightReadsInv, FlightFillsInv, SetL2Inv, SetPublishesInv, SetL1Inv DEF FlightStep
<1>4. ASSUME NEW i \in Instances, SubscriberStep(i) \/ SubscriptionEnds(i) PROVE CacheInv'
  BY <1>4, ReceiveInv, SubscriptionInv DEF SubscriberStep
<1>5. ASSUME Commit \/ WriterStep \/ Tick PROVE CacheInv'
  BY <1>5, CommitInv, DeleteL1Inv, DeleteL2Inv, DeletePublishesInv, TickInv DEF WriterStep
<1> QED BY <1>1, <1>2, <1>3, <1>4, <1>5 DEF CacheNext

\* For any number of instances and queries and any TTLs: no query is answered
\* with a row superseded longer ago than a load, an L2 entry and its L1 copy
\* last together, and once Delete and its broadcast are done no other
\* instance's tier holds the old row but for the documented windows (Get, Set,
\* Delete, GetOrLoad and the invalidation subscriber).
THEOREM CacheIsCoherent == CacheSpec => []Coherent
<1>1. CacheInit => CacheInv
  BY CacheInitInv
<1>2. CacheInv /\ [CacheNext]_cacheVars => CacheInv'
  BY CacheStepInv
<1>3. CacheInv => Coherent
  <2> SUFFICES ASSUME CacheInv PROVE StalenessBounded /\ CoherentAfterDelete
    BY DEF Coherent
  <2>1. StalenessBounded
    BY DEF CacheInv, CallInv, StalenessBounded, Lag
  <2>2. ASSUME writer = "idle", ~excuse PROVE l2 # None => l2.v = db
    BY <2>2 DEF CacheInv, L2Inv, Holds, Settled
  <2>3. ASSUME writer = "idle", ~excuse, NEW i \in Instances \ {WriterAt},
               feed[i] = "live", inbox[i] = 0, l1[i] # None
        PROVE  l1[i].v = db \/ l1[i].gap
    <3>1. ~(inbox[i] > 0)
      BY SMT, <2>3
    <3> QED BY <2>3, <3>1 DEF CacheInv, L1Inv, Rest
  <2> QED BY <2>1, <2>2, <2>3 DEF CoherentAfterDelete
<1> QED BY <1>1, <1>2, <1>3, PTL DEF CacheSpec

\* Steps other than a query's own cancellation report none (GetOrLoad).
LEMMA NobodyElseCancels ==
  ASSUME CacheType, CacheNext, NEW c \in Callers, ~Cancel(c),
         call[c].kind # "cancelled"
  PROVE  call'[c].kind # "cancelled"
<1>1. ASSUME NEW e \in Callers, NEW pc, NEW v, NEW kind \in {"none", "value"},
             call' = [call EXCEPT ![e] = [pc |-> pc, v |-> v, kind |-> kind]]
      PROVE  call'[c].kind # "cancelled"
  BY SMT, <1>1 DEF CacheType
<1>2. ASSUME NEW i \in Instances, NEW v, NEW kind \in {"value", "error"}, Deliver(i, kind, v)
      PROVE  call'[c].kind # "cancelled"
  <2>1. call'[c] = call[c] \/ call'[c] = [pc |-> "done", v |-> v, kind |-> kind]
    BY <1>2 DEF Deliver
  <2> QED BY SMT, <1>2, <2>1
<1>3. ASSUME call' = call PROVE call'[c].kind # "cancelled"
  BY <1>3
<1>4. ASSUME NEW e \in Callers, CallStep(e) PROVE call'[c].kind # "cancelled"
  <2>1. ASSUME NEW pc, NEW v, CallGoes(e, pc, v) PROVE call'[c].kind # "cancelled"
    BY <1>1, <2>1 DEF CallGoes
  <2>2. ASSUME NEW v, Answer(e, "value", v) PROVE call'[c].kind # "cancelled"
    BY <1>1, <2>2 DEF Answer
  <2>3. ASSUME Return(e) PROVE call'[c].kind # "cancelled"
    BY <1>1, <2>3 DEF Return, Idle
  <2> QED BY <1>4, <2>1, <2>2, <2>3 DEF CallStep, GetL1, GetL2, GetFills, Join
<1>5. ASSUME NEW e \in Callers, e # c, Cancel(e) PROVE call'[c].kind # "cancelled"
  <2>1. call'[c] = call[c]
    BY <1>5 DEF Cancel, Answer, CacheType
  <2> QED BY <2>1
<1>6. ASSUME NEW i \in Instances, FlightStep(i) PROVE call'[c].kind # "cancelled"
  BY <1>2, <1>3, <1>6
     DEF FlightStep, FlightGetL1, FlightGetL2, FlightFills, Load, SetL2, SetPublishes, SetL1,
         FlightGoes
<1>7. ASSUME NEW i \in Instances, SubscriberStep(i) \/ SubscriptionEnds(i)
      PROVE  call'[c].kind # "cancelled"
  BY <1>3, <1>7 DEF SubscriberStep, Receive, Resubscribe, SubscriptionLive, SubscriptionEnds
<1>8. ASSUME Commit \/ WriterStep \/ Tick PROVE call'[c].kind # "cancelled"
  BY <1>3, <1>8 DEF Commit, WriterStep, DeleteL1, DeleteL2, DeletePublishes, Tick
<1> QED BY <1>4, <1>5, <1>6, <1>7, <1>8 DEF CacheNext

\* Whoever shares a load with a query that is cancelled is not touched by the
\* cancellation (DoChan in GetOrLoad).
THEOREM CancelsAlone == CacheSpec => CancelledAlone
<1>1. CacheInit => CacheInv
  BY CacheInitInv
<1>2. CacheInv /\ [CacheNext]_cacheVars => CacheInv'
  BY CacheStepInv
<1>3. CacheInv /\ [CacheNext]_cacheVars =>
        [\A c, d \in Callers :
           c # d /\ call[c].kind # "cancelled" /\ call'[c].kind = "cancelled"
             => call'[d] = call[d]]_cacheVars
  <2> SUFFICES ASSUME CacheType, CacheNext, NEW c \in Callers, NEW d \in Callers, c # d,
                      call[c].kind # "cancelled", call'[c].kind = "cancelled"
               PROVE  call'[d] = call[d]
    BY DEF CacheInv
  <2>1. Cancel(c)
    BY NobodyElseCancels
  <2> QED BY <2>1 DEF Cancel, Answer, CacheType
<1> QED BY <1>1, <1>2, <1>3, PTL DEF CacheSpec, CancelledAlone
================================================================================
