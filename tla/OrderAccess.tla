------------------------------ MODULE OrderAccess ------------------------------
(* The gateway's endpoints that read: an order, its attachment (and storing   *)
(* one), the audit trail and the check of its chains.  A request reads the    *)
(* read model, decides who may see or touch the order, and leaves an audit    *)
(* row of its own.  Authentication is on.                                     *)
EXTENDS Naturals, FiniteSets

CONSTANTS
  Customers, Admins, Others,  \* principals with the role user, admin, neither
  NoOne,                      \* a request without a principal
  Absent, Unnamed,            \* no row; a row that names no customer
  Named, Customer,            \* the customers POSTs of the order name; its own
  Parse,                      \* uuid.Parse: the order of each spelling of an id
  Reqs, Plans,                \* requests, and what they may ask: kind, who, id
  Shards,                     \* 1..M
  Burst,                      \* denialBucketBurst
  MaxNow, MaxFaults           \* bounds: seconds, failing calls

VARIABLES
  row, replica,   \* customer of the order's row, and as the reader shows it
  owners,         \* every customer the row has named
  objects,        \* object keys in the bucket
  intact,         \* the shards whose audit chain is as it was written
  log,            \* the audit rows written
  bucket,         \* tokens by store and principal
  req,            \* the requests
  now, faults

vars == <<row, replica, owners, objects, intact, log, bucket, req, now, faults>>
db == <<row, replica, owners, objects, intact, now>>

Principals == Customers \cup Admins \cup Others
\* The API server and the attachments handler have an audit store each.
Stores == {"api", "attachments"}
Attachment == {"upload", "download"}
StoreOf(r) == IF req[r].kind \in Attachment THEN "attachments" ELSE "api"

Init ==
  /\ row = Absent /\ replica = Absent /\ owners = {} /\ objects = {}
  /\ intact = Shards /\ log = {}
  /\ bucket = [k \in Stores \X Principals |-> Burst]
  /\ \E plan \in [Reqs -> Plans] :
       req = [r \in Reqs |-> [kind |-> plan[r].kind, who |-> plan[r].who, id |-> plan[r].id,
                at |-> "none", result |-> "none", trace |-> "none",
                found |-> {}, broke |-> {}, shard |-> 0, break |-> 0]]
  /\ now = 0 /\ faults = 0

Moves(r, at) == req' = [req EXCEPT ![r].at = at]
Replies(r, result, trace) ==
  req' = [req EXCEPT ![r].at = "done", ![r].result = result, ![r].trace = trace]
Fault == faults < MaxFaults /\ faults' = faults + 1

--------------------------------------------------------------------------------
\* RecordOutOfBand writes a row in a transaction of its own; denials beyond a
\* principal's bucket are dropped. The caller goes on whatever trace is left.
RecordOutOfBand(r, action, trace) ==
  LET key == <<StoreOf(r), req[r].who>> IN
  \/ /\ trace = "coalesced" /\ action = "denied" /\ bucket[key] = 0
     /\ UNCHANGED <<log, bucket, faults>>
  \/ /\ action = "denied" => bucket[key] > 0
     /\ bucket' = IF action = "denied" THEN [bucket EXCEPT ![key] = @ - 1] ELSE bucket
     /\ \/ trace = "row" /\ log' = log \cup {[req |-> r, action |-> action]} /\ UNCHANGED faults
        \/ trace = "failed" /\ Fault /\ UNCHANGED log
Traces == {"coalesced", "row", "failed"}

\* auditDenial, auditDenied: a denial of a principal that is present
Denies(r) ==
  \E trace \in Traces : RecordOutOfBand(r, "denied", trace) /\ Replies(r, "denied", trace)

--------------------------------------------------------------------------------
\* A request arrives; what it may rely on is noted.
Arrive(r) ==
  /\ req[r].at = "none"
  /\ req' = [req EXCEPT ![r].at = IF req[r].kind = "get" THEN "lookup" ELSE "gate",
                        ![r].found = objects, ![r].broke = Shards \ intact]
  /\ UNCHANGED <<db, log, bucket, faults>>

\* Flag, principal, role and id of an attachment request; a bad X-Timezone.
Refuse(r) ==
  /\ \/ req[r].at = "gate" /\ req[r].kind \in Attachment
     \/ req[r].at = "gate" /\ req[r].who = NoOne
     \/ req[r].at = "lookup" /\ req[r].kind = "get"
  /\ Replies(r, "refused", "none")
  /\ UNCHANGED <<db, log, bucket, faults>>

roleGate(r) ==
  /\ req[r].at = "gate" /\ req[r].kind \in Attachment /\ req[r].who # NoOne
  /\ \/ req[r].who \in Others /\ Denies(r)
     \/ req[r].who \notin Others /\ Moves(r, "lookup") /\ UNCHANGED <<log, bucket, faults>>
  /\ UNCHANGED db

\* The owner, or an administrator
Authorize(who, owner) == who = owner \/ who \in Admins

\* getOrderHandler and the owner lookup read the row from the reader.
ReadFailsOpen(r) == Moves(r, "file") /\ Fault /\ UNCHANGED <<log, bucket>>
ReadFails(r) == Replies(r, "error", "none") /\ Fault /\ UNCHANGED <<log, bucket>>

\* The row as the reader shows it decides; the principal is looked at after it.
Decides(r, Allowed) ==
  /\ \/ ReadFails(r)
     \/ replica = Absent /\ Replies(r, "missing", "none") /\ UNCHANGED <<log, bucket, faults>>
     \/ /\ replica # Absent /\ req[r].who = NoOne
        /\ Replies(r, "refused", "none") /\ UNCHANGED <<log, bucket, faults>>
     \/ /\ replica # Absent /\ req[r].who # NoOne /\ ~Authorize(req[r].who, replica)
        /\ Denies(r)
     \/ /\ replica # Absent /\ req[r].who # NoOne /\ Authorize(req[r].who, replica)
        /\ Allowed /\ UNCHANGED <<log, bucket, faults>>
  /\ UNCHANGED db

\* GetOrder shows a denial as a missing order.
GetOrder(r) ==
  req[r].at = "lookup" /\ req[r].kind = "get" /\ Decides(r, Replies(r, "ok", "none"))

checkOwnership(r) ==
  req[r].at = "lookup" /\ req[r].kind \in Attachment /\ Decides(r, Moves(r, "file"))

--------------------------------------------------------------------------------
\* The key is built from the parsed id, never from its spelling.
Key(id) == <<"orders", Parse[id]>>

\* sanitizeName, the allowed types and the size of the body
Unacceptable(r) ==
  /\ req[r].at = "file"
  /\ Replies(r, "refused", "none")
  /\ UNCHANGED <<db, log, bucket, faults>>

\* Put may fail after the object is stored.
Upload(r) ==
  /\ req[r].at = "file" /\ req[r].kind = "upload"
  /\ \/ objects' = objects \cup {Key(req[r].id)} /\ Moves(r, "audit") /\ UNCHANGED faults
     \/ objects' \in {objects, objects \cup {Key(req[r].id)}} /\ Fault /\ Replies(r, "error", "none")
  /\ UNCHANGED <<row, replica, owners, intact, now, log, bucket>>

\* Exists, then PresignGet
Download(r) ==
  /\ req[r].at = "file" /\ req[r].kind = "download"
  /\ \/ Key(req[r].id) \in objects /\ Moves(r, "audit") /\ UNCHANGED faults
     \/ Key(req[r].id) \notin objects /\ Replies(r, "nofile", "none") /\ UNCHANGED faults
     \/ Fault /\ Replies(r, "error", "none")
  /\ UNCHANGED <<db, log, bucket>>

auditAccess(r) ==
  /\ req[r].at = "audit"
  /\ \E trace \in Traces : RecordOutOfBand(r, req[r].kind, trace) /\ Replies(r, "ok", trace)
  /\ UNCHANGED db

--------------------------------------------------------------------------------
\* The trail and its check are for administrators, and record themselves first.
AdminGate(r) ==
  /\ req[r].at = "gate" /\ req[r].kind \in {"query", "verify"} /\ req[r].who # NoOne
  /\ \/ req[r].who \notin Admins /\ Denies(r)
     \/ /\ req[r].who \in Admins
        /\ \E trace \in Traces : /\ RecordOutOfBand(r, req[r].kind, trace)
                                 /\ req' = [req EXCEPT ![r].at = "read", ![r].trace = trace]
  /\ UNCHANGED db

QueryAudit(r) ==
  /\ req[r].at = "read" /\ req[r].kind = "query"
  /\ \/ Replies(r, "ok", req[r].trace) /\ UNCHANGED faults
     \/ Replies(r, "error", req[r].trace) /\ Fault
  /\ UNCHANGED <<db, log, bucket>>

\* The verdict after another shard was walked; the first break is kept.
Verdict(r, s) == IF req[r].break = 0 /\ s \notin intact THEN s ELSE req[r].break

verifyAuditAllShards(r) ==
  LET s == req[r].shard + 1 IN
  /\ req[r].at = "read" /\ req[r].kind = "verify"
  /\ \/ /\ s \in Shards /\ UNCHANGED faults
        /\ req' = [req EXCEPT ![r].shard = s, ![r].break = Verdict(r, s)]
     \/ s \in Shards /\ Fault /\ Replies(r, "error", req[r].trace)
     \/ s \notin Shards /\ UNCHANGED faults /\ Replies(r, "ok", req[r].trace)
  /\ UNCHANGED <<db, log, bucket>>

--------------------------------------------------------------------------------
(* The projection, replication, a hand in the tables, and the clock. *)

\* The pending row of a POST, a terminal event before OrderCreated, OrderCreated
WriteRow(c) ==
  /\ row = Absent \/ (c = Customer /\ row # c)
  /\ row' = c /\ owners' = owners \cup ({c} \ {Unnamed})
  /\ UNCHANGED <<replica, objects, intact, now, log, bucket, req, faults>>

Replicate ==
  /\ replica # row /\ replica' = row
  /\ UNCHANGED <<row, owners, objects, intact, now, log, bucket, req, faults>>

Tamper(s) ==
  /\ s \in intact /\ intact' = intact \ {s}
  /\ UNCHANGED <<row, replica, owners, objects, now, log, bucket, req, faults>>

\* A second gives each bucket a token.
Tick ==
  /\ now < MaxNow /\ now' = now + 1
  /\ bucket' = [k \in DOMAIN bucket |-> IF bucket[k] < Burst THEN bucket[k] + 1 ELSE Burst]
  /\ UNCHANGED <<row, replica, owners, objects, intact, log, req, faults>>

Handle(r) ==
  \/ Refuse(r) \/ roleGate(r) \/ GetOrder(r) \/ checkOwnership(r)
  \/ Unacceptable(r) \/ Upload(r) \/ Download(r)
  \/ auditAccess(r) \/ AdminGate(r) \/ QueryAudit(r) \/ verifyAuditAllShards(r)

Next ==
  \/ \E r \in Reqs : Arrive(r) \/ Handle(r)
  \/ \E c \in Named \cup {Unnamed} : WriteRow(c)
  \/ \E s \in Shards : Tamper(s)
  \/ Replicate \/ Tick

Spec == Init /\ [][Next]_vars

--------------------------------------------------------------------------------
Done(r, result) == req[r].at = "done" /\ req[r].result = result
Denied(store, who) == {r \in Reqs : Done(r, "denied") /\ StoreOf(r) = store /\ req[r].who = who}
Traced(rs, traces) == {r \in rs : req[r].trace \in traces}

\* Whatever the reader's lag, failing reads and rewritten rows: who was shown
\* an order, or reached the store with its attachment, is an administrator or a
\* customer its row has named; a placeholder row is nobody's.
OnlyOwners ==
  \A r \in Reqs :
    req[r].kind \in Attachment \cup {"get"} /\ (Done(r, "ok") \/ req[r].at \in {"file", "audit"})
      => req[r].who \in owners \cup Admins

\* Each served attachment, each answer to an administrator and each denial of
\* a principal has its row, unless the write failed or the principal's bucket
\* of that store was used up; nobody gets more denials written than burst and
\* rate allow, and none is dropped before the burst is written.
Audited ==
  /\ \A r \in Reqs :
       req[r].at = "done" /\ (Done(r, "denied") \/ (Done(r, "ok") /\ req[r].kind # "get")) =>
         \/ req[r].trace = "row" /\ \E e \in log : e.req = r
         \/ req[r].trace = "failed"
         \/ req[r].trace = "coalesced" /\ Done(r, "denied")
  /\ \A store \in Stores, who \in Principals :
       LET rs == Denied(store, who) IN
       /\ Cardinality(Traced(rs, {"row"})) <= Burst + now
       /\ Traced(rs, {"coalesced"}) # {} => Cardinality(Traced(rs, {"row", "failed"})) >= Burst
  /\ \A e \in log : req[e.req].who # NoOne

\* An attachment stored before a download arrived is found by it, however the
\* two spell the order's id.
UploadsFound == \A r \in Reqs : Done(r, "nofile") => req[r].found = {}

\* A chain that was broken before the check began is reported, by its shard or
\* an earlier broken one, and a shard that is reported is broken.
BreaksReported ==
  \A r \in Reqs :
    req[r].kind = "verify" /\ Done(r, "ok") =>
      /\ \A s \in req[r].broke : req[r].break \in 1..s
      /\ req[r].break # 0 => req[r].break \notin intact
================================================================================
