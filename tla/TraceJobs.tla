------------------------------ MODULE TraceJobs ------------------------------
(***************************************************************************)
(* The trace_jobs table of ONE network (db/jobs.go and the CREATE TABLE of *)
(* migration 0001).  Every statement of db/jobs.go filters by network or   *)
(* by a row id, so networks do not interact and one network is modelled.   *)
(* Each operator below is one SQL statement; PostgreSQL runs it atomically *)
(* on the rows it touches (READ COMMITTED, row locks, predicates evaluated *)
(* again after a lock wait).                                               *)
(*                                                                         *)
(* The clock is relative: lease_expires_at and completed_at are kept as    *)
(* the time since the claim and since the completion, which grow by one at *)
(* every tick and stop at a cap beyond which no statement tells them       *)
(* apart.  NoTime is SQL's NULL.                                           *)
(*                                                                         *)
(* A definition marked "Variant" is not the code: it is the definition     *)
(* after it with one slip, which a property must be able to tell.          *)
(***************************************************************************)
EXTENDS Integers, FiniteSets

CONSTANTS
    Query,          \* the unique key of a row: address, direction, cursor, ...
    Client,         \* client keys (hashed addresses)
    NoClient,       \* the client key of a row that does not exist
    Lease,          \* traceJobLease, in ticks
    CacheTTL,       \* traceResultCacheTTL
    Retention,      \* traceJobRetention
    MaxTxAge        \* bound: an enqueue transaction lives at most this long

ASSUME JobsAssumption ==
    /\ NoClient \notin Client
    /\ Lease \in Nat
    /\ CacheTTL \in Nat
    /\ Retention \in Nat
    /\ MaxTxAge \in Nat

VARIABLES
    job,            \* job[q]: the row of query q
    accepted,       \* accepted[q]: the last request that made q 'queued'
    admitted        \* the rows inserted by a request that passed the two
                    \* capacity checks and never claimed since

\* accepted and admitted are no column of the table; they record what the
\* properties speak of.
jobVars == <<job, accepted, admitted>>

NoTime == -1

LeaseCap == Lease + 1

\* Beyond this age a completed row is outside both the cache TTL (as seen by
\* the oldest transaction) and the retention.
AgeCap == IF Retention > CacheTTL + MaxTxAge
          THEN Retention + 1
          ELSE CacheTTL + MaxTxAge + 1

Finished == {"succeeded", "failed"}

Status == {"absent", "queued", "running"} \cup Finished

(***************************************************************************)
(* A row.  id stands for both id and created_at: each is fixed when the    *)
(* row is inserted, by a transaction that inserts at most one row; it is   *)
(* the number of that transaction in the order of BEGIN, which is the      *)
(* order of now().  result is 0 for NULL, else the request whose work the  *)
(* stored result answers; error says whether error_message is set.         *)
(***************************************************************************)
Row == [status    : Status,
        id        : Nat,
        client    : Client \cup {NoClient},
        result    : Nat,
        error     : {"none", "message"},
        lease     : {NoTime} \cup (0 .. LeaseCap),
        completed : {NoTime} \cup (0 .. AgeCap)]

AbsentRow == [status |-> "absent", id |-> 0, client |-> NoClient,
              result |-> 0, error |-> "none",
              lease |-> NoTime, completed |-> NoTime]

JobsTypeOK ==
    /\ job \in [Query -> Row]
    /\ accepted \in [Query -> Nat]
    /\ admitted \subseteq Query

JobsInit ==
    /\ job = [q \in Query |-> AbsentRow]
    /\ accepted = [q \in Query |-> 0]
    /\ admitted = {}

InStatus(s) == {q \in Query : job[q].status = s}

QueuedOf(c) == {q \in InStatus("queued") : job[q].client = c}

-----------------------------------------------------------------------------
(* EnqueueTraceJob's INSERT ... ON CONFLICT DO UPDATE.                      *)

\* completed_at < now() - TTL, where now() is the BEGIN of a transaction of
\* age txAge; NULL (NoTime) compares as unknown, hence not stale.
Stale(q, txAge) ==
    /\ job[q].status = "succeeded"
    /\ job[q].completed - txAge > CacheTTL

\* Variant: a retry of whatever there is.
ReopensAny(q, retry, txAge) ==
    \/ retry /\ job[q].status # "absent"
    \/ Stale(q, txAge)

Reopens(q, retry, txAge) ==
    \/ retry /\ job[q].status = "failed"
    \/ Stale(q, txAge)

\* No conflict: a new row.  created_at and id are n.
InsertJob(q, c, n, checked) ==
    /\ job[q].status = "absent"
    /\ job' = [job EXCEPT ![q] = [AbsentRow EXCEPT !.status = "queued",
                                                   !.id = n,
                                                   !.client = c]]
    /\ accepted' = [accepted EXCEPT ![q] = n]
    /\ admitted' = IF checked THEN admitted \cup {q} ELSE admitted

\* Variant: the error of the failed attempt stays.
ReopenKeepingError(q, n, retry, txAge) ==
    /\ Reopens(q, retry, txAge)
    /\ job' = [job EXCEPT ![q] = [@ EXCEPT !.status = "queued",
                                            !.result = 0,
                                            !.completed = NoTime]]
    /\ accepted' = [accepted EXCEPT ![q] = n]
    /\ UNCHANGED admitted

\* Conflict with a row whose outcome is to be found again.  client_key,
\* created_at and id keep the values of the first request.
ReopenJob(q, n, retry, txAge) ==
    /\ Reopens(q, retry, txAge)
    /\ job' = [job EXCEPT ![q] = [@ EXCEPT !.status = "queued",
                                            !.result = 0,
                                            !.error = "none",
                                            !.completed = NoTime]]
    /\ accepted' = [accepted EXCEPT ![q] = n]
    /\ UNCHANGED admitted

\* Conflict with any other row: only updated_at changes.
KeepJob(q, retry, txAge) ==
    /\ job[q].status # "absent"
    /\ ~Reopens(q, retry, txAge)
    /\ UNCHANGED jobVars

-----------------------------------------------------------------------------
(* The statements of the worker.                                            *)

\* Variant: recovery one tick early.
LeaseExpiredEarly(q) == job[q].status = "running" /\ job[q].lease >= Lease

LeaseExpired(q) == job[q].status = "running" /\ job[q].lease > Lease

RecoverExpiredTraceJobs ==
    /\ job' = [q \in Query |->
                 IF LeaseExpired(q)
                 THEN [job[q] EXCEPT !.status = "queued", !.lease = NoTime]
                 ELSE job[q]]
    /\ UNCHANGED <<accepted, admitted>>

\* ORDER BY created_at FOR UPDATE SKIP LOCKED LIMIT 1, while other
\* transactions have locked these rows.
NextJob(q, locked) ==
    /\ q \in InStatus("queued") \ locked
    /\ \A p \in InStatus("queued") \ locked : job[q].id <= job[p].id

\* Variant: no unique index.
Queued(q) == job[q].status = "queued"

\* The partial unique index on (network) WHERE status = 'running' refuses the
\* UPDATE while another row runs; the caller reads that as "no job".
Claimable(q) == job[q].status = "queued" /\ InStatus("running") = {}

\* Variant: the claim sets no lease.
ClaimWithoutLease(q) ==
    /\ Claimable(q)
    /\ job' = [job EXCEPT ![q] = [@ EXCEPT !.status = "running"]]
    /\ admitted' = admitted \ {q}
    /\ UNCHANGED accepted

ClaimTraceJob(q) ==
    /\ Claimable(q)
    /\ job' = [job EXCEPT ![q] = [@ EXCEPT !.status = "running", !.lease = 0]]
    /\ admitted' = admitted \ {q}
    /\ UNCHANGED accepted

\* Variant: WHERE id = $1.
MatchesById(q, id) == job[q].id = id

\* WHERE id = $1 AND status = 'running': the lease is not consulted.
Matches(q, id) == job[q].id = id /\ job[q].status = "running"

CompleteTraceJob(q, id, result) ==
    /\ job' = IF Matches(q, id)
              THEN [job EXCEPT ![q] = [@ EXCEPT !.status = "succeeded",
                                                 !.result = result,
                                                 !.error = "none",
                                                 !.lease = NoTime,
                                                 !.completed = 0]]
              ELSE job
    /\ UNCHANGED <<accepted, admitted>>

FailTraceJob(q, id) ==
    /\ job' = IF Matches(q, id)
              THEN [job EXCEPT ![q] = [@ EXCEPT !.status = "failed",
                                                 !.error = "message",
                                                 !.lease = NoTime,
                                                 !.completed = 0]]
              ELSE job
    /\ UNCHANGED <<accepted, admitted>>

RequeueTraceJob(q, id) ==
    /\ job' = IF Matches(q, id)
              THEN [job EXCEPT ![q] = [@ EXCEPT !.status = "queued",
                                                 !.lease = NoTime]]
              ELSE job
    /\ UNCHANGED <<accepted, admitted>>

Expired(q) == job[q].status \in Finished /\ job[q].completed > Retention

\* Variant: retention for the traces that succeeded only.
PruneSucceededTraceJobs ==
    LET old == {q \in Query : Expired(q) /\ job[q].status = "succeeded"}
    IN  /\ job' = [q \in Query |-> IF q \in old THEN AbsentRow ELSE job[q]]
        /\ accepted' = [q \in Query |-> IF q \in old THEN 0 ELSE accepted[q]]
        /\ UNCHANGED admitted

PruneFinishedTraceJobs ==
    /\ job' = [q \in Query |-> IF Expired(q) THEN AbsentRow ELSE job[q]]
    /\ accepted' = [q \in Query |-> IF Expired(q) THEN 0 ELSE accepted[q]]
    /\ UNCHANGED admitted

-----------------------------------------------------------------------------
(* The database clock.                                                      *)

Later(t, cap) == IF t = NoTime \/ t = cap THEN t ELSE t + 1

JobsTick ==
    /\ job' = [q \in Query |->
                 [job[q] EXCEPT !.lease = Later(@, LeaseCap),
                                !.completed = Later(@, AgeCap)]]
    /\ UNCHANGED <<accepted, admitted>>

-----------------------------------------------------------------------------

\* The columns agree with the status: a lease exactly while running, a
\* completion time exactly when finished, a result exactly when succeeded,
\* an error exactly when failed.  resultForJob decodes result_json on the
\* word of status alone (tracing/queue.go:105-111), and a 'running' row with
\* a NULL lease would never be recovered and would block the network.
ConsistentRow(r) ==
    /\ r.lease # NoTime <=> r.status = "running"
    /\ r.completed # NoTime <=> r.status \in Finished
    /\ r.result # 0 <=> r.status = "succeeded"
    /\ r.error # "none" <=> r.status = "failed"
    /\ r.id # 0 <=> r.status # "absent"

RowConsistent(q) ==
    /\ ConsistentRow(job[q])
    /\ accepted[q] # 0 <=> job[q].status # "absent"
    /\ q \in admitted => job[q].status = "queued"

RowsConsistent == \A q \in Query : RowConsistent(q)

\* At most one job of the network runs (the index of migration 0001).
OneRunning ==
    \A p, q \in Query :
        job[p].status = "running" /\ job[q].status = "running" => p = q

=============================================================================
