----------------------------- MODULE TraceQueue -----------------------------
(***************************************************************************)
(* The durable trace queue of one network: API requests that enqueue       *)
(* (tracing.Queue.TraceGraph, db.EnqueueTraceJob), the worker loop of each *)
(* backend process (tracing.Queue.Start, runOnce, resolveWithRetry) and    *)
(* the table they share (TraceJobs).  A process may crash, be shut down,   *)
(* be restarted by its supervisor, or stall for any time (a suspended VM,  *)
(* a blocked connection); a statement may fail.                            *)
(*                                                                         *)
(* ResolveGraph is seen through what it returns: a graph, an error the     *)
(* provider layer calls retryable, or another error.                       *)
(***************************************************************************)
EXTENDS TraceJobs

CONSTANTS
    Session,            \* enqueue transactions open at the same time
    Worker,             \* backend processes that run this network's loop
    NoQuery,            \* the query of an idle session or worker
    MaxQueued,          \* TRACE_QUEUE capacity per network
    MaxQueuedPerClient, \* and per client of the network
    MaxAttempts,        \* traceProviderMaxAttempts
    JobTimeout,         \* traceJobTimeout, in ticks
    WriteTimeout,       \* the time a final write may take, in ticks
    PruneInterval,      \* traceJobPruneInterval, in ticks
    MaxRequests,        \* bound: enqueue requests in a behaviour
    FaultKinds,         \* the faults that may happen ...
    MaxFaults           \* ... and bound: how many in a behaviour

AllFaults == {"crash", "shutdown", "stall", "dberror"}

ASSUME QueueAssumption ==
    /\ NoQuery \notin Query
    /\ MaxQueued \in Nat
    /\ MaxQueuedPerClient \in Nat
    /\ MaxAttempts \in Nat \ {0}
    /\ JobTimeout \in Nat \ {0}
    /\ WriteTimeout \in Nat
    /\ PruneInterval \in Nat
    /\ MaxRequests \in Nat
    /\ MaxFaults \in Nat
    /\ FaultKinds \subseteq AllFaults

\* The timing the constants of tracing/queue.go:16-23 and :176 are chosen
\* for: a job's deadline and its final write fit in its lease.
ASSUME LeaseAssumption == JobTimeout + WriteTimeout <= Lease

VARIABLES
    session,    \* session[s]: an EnqueueTraceJob call in progress
    worker,     \* worker[w]: where the loop of process w is
    task,       \* task[w]: the job that w has claimed and not yet written
    requests,   \* how many enqueue transactions have begun
    faults      \* how many faults have happened

vars == <<jobVars, session, worker, task, requests, faults>>

HoldCap == JobTimeout + WriteTimeout

Sessions == [pc      : {"idle", "begun", "count", "countClient", "upsert"},
             client  : Client \cup {NoClient},
             query   : Query \cup {NoQuery},
             retry   : BOOLEAN,
             number  : Nat,         \* its place in the order of BEGIN
             checked : BOOLEAN,     \* it found no row, so it counts
             age     : 0 .. MaxTxAge]

NoSession == [pc |-> "idle", client |-> NoClient, query |-> NoQuery,
              retry |-> FALSE, number |-> 0, checked |-> FALSE, age |-> 0]

Workers == [pc      : {"loop", "recover", "claim", "resolve", "backoff",
                       "record", "wait", "exited", "down"},
            ctx     : {"alive", "cancelled"},
            stalled : BOOLEAN,
            pruned  : 0 .. PruneInterval]   \* time since lastPrunedAt

\* lastPrunedAt starts at the zero time, so the first loop prunes.
FreshWorker == [pc |-> "loop", ctx |-> "alive", stalled |-> FALSE,
                pruned |-> PruneInterval]

Tasks == [query    : Query \cup {NoQuery},
          id       : Nat,
          accepted : Nat,       \* the request in force when it was claimed
          attempt  : 0 .. MaxAttempts,
          age      : 0 .. HoldCap,
          ctx      : {"live", "deadline", "cancelled"},  \* jobContext.Err()
          outcome  : {"none", "graph", "error"}]

NoTask == [query |-> NoQuery, id |-> 0, accepted |-> 0, attempt |-> 0,
           age |-> 0, ctx |-> "live", outcome |-> "none"]

TypeOK ==
    /\ JobsTypeOK
    /\ session \in [Session -> Sessions]
    /\ worker \in [Worker -> Workers]
    /\ task \in [Worker -> Tasks]
    /\ requests \in Nat
    /\ faults \in Nat

Init ==
    /\ JobsInit
    /\ session = [s \in Session |-> NoSession]
    /\ worker = [w \in Worker |-> FreshWorker]
    /\ task = [w \in Worker |-> NoTask]
    /\ requests = 0
    /\ faults = 0

Fault(kind) ==
    /\ kind \in FaultKinds
    /\ faults < MaxFaults
    /\ faults' = faults + 1

-----------------------------------------------------------------------------
(* EnqueueTraceJob, one action per statement.  Statements of the workers   *)
(* and of other transactions run in between; the advisory lock keeps out   *)
(* only the other enqueues.                                                *)

UnderLock == {"count", "countClient", "upsert"}

\* Variant: no advisory lock.
NoLock == TRUE

LockFree == \A s \in Session : session[s].pc \notin UnderLock

\* BEGIN: now() is fixed here, before the lock is waited for.
BeginEnqueue(s) ==
    /\ session[s].pc = "idle"
    /\ requests < MaxRequests
    /\ requests' = requests + 1
    /\ \E c \in Client, q \in Query, retry \in BOOLEAN :
        session' = [session EXCEPT ![s] =
                      [NoSession EXCEPT !.pc = "begun",
                                        !.client = c,
                                        !.query = q,
                                        !.retry = retry,
                                        !.number = requests + 1]]
    /\ UNCHANGED <<jobVars, worker, task, faults>>

\* pg_advisory_xact_lock, and the EXISTS that follows it.
LockAndLook(s) ==
    /\ session[s].pc = "begun"
    /\ LockFree
    /\ LET absent == job[session[s].query].status = "absent"
       IN  session' = [session EXCEPT
                         ![s] = [@ EXCEPT !.pc = IF absent THEN "count"
                                                            ELSE "upsert",
                                          !.checked = absent]]
    /\ UNCHANGED <<jobVars, worker, task, requests, faults>>

CountQueued(s) ==
    /\ session[s].pc = "count"
    /\ session' = [session EXCEPT ![s] =
                     IF Cardinality(InStatus("queued")) >= MaxQueued
                     THEN NoSession         \* ErrTraceQueueFull
                     ELSE [@ EXCEPT !.pc = "countClient"]]
    /\ UNCHANGED <<jobVars, worker, task, requests, faults>>

CountClientQueued(s) ==
    /\ session[s].pc = "countClient"
    /\ session' = [session EXCEPT ![s] =
                     IF Cardinality(QueuedOf(session[s].client)) >= MaxQueuedPerClient
                     THEN NoSession         \* ErrTraceClientQueueFull
                     ELSE [@ EXCEPT !.pc = "upsert"]]
    /\ UNCHANGED <<jobVars, worker, task, requests, faults>>

\* The upsert and the COMMIT that makes it visible and drops the lock.
UpsertAndCommit(s) ==
    /\ session[s].pc = "upsert"
    /\ LET me == session[s]
       IN  \/ InsertJob(me.query, me.client, me.number, me.checked)
           \/ ReopenJob(me.query, me.number, me.retry, me.age)
           \/ KeepJob(me.query, me.retry, me.age)
    /\ session' = [session EXCEPT ![s] = NoSession]
    /\ UNCHANGED <<worker, task, requests, faults>>

\* The client goes away or a statement fails: ROLLBACK.
AbortEnqueue(s) ==
    /\ session[s].pc # "idle"
    /\ session' = [session EXCEPT ![s] = NoSession]
    /\ UNCHANGED <<jobVars, worker, task, requests, faults>>

-----------------------------------------------------------------------------
(* The loop of Start and runOnce.                                          *)

At(w, pc) == worker[w].pc = pc /\ ~worker[w].stalled

Goto(w, pc) == worker' = [worker EXCEPT ![w].pc = pc]

\* A statement issued with the worker's context.
StatementRuns(w) == worker[w].ctx = "alive" /\ UNCHANGED faults

StatementFails(w) ==
    \/ worker[w].ctx = "cancelled" /\ UNCHANGED faults
    \/ worker[w].ctx = "alive" /\ Fault("dberror")

\* pruneFinished: lastPrunedAt is set before, whatever the statement does.
PruneFinished(w) ==
    /\ At(w, "loop")
    /\ worker[w].pruned >= PruneInterval
    /\ \/ StatementRuns(w) /\ PruneFinishedTraceJobs
       \/ StatementFails(w) /\ UNCHANGED jobVars
    /\ worker' = [worker EXCEPT ![w] = [@ EXCEPT !.pc = "recover",
                                                  !.pruned = 0]]
    /\ UNCHANGED <<session, task, requests>>

SkipPrune(w) ==
    /\ At(w, "loop")
    /\ worker[w].pruned < PruneInterval
    /\ Goto(w, "recover")
    /\ UNCHANGED <<jobVars, session, task, requests, faults>>

RecoverExpired(w) ==
    /\ At(w, "recover")
    /\ \/ StatementRuns(w) /\ RecoverExpiredTraceJobs /\ Goto(w, "claim")
       \/ StatementFails(w) /\ UNCHANGED jobVars /\ Goto(w, "wait")
    /\ UNCHANGED <<session, task, requests>>

\* The rows that an ON CONFLICT may hold locked until its COMMIT.
LockedRows == {session[s].query : s \in {t \in Session : session[t].pc = "upsert"}}

ClaimJob(w) ==
    /\ At(w, "claim")
    /\ StatementRuns(w)
    /\ \E q \in Query, locked \in SUBSET LockedRows :
        /\ NextJob(q, locked)
        /\ ClaimTraceJob(q)
        /\ task' = [task EXCEPT ![w] =
                      [NoTask EXCEPT !.query = q,
                                     !.id = job[q].id,
                                     !.accepted = accepted[q],
                                     !.attempt = 1]]
    /\ Goto(w, "resolve")
    /\ UNCHANGED <<session, requests>>

\* No queued row that is not locked, or the unique index refused the claim.
ClaimNothing(w) ==
    /\ At(w, "claim")
    /\ StatementRuns(w)
    /\ InStatus("queued") \subseteq LockedRows \/ InStatus("running") # {}
    /\ Goto(w, "wait")
    /\ UNCHANGED <<jobVars, session, task, requests>>

\* The claim returns an error: it did not happen, or (the connection was
\* lost or the context cancelled after the commit) it did, and the row is
\* 'running' for nobody.
ClaimFails(w) ==
    /\ At(w, "claim")
    /\ StatementFails(w)
    /\ \/ UNCHANGED jobVars
       \/ \E q \in Query, locked \in SUBSET LockedRows :
            NextJob(q, locked) /\ ClaimTraceJob(q)
    /\ Goto(w, "wait")
    /\ UNCHANGED <<session, task, requests>>

\* Variant: one attempt too many.
OneMoreAttempt(w) == task[w].attempt <= MaxAttempts

AttemptLeft(w) == task[w].attempt < MaxAttempts

\* One ResolveGraph call of resolveWithRetry.  With a retryable error and
\* attempts left it backs off, else the job has its outcome.
ResolveGraph(w) ==
    /\ At(w, "resolve")
    /\ \/ \E outcome \in {"graph", "error"} :
            /\ task' = [task EXCEPT ![w].outcome = outcome]
            /\ Goto(w, "record")
       \/ /\ AttemptLeft(w)
          /\ Goto(w, "backoff")
          /\ UNCHANGED task
    /\ UNCHANGED <<jobVars, session, requests, faults>>

\* The timer of the select fires; or jobContext is done.
Backoff(w) ==
    /\ At(w, "backoff")
    /\ \/ /\ task' = [task EXCEPT ![w].attempt = @ + 1]
          /\ Goto(w, "resolve")
       \/ /\ task[w].ctx # "live"
          /\ task' = [task EXCEPT ![w].outcome = "error"]
          /\ Goto(w, "record")
    /\ UNCHANGED <<jobVars, session, requests, faults>>

\* The final write.  Fail and Requeue use a context of their own; Complete
\* uses the worker's, so a shutdown that finds a graph resolved loses it and
\* leaves the row to its lease.
RecordOutcome(w) ==
    /\ At(w, "record")
    /\ LET t == task[w]
       IN  \/ /\ t.outcome = "error" /\ t.ctx = "cancelled"
              /\ RequeueTraceJob(t.query, t.id)
              /\ UNCHANGED faults
           \/ /\ t.outcome = "error" /\ t.ctx # "cancelled"
              /\ FailTraceJob(t.query, t.id)
              /\ UNCHANGED faults
           \/ /\ t.outcome = "graph"
              /\ StatementRuns(w)
              /\ CompleteTraceJob(t.query, t.id, t.accepted)
           \/ /\ t.outcome = "graph" /\ StatementFails(w)
              /\ UNCHANGED jobVars
           \/ /\ t.outcome = "error" /\ Fault("dberror")
              /\ UNCHANGED jobVars
    /\ task' = [task EXCEPT ![w] = NoTask]
    /\ Goto(w, "loop")
    /\ UNCHANGED <<session, requests>>

\* Variant: the loop goes on after the context is done.
PollForever(w) ==
    /\ At(w, "wait")
    /\ Goto(w, "loop")
    /\ UNCHANGED <<jobVars, session, task, requests, faults>>

\* The select of Start: the one-second timer, or, at once when the context is
\* done, the end of the loop.  (A timer that fires together with the
\* cancellation is a cancellation one step later.)
PollWait(w) ==
    /\ At(w, "wait")
    /\ Goto(w, IF worker[w].ctx = "cancelled" THEN "exited" ELSE "loop")
    /\ UNCHANGED <<jobVars, session, task, requests, faults>>

WorkerStep(w) ==
    \/ PruneFinished(w) \/ SkipPrune(w)
    \/ RecoverExpired(w)
    \/ ClaimJob(w) \/ ClaimNothing(w) \/ ClaimFails(w)
    \/ ResolveGraph(w) \/ Backoff(w)
    \/ RecordOutcome(w)
    \/ PollWait(w)

-----------------------------------------------------------------------------
(* The process around the loop (cmd/server/main.go) and its supervisor.    *)

Up(w) == worker[w].pc \notin {"exited", "down"}

Holding == {"resolve", "backoff", "record"}

Holds(w) == worker[w].pc \in Holding

\* stopWorker(): cancels the worker's context, and with it the job's.
Shutdown(w) ==
    /\ Up(w)
    /\ worker[w].ctx = "alive"
    /\ Fault("shutdown")
    /\ worker' = [worker EXCEPT ![w].ctx = "cancelled"]
    /\ task' = [task EXCEPT ![w].ctx =
                  IF worker[w].pc \in {"resolve", "backoff"} /\ @ = "live"
                  THEN "cancelled" ELSE @]
    /\ UNCHANGED <<jobVars, session, requests>>

Crash(w) ==
    /\ Up(w)
    /\ Fault("crash")
    /\ worker' = [worker EXCEPT ![w] = [FreshWorker EXCEPT !.pc = "down"]]
    /\ task' = [task EXCEPT ![w] = NoTask]
    /\ UNCHANGED <<jobVars, session, requests>>

\* restart: unless-stopped.
Restart(w) ==
    /\ ~Up(w)
    /\ worker' = [worker EXCEPT ![w] = FreshWorker]
    /\ UNCHANGED <<jobVars, session, task, requests, faults>>

Stall(w) ==
    /\ Up(w)
    /\ ~worker[w].stalled
    /\ Fault("stall")
    /\ worker' = [worker EXCEPT ![w].stalled = TRUE]
    /\ UNCHANGED <<jobVars, session, task, requests>>

Resume(w) ==
    /\ worker[w].stalled
    /\ worker' = [worker EXCEPT ![w].stalled = FALSE]
    /\ UNCHANGED <<jobVars, session, task, requests, faults>>

-----------------------------------------------------------------------------
(* Time.  A worker that is not stalled leaves ResolveGraph by its deadline *)
(* and ends its final write in WriteTimeout; a transaction ends within     *)
(* MaxTxAge.                                                               *)

Urgent(w) ==
    /\ ~worker[w].stalled
    /\ \/ worker[w].pc \in {"resolve", "backoff"} /\ task[w].age >= JobTimeout
       \/ worker[w].pc = "record" /\ task[w].age >= HoldCap

Aged(t) == IF t < HoldCap THEN t + 1 ELSE t

\* context.WithTimeout: the first of deadline and cancellation is kept.
TaskTick(w) ==
    LET t == task[w]
    IN  [t EXCEPT !.age = Aged(@),
                  !.ctx = IF /\ worker[w].pc \in {"resolve", "backoff"}
                             /\ @ = "live"
                             /\ t.age + 1 >= JobTimeout
                          THEN "deadline" ELSE @]

Tick ==
    /\ \A w \in Worker : ~Urgent(w)
    /\ \A s \in Session : session[s].pc # "idle" => session[s].age < MaxTxAge
    /\ JobsTick
    /\ session' = [s \in Session |->
                     IF session[s].pc = "idle" THEN session[s]
                     ELSE [session[s] EXCEPT !.age = @ + 1]]
    /\ worker' = [w \in Worker |->
                    [worker[w] EXCEPT !.pruned =
                       IF @ < PruneInterval THEN @ + 1 ELSE @]]
    /\ task' = [w \in Worker |-> IF Holds(w) THEN TaskTick(w) ELSE task[w]]
    /\ UNCHANGED <<requests, faults>>

-----------------------------------------------------------------------------

SessionStep(s) ==
    \/ LockAndLook(s) \/ CountQueued(s) \/ CountClientQueued(s)
    \/ UpsertAndCommit(s)

Next ==
    \/ \E s \in Session : BeginEnqueue(s) \/ SessionStep(s) \/ AbortEnqueue(s)
    \/ \E w \in Worker : \/ WorkerStep(w)
                         \/ Shutdown(w) \/ Crash(w) \/ Restart(w)
                         \/ Stall(w) \/ Resume(w)
    \/ Tick

Spec == Init /\ [][Next]_vars

\* The Go scheduler runs every goroutine, PostgreSQL answers, the supervisor
\* restarts a process that is gone, a stall ends, and time passes.  Nothing
\* makes a client send a request, and no fault has to happen.
Fairness ==
    /\ \A s \in Session : WF_vars(SessionStep(s))
    /\ \A w \in Worker : /\ WF_vars(WorkerStep(w))
                         /\ WF_vars(Restart(w))
                         /\ WF_vars(Resume(w))
    /\ WF_vars(Tick)

FairSpec == Spec /\ Fairness

-----------------------------------------------------------------------------
(* Properties.                                                              *)

\* An open transaction knows its query, its client and its own number.
SessionsKnow ==
    \A s \in Session :
        session[s].pc # "idle" => /\ session[s].query \in Query
                                  /\ session[s].client \in Client
                                  /\ session[s].number # 0

\* A worker in the middle of a job knows the row it claimed, and backs off
\* only while it has an attempt left.
WorkersKnow ==
    \A w \in Worker :
        Holds(w) => /\ task[w].query \in Query
                    /\ task[w].accepted # 0
                    /\ worker[w].pc = "backoff" => task[w].attempt < MaxAttempts

\* Inductive: TypeOK alone is not, an INSERT is well typed only for the row
\* of a query, and a result is not NULL only if the job came from a request.
IInv == TypeOK /\ RowsConsistent /\ SessionsKnow /\ WorkersKnow

\* As long as no process stalls, at most one process resolves a trace of the
\* network, and the job it resolves is the row that runs, under a lease that
\* has not expired: neither recovery nor another claim can take it away
\* (queue.go:18-19 and :176 are chosen for it; the final writes of
\* jobs.go:151-169 check neither lease nor owner and rely on it).
SoleResolver ==
    /\ \A v, w \in Worker : Holds(v) /\ Holds(w) => v = w
    /\ \A w \in Worker :
          Holds(w) => /\ Matches(task[w].query, task[w].id)
                      /\ ~LeaseExpired(task[w].query)

\* Inductive (with IInv and OneRunning) when no process stalls: the lease of
\* the row and the clock of its worker started together and run together, so
\* the worker is out by HoldCap, before the lease is.
TimelyInv ==
    /\ \A w \in Worker : ~worker[w].stalled
    /\ \A w \in Worker :
          Holds(w) => LET q == task[w].query
                      IN  /\ Matches(q, task[w].id)
                          /\ job[q].lease = task[w].age
                          /\ task[w].accepted = accepted[q]
    /\ \A v, w \in Worker : Holds(v) /\ Holds(w) => v = w

\* As long as no process stalls, a stored graph was resolved for the request
\* that last queued the row, never for an earlier one: what a retry or a
\* refresh gets is found after it asked (jobs.go:73-88, 151-154).
AnswerIsCurrent ==
    \A q \in Query :
        job[q].status = "succeeded" => job[q].result = accepted[q]

AdmittedOf(c) == {q \in admitted : job[q].client = c}

\* What the per-network lock of EnqueueTraceJob does guarantee, with any
\* number of concurrent requests and workers that put rows back in between:
\* the new work waiting for its first claim stays within both capacities.
AdmissionBound ==
    /\ Cardinality(admitted) <= MaxQueued
    /\ \A c \in Client : Cardinality(AdmittedOf(c)) <= MaxQueuedPerClient

\* What jobs.go:45 says of the same lock, "preserves a strict bounded queue",
\* and queue.go:139 of MaxQueued, "the durable per-network queue limit".
StrictlyBounded == Cardinality(InStatus("queued")) <= MaxQueued

\* An answered row is rewritten by a request or by retention only: a worker
\* that comes back late, with the id of a row that was recovered, answered,
\* or deleted and inserted again, changes no answer.
AnswersSurviveWorkers ==
    [][\A q \in Query :
         /\ job[q].status \in Finished
         /\ job'[q].status # job[q].status
         => \/ /\ job'[q].status = "queued"
               /\ accepted'[q] # accepted[q]
            \/ job'[q] = AbsentRow /\ job[q].completed > Retention]_vars

\* The queue implements the abstract service: queued and running are both
\* "pending" to a caller (resultForJob, queue.go:104-121).
Seen(status) ==
    CASE status = "absent" -> "unknown"
      [] status \in {"queued", "running"} -> "pending"
      [] status \in Finished -> status

Service == INSTANCE TraceService
           WITH trace <- [q \in Query |-> Seen(job[q].status)]

ImplementsService == Service!Spec

\* Every accepted trace is answered, whatever finite number of crashes,
\* shutdowns, stalls and failed statements happens on the way.
EveryTraceIsAnswered ==
    \A q \in Query :
        job[q].status \in {"queued", "running"} ~> job[q].status \in Finished

\* A process told to stop does: main waits for it in queue.Wait().
ShutdownEnds ==
    \A w \in Worker :
        worker[w].ctx = "cancelled" ~> ~Up(w)

\* Retention is enforced: an answer does not stay for ever once it is old,
\* unless it is asked for again.
OldAnswersGo ==
    \A q \in Query : Expired(q) ~> ~Expired(q)

=============================================================================
