------------------------- MODULE TraceQueue_proofs -------------------------
(***************************************************************************)
(* Theorems about the trace queue, for any sets of queries, clients,       *)
(* sessions and workers and any values of the timing constants.            *)
(***************************************************************************)
EXTENDS TraceQueue, FiniteSetTheorems, TLAPS

USE DEF NoTime

-----------------------------------------------------------------------------
(* The statements of the table keep its rows well typed and consistent.    *)

LEMMA CapsAreNat ==
  /\ LeaseCap \in Nat /\ 0 \in 0 .. LeaseCap
  /\ AgeCap \in Nat /\ 0 \in 0 .. AgeCap
  BY JobsAssumption DEF LeaseCap, AgeCap

(* A clock that runs stays within its cap, and NULL stays NULL.             *)
LEMMA LaterInRange ==
  ASSUME NEW cap \in Nat, NEW t \in {NoTime} \cup (0 .. cap)
  PROVE  /\ Later(t, cap) \in {NoTime} \cup (0 .. cap)
         /\ Later(t, cap) = NoTime <=> t = NoTime
  BY DEF Later

LEMMA InsertKeepsRows ==
  ASSUME JobsTypeOK, RowsConsistent,
         NEW q \in Query, NEW c \in Client, NEW n \in Nat \ {0},
         NEW checked \in BOOLEAN, InsertJob(q, c, n, checked)
  PROVE  JobsTypeOK' /\ RowsConsistent'
  BY CapsAreNat DEF InsertJob, JobsTypeOK, RowsConsistent, RowConsistent, ConsistentRow, Row,
         AbsentRow, Status, Finished

LEMMA ReopenKeepsRows ==
  ASSUME JobsTypeOK, RowsConsistent,
         NEW q \in Query, NEW n \in Nat \ {0}, NEW retry \in BOOLEAN,
         NEW txAge \in Nat, ReopenJob(q, n, retry, txAge)
  PROVE  JobsTypeOK' /\ RowsConsistent'
  <1> DEFINE r == [job[q] EXCEPT !.status = "queued", !.result = 0,
                                 !.error = "none", !.completed = NoTime]
  <1>1. job[q] \in Row /\ ConsistentRow(job[q]) /\ job[q].status \in Finished
    BY DEF ReopenJob, Reopens, Stale, Finished, JobsTypeOK, RowsConsistent, RowConsistent
  <1>2. r \in Row
    BY <1>1 DEF Row, Status
  <1>3. ConsistentRow(r)
    BY <1>1 DEF Row, ConsistentRow, Finished
  <1>4. job' = [job EXCEPT ![q] = r] /\ accepted' = [accepted EXCEPT ![q] = n] /\ admitted' = admitted
    BY DEF ReopenJob
  <1> QED
    BY <1>1, <1>2, <1>3, <1>4 DEF JobsTypeOK, RowsConsistent, RowConsistent, Finished

LEMMA ClaimKeepsRows ==
  ASSUME JobsTypeOK, RowsConsistent, NEW q \in Query, ClaimTraceJob(q)
  PROVE  JobsTypeOK' /\ RowsConsistent'
  <1> DEFINE r == [job[q] EXCEPT !.status = "running", !.lease = 0]
  <1>1. job[q] \in Row /\ ConsistentRow(job[q]) /\ job[q].status = "queued"
    BY DEF ClaimTraceJob, Claimable, JobsTypeOK, RowsConsistent,
           RowConsistent
  <1>2. r \in Row
    BY <1>1, CapsAreNat DEF Row, Status
  <1>3. ConsistentRow(r)
    BY <1>1 DEF Row, ConsistentRow, Finished
  <1>4. job' = [job EXCEPT ![q] = r] /\ accepted' = accepted
        /\ admitted' = admitted \ {q}
    BY DEF ClaimTraceJob
  <1> QED
    BY <1>1, <1>2, <1>3, <1>4 DEF JobsTypeOK, RowsConsistent, RowConsistent

(* The three final writes: the row that still runs under this id takes the  *)
(* value r, no other row changes.                                           *)
LEMMA FinalWriteKeepsRows ==
  ASSUME JobsTypeOK, RowsConsistent,
         NEW q \in Query, NEW id \in Nat, NEW r \in Row,
         Matches(q, id) => ConsistentRow(r) /\ r.status # "absent",
         job' = IF Matches(q, id) THEN [job EXCEPT ![q] = r] ELSE job,
         UNCHANGED <<accepted, admitted>>
  PROVE  JobsTypeOK' /\ RowsConsistent'
  <1>1. CASE Matches(q, id)
    <2>1. job' = [job EXCEPT ![q] = r] /\ job[q].status = "running"
      BY <1>1 DEF Matches
    <2> QED
      BY <1>1, <2>1 DEF JobsTypeOK, RowsConsistent, RowConsistent
  <1>2. CASE ~Matches(q, id)
    BY <1>2 DEF JobsTypeOK, RowsConsistent, RowConsistent, ConsistentRow
  <1> QED
    BY <1>1, <1>2

LEMMA CompleteKeepsRows ==
  ASSUME JobsTypeOK, RowsConsistent,
         NEW q \in Query, NEW id \in Nat, NEW result \in Nat \ {0},
         CompleteTraceJob(q, id, result)
  PROVE  JobsTypeOK' /\ RowsConsistent'
  <1> DEFINE r == [job[q] EXCEPT !.status = "succeeded", !.result = result,
                                 !.error = "none", !.lease = NoTime,
                                 !.completed = 0]
  <1>1. job[q] \in Row /\ ConsistentRow(job[q])
    BY DEF JobsTypeOK, RowsConsistent, RowConsistent
  <1>2. r \in Row
    BY <1>1, CapsAreNat DEF Row, Status, Finished
  <1>3. Matches(q, id) => ConsistentRow(r) /\ r.status # "absent"
    BY <1>1 DEF Row, ConsistentRow, Finished, Matches
  <1>4. job' = IF Matches(q, id) THEN [job EXCEPT ![q] = r] ELSE job
    BY DEF CompleteTraceJob
  <1> HIDE DEF r
  <1> QED
    BY <1>2, <1>3, <1>4, FinalWriteKeepsRows DEF CompleteTraceJob

LEMMA FailKeepsRows ==
  ASSUME JobsTypeOK, RowsConsistent,
         NEW q \in Query, NEW id \in Nat, FailTraceJob(q, id)
  PROVE  JobsTypeOK' /\ RowsConsistent'
  <1> DEFINE r == [job[q] EXCEPT !.status = "failed", !.error = "message",
                                 !.lease = NoTime, !.completed = 0]
  <1>1. job[q] \in Row /\ ConsistentRow(job[q])
    BY DEF JobsTypeOK, RowsConsistent, RowConsistent
  <1>2. r \in Row
    BY <1>1, CapsAreNat DEF Row, Status, Finished
  <1>3. Matches(q, id) => ConsistentRow(r) /\ r.status # "absent"
    BY <1>1 DEF Row, ConsistentRow, Finished, Matches
  <1>4. job' = IF Matches(q, id) THEN [job EXCEPT ![q] = r] ELSE job
    BY DEF FailTraceJob
  <1> HIDE DEF r
  <1> QED
    BY <1>2, <1>3, <1>4, FinalWriteKeepsRows DEF FailTraceJob

LEMMA RequeueKeepsRows ==
  ASSUME JobsTypeOK, RowsConsistent,
         NEW q \in Query, NEW id \in Nat, RequeueTraceJob(q, id)
  PROVE  JobsTypeOK' /\ RowsConsistent'
  <1> DEFINE r == [job[q] EXCEPT !.status = "queued", !.lease = NoTime]
  <1>1. job[q] \in Row /\ ConsistentRow(job[q])
    BY DEF JobsTypeOK, RowsConsistent, RowConsistent
  <1>2. r \in Row
    BY <1>1 DEF Row, Status
  <1>3. Matches(q, id) => ConsistentRow(r) /\ r.status # "absent"
    BY <1>1 DEF Row, ConsistentRow, Finished, Matches
  <1>4. job' = IF Matches(q, id) THEN [job EXCEPT ![q] = r] ELSE job
    BY DEF RequeueTraceJob
  <1> HIDE DEF r
  <1> QED
    BY <1>2, <1>3, <1>4, FinalWriteKeepsRows DEF RequeueTraceJob

(* The three statements that may touch every row at once.                   *)
LEMMA RecoverKeepsRows ==
  ASSUME JobsTypeOK, RowsConsistent, RecoverExpiredTraceJobs
  PROVE  JobsTypeOK' /\ RowsConsistent'
  <1> DEFINE r(q) == [job[q] EXCEPT !.status = "queued", !.lease = NoTime]
  <1>1. \A q \in Query : job[q] \in Row /\ RowConsistent(q)
    BY DEF JobsTypeOK, RowsConsistent
  <1>2. ASSUME NEW q \in Query PROVE r(q) \in Row
    BY <1>1 DEF Row, Status
  <1>3. ASSUME NEW q \in Query, LeaseExpired(q) PROVE ConsistentRow(r(q))
    BY <1>1, <1>3 DEF Row, RowConsistent, ConsistentRow, Finished, LeaseExpired
  <1>4. job' = [q \in Query |-> IF LeaseExpired(q) THEN r(q) ELSE job[q]]
        /\ UNCHANGED <<accepted, admitted>>
    BY DEF RecoverExpiredTraceJobs
  <1>5. \A q \in Query : r(q).status = "queued"
    BY <1>1 DEF Row
  <1> HIDE DEF r
  <1>6. JobsTypeOK'
    BY <1>1, <1>2, <1>4 DEF JobsTypeOK
  <1>7. ASSUME NEW q \in Query PROVE RowConsistent(q)'
    BY <1>1, <1>3, <1>4, <1>5 DEF RowConsistent, LeaseExpired, ConsistentRow
  <1> QED
    BY <1>6, <1>7 DEF RowsConsistent

LEMMA PruneKeepsRows ==
  ASSUME JobsTypeOK, RowsConsistent, PruneFinishedTraceJobs
  PROVE  JobsTypeOK' /\ RowsConsistent'
  <1>1. \A q \in Query : job[q] \in Row /\ RowConsistent(q)
    BY DEF JobsTypeOK, RowsConsistent
  <1>2. AbsentRow \in Row /\ ConsistentRow(AbsentRow) /\ AbsentRow.status = "absent"
    BY CapsAreNat DEF AbsentRow, Row, Status, ConsistentRow, Finished
  <1>3. JobsTypeOK'
    BY <1>1, <1>2 DEF JobsTypeOK, PruneFinishedTraceJobs
  <1>4. ASSUME NEW q \in Query PROVE RowConsistent(q)'
    BY <1>1, <1>2 DEF PruneFinishedTraceJobs, RowConsistent, Expired, Finished,
                      ConsistentRow, JobsTypeOK
  <1> QED
    BY <1>3, <1>4 DEF RowsConsistent

LEMMA TickKeepsRows ==
  ASSUME JobsTypeOK, RowsConsistent, JobsTick
  PROVE  JobsTypeOK' /\ RowsConsistent'
  <1> DEFINE r(q) == [job[q] EXCEPT !.lease = Later(@, LeaseCap),
                                    !.completed = Later(@, AgeCap)]
  <1>1. \A q \in Query : job[q] \in Row /\ RowConsistent(q)
    BY DEF JobsTypeOK, RowsConsistent
  <1>2. ASSUME NEW q \in Query PROVE r(q) \in Row
    <2>1. /\ job[q].lease \in {NoTime} \cup (0 .. LeaseCap)
          /\ job[q].completed \in {NoTime} \cup (0 .. AgeCap)
      BY <1>1, Zenon DEF Row
    <2> DEFINE l == Later(job[q].lease, LeaseCap)
               c == Later(job[q].completed, AgeCap)
    <2>2. /\ l \in {NoTime} \cup (0 .. LeaseCap)
          /\ c \in {NoTime} \cup (0 .. AgeCap)
      BY <2>1, CapsAreNat, LaterInRange
    <2>3. r(q) = [job[q] EXCEPT !.lease = l, !.completed = c]
      OBVIOUS
    <2> HIDE DEF l, c, r
    <2> QED
      BY <1>1, <2>2, <2>3 DEF Row
  <1>3. ASSUME NEW q \in Query
        PROVE  ConsistentRow(r(q)) /\ r(q).status = job[q].status
    <2>1. /\ job[q].lease \in {NoTime} \cup (0 .. LeaseCap)
          /\ job[q].completed \in {NoTime} \cup (0 .. AgeCap)
      BY <1>1 DEF Row
    <2>2. /\ Later(job[q].lease, LeaseCap) = NoTime <=> job[q].lease = NoTime
          /\ Later(job[q].completed, AgeCap) = NoTime <=> job[q].completed = NoTime
      BY <2>1, CapsAreNat, LaterInRange
    <2> QED
      BY <1>1, <2>2 DEF Row, RowConsistent, ConsistentRow
  <1>4. job' = [q \in Query |-> r(q)] /\ UNCHANGED <<accepted, admitted>>
    BY DEF JobsTick
  <1> HIDE DEF r
  <1>5. JobsTypeOK'
    BY <1>2, <1>4 DEF JobsTypeOK
  <1>6. ASSUME NEW q \in Query PROVE RowConsistent(q)'
    BY <1>1, <1>3, <1>4 DEF RowConsistent
  <1> QED
    BY <1>5, <1>6 DEF RowsConsistent

-----------------------------------------------------------------------------
(* The invariant, by the group of variables a step can disturb.             *)

RowsInv == JobsTypeOK /\ RowsConsistent

SessionInv ==
    /\ session \in [Session -> Sessions]
    /\ requests \in Nat
    /\ SessionsKnow

WorkerInv ==
    /\ worker \in [Worker -> Workers]
    /\ task \in [Worker -> Tasks]
    /\ WorkersKnow

LEMMA InvSplit ==
  IInv <=> RowsInv /\ SessionInv /\ WorkerInv /\ faults \in Nat
  BY DEF IInv, TypeOK, RowsInv, SessionInv, WorkerInv

LEMMA InvJoin ==
  ASSUME RowsInv', SessionInv', WorkerInv', faults' \in Nat
  PROVE  IInv'
  BY DEF IInv, TypeOK, RowsInv, SessionInv, WorkerInv

LEMMA RowsUnchanged ==
  ASSUME RowsInv, UNCHANGED jobVars
  PROVE  RowsInv'
  BY DEF RowsInv, jobVars, JobsTypeOK, RowsConsistent, RowConsistent, ConsistentRow

LEMMA SessionUnchanged ==
  ASSUME SessionInv, UNCHANGED <<session, requests>>
  PROVE  SessionInv'
  BY DEF SessionInv, SessionsKnow

LEMMA WorkerUnchanged ==
  ASSUME WorkerInv, UNCHANGED <<worker, task>>
  PROVE  WorkerInv'
  BY DEF WorkerInv, WorkersKnow, Holds

LEMMA FaultCounts ==
  ASSUME faults \in Nat, NEW kind, Fault(kind) PROVE faults' \in Nat
  BY DEF Fault

LEMMA CapFacts ==
  /\ HoldCap \in Nat /\ 0 \in 0 .. HoldCap
  /\ 0 \in 0 .. MaxTxAge /\ MaxTxAge \in Nat
  /\ PruneInterval \in 0 .. PruneInterval /\ 0 \in 0 .. PruneInterval
  /\ 0 \in 0 .. MaxAttempts /\ 1 \in 0 .. MaxAttempts
  BY QueueAssumption, JobsAssumption DEF HoldCap

LEMMA NoSessionType == NoSession \in Sessions /\ NoSession.pc = "idle"
  BY CapFacts DEF NoSession, Sessions

LEMMA NoTaskType == NoTask \in Tasks
  BY CapFacts DEF NoTask, Tasks

LEMMA FreshWorkerType ==
  FreshWorker \in Workers /\ FreshWorker.pc = "loop"
  BY CapFacts DEF FreshWorker, Workers

(* An action that replaces one session, by one that is idle or knows.       *)
LEMMA OneSession ==
  ASSUME SessionInv, NEW s \in Session, NEW new \in Sessions,
         session' = [session EXCEPT ![s] = new],
         requests' \in Nat,
         new.pc # "idle" => /\ new.query \in Query
                            /\ new.client \in Client
                            /\ new.number # 0
  PROVE  SessionInv'
  BY DEF SessionInv, SessionsKnow

(* An action that moves one worker and replaces its task.                   *)
LEMMA OneWorker ==
  ASSUME WorkerInv, NEW w \in Worker, NEW new \in Workers, NEW t \in Tasks,
         worker' = [worker EXCEPT ![w] = new],
         task' = [task EXCEPT ![w] = t],
         new.pc \in Holding => /\ t.query \in Query
                               /\ t.accepted # 0
                               /\ new.pc = "backoff" => t.attempt < MaxAttempts
  PROVE  WorkerInv'
  BY DEF WorkerInv, WorkersKnow, Holds

(* An action that moves one worker that holds nothing afterwards.           *)
LEMMA IdleMove ==
  ASSUME WorkerInv, NEW w \in Worker, NEW pc, Goto(w, pc), UNCHANGED task,
         pc \in {"loop", "recover", "claim", "wait", "exited", "down"}
  PROVE  WorkerInv'
  <1> DEFINE new == [worker[w] EXCEPT !.pc = pc]
  <1>1. worker[w] \in Workers /\ task[w] \in Tasks
    BY DEF WorkerInv
  <1>2. new \in Workers /\ new.pc \notin Holding
    BY <1>1 DEF Workers, Holding
  <1>3. worker' = [worker EXCEPT ![w] = new]
    BY DEF Goto, WorkerInv
  <1>4. task' = [task EXCEPT ![w] = task[w]]
    BY DEF WorkerInv
  <1> HIDE DEF new
  <1> QED
    BY <1>1, <1>2, <1>3, <1>4, OneWorker

-----------------------------------------------------------------------------
(* One lemma per action: it keeps the invariant.                            *)

LEMMA BeginEnqueueKeeps ==
  ASSUME IInv, NEW s \in Session, BeginEnqueue(s) PROVE IInv'
  <1>1. PICK c \in Client, q \in Query, retry \in BOOLEAN :
          session' = [session EXCEPT ![s] =
                        [NoSession EXCEPT !.pc = "begun", !.client = c,
                                          !.query = q, !.retry = retry,
                                          !.number = requests + 1]]
    BY DEF BeginEnqueue
  <1> DEFINE new == [NoSession EXCEPT !.pc = "begun", !.client = c,
                                      !.query = q, !.retry = retry,
                                      !.number = requests + 1]
  <1>2. requests \in Nat /\ requests' = requests + 1
    BY InvSplit DEF SessionInv, BeginEnqueue
  <1>3. new \in Sessions /\ new.query = q /\ new.client = c
        /\ new.number # 0
    <2>1. NoSession \in Sessions /\ requests + 1 \in Nat /\ requests + 1 # 0
      BY <1>2, NoSessionType
    <2>2. new \in Sessions
      BY <2>1 DEF Sessions
    <2>3. new.query = q /\ new.client = c /\ new.number = requests + 1
      BY <2>1 DEF Sessions
    <2> QED
      BY <2>1, <2>2, <2>3
  <1>4. session' = [session EXCEPT ![s] = new]
    BY <1>1
  <1> HIDE DEF new
  <1>5. SessionInv'
    <2>1. requests' \in Nat
      BY <1>2
    <2> QED
      BY <1>3, <1>4, <2>1, InvSplit, OneSession
  <1> QED
    BY <1>5, InvSplit, InvJoin, RowsUnchanged, WorkerUnchanged DEF BeginEnqueue

LEMMA LockAndLookKeeps ==
  ASSUME IInv, NEW s \in Session, LockAndLook(s) PROVE IInv'
  <1> DEFINE absent == job[session[s].query].status = "absent"
             new == [session[s] EXCEPT !.pc = IF absent THEN "count" ELSE "upsert",
                                       !.checked = absent]
  <1>1. session[s] \in Sessions /\ session[s].pc # "idle"
    BY InvSplit DEF SessionInv, LockAndLook
  <1>2. absent \in BOOLEAN
    OBVIOUS
  <1>3. session' = [session EXCEPT ![s] = new]
    BY DEF LockAndLook
  <1> HIDE DEF absent
  <1>4. new \in Sessions /\ new.query = session[s].query
        /\ new.client = session[s].client /\ new.number = session[s].number
    BY <1>1, <1>2 DEF Sessions
  <1> HIDE DEF new
  <1>5. SessionInv'
    BY <1>1, <1>3, <1>4, InvSplit, OneSession DEF SessionInv, SessionsKnow, LockAndLook
  <1> QED
    BY <1>5, InvSplit, InvJoin, RowsUnchanged, WorkerUnchanged DEF LockAndLook

LEMMA CountQueuedKeeps ==
  ASSUME IInv, NEW s \in Session, CountQueued(s) PROVE IInv'
  <1> DEFINE full == Cardinality(InStatus("queued")) >= MaxQueued
             next == [session[s] EXCEPT !.pc = "countClient"]
             new == IF full THEN NoSession ELSE next
  <1>1. session[s] \in Sessions /\ session[s].pc # "idle"
    BY InvSplit DEF SessionInv, CountQueued
  <1>2. next \in Sessions /\ next.query = session[s].query
        /\ next.client = session[s].client /\ next.number = session[s].number
    BY <1>1 DEF Sessions
  <1>3. session' = [session EXCEPT ![s] = new]
    BY InvSplit DEF CountQueued, SessionInv
  <1> HIDE DEF next, full
  <1>4. SessionInv'
    BY <1>1, <1>2, <1>3, InvSplit, OneSession, NoSessionType
       DEF SessionInv, SessionsKnow, CountQueued
  <1> QED
    BY <1>4, InvSplit, InvJoin, RowsUnchanged, WorkerUnchanged DEF CountQueued

LEMMA CountClientQueuedKeeps ==
  ASSUME IInv, NEW s \in Session, CountClientQueued(s) PROVE IInv'
  <1> DEFINE full == Cardinality(QueuedOf(session[s].client)) >= MaxQueuedPerClient
             next == [session[s] EXCEPT !.pc = "upsert"]
             new == IF full THEN NoSession ELSE next
  <1>1. session[s] \in Sessions /\ session[s].pc # "idle"
    BY InvSplit DEF SessionInv, CountClientQueued
  <1>2. next \in Sessions /\ next.query = session[s].query
        /\ next.client = session[s].client /\ next.number = session[s].number
    BY <1>1 DEF Sessions
  <1>3. session' = [session EXCEPT ![s] = new]
    BY InvSplit DEF CountClientQueued, SessionInv
  <1> HIDE DEF next, full
  <1>4. SessionInv'
    BY <1>1, <1>2, <1>3, InvSplit, OneSession, NoSessionType
       DEF SessionInv, SessionsKnow, CountClientQueued
  <1> QED
    BY <1>4, InvSplit, InvJoin, RowsUnchanged, WorkerUnchanged DEF CountClientQueued

(* The upsert is one of its three statements, for values the session holds. *)
LEMMA UpsertIsAStatement ==
  ASSUME IInv, NEW s \in Session, UpsertAndCommit(s)
  PROVE  \E q \in Query, c \in Client, n \in Nat \ {0}, retry \in BOOLEAN,
            checked \in BOOLEAN, age \in Nat :
           \/ InsertJob(q, c, n, checked)
           \/ ReopenJob(q, n, retry, age)
           \/ KeepJob(q, retry, age)
  <1> DEFINE me == session[s]
  <1>1. /\ me.query \in Query /\ me.client \in Client
        /\ me.number \in Nat \ {0} /\ me.retry \in BOOLEAN
        /\ me.checked \in BOOLEAN /\ me.age \in Nat
    BY InvSplit, CapFacts DEF SessionInv, SessionsKnow, Sessions, UpsertAndCommit
  <1>2. CASE InsertJob(me.query, me.client, me.number, me.checked)
    BY <1>1, <1>2 DEF InsertJob
  <1>3. CASE ReopenJob(me.query, me.number, me.retry, me.age)
    BY <1>1, <1>3 DEF ReopenJob, Reopens, Stale
  <1>4. CASE KeepJob(me.query, me.retry, me.age)
    BY <1>1, <1>4 DEF KeepJob, Reopens, Stale
  <1> QED
    BY <1>2, <1>3, <1>4 DEF UpsertAndCommit

LEMMA UpsertAndCommitKeeps ==
  ASSUME IInv, NEW s \in Session, UpsertAndCommit(s) PROVE IInv'
  <1>2. PICK q \in Query, c \in Client, n \in Nat \ {0}, retry \in BOOLEAN,
             checked \in BOOLEAN, age \in Nat :
          \/ InsertJob(q, c, n, checked)
          \/ ReopenJob(q, n, retry, age)
          \/ KeepJob(q, retry, age)
    BY UpsertIsAStatement
  <1>6. RowsInv'
    <2>1. CASE InsertJob(q, c, n, checked)
      BY <2>1, InvSplit, InsertKeepsRows DEF RowsInv
    <2>2. CASE ReopenJob(q, n, retry, age)
      BY <2>2, InvSplit, ReopenKeepsRows DEF RowsInv
    <2>3. CASE KeepJob(q, retry, age)
      BY <2>3, InvSplit, RowsUnchanged DEF KeepJob
    <2> QED
      BY <1>2, <2>1, <2>2, <2>3
  <1>7. SessionInv'
    BY InvSplit, OneSession, NoSessionType DEF UpsertAndCommit, SessionInv
  <1> QED
    BY <1>6, <1>7, InvSplit, InvJoin, WorkerUnchanged DEF UpsertAndCommit

LEMMA AbortEnqueueKeeps ==
  ASSUME IInv, NEW s \in Session, AbortEnqueue(s) PROVE IInv'
  <1>1. SessionInv'
    BY InvSplit, OneSession, NoSessionType DEF AbortEnqueue, SessionInv
  <1> QED
    BY <1>1, InvSplit, InvJoin, RowsUnchanged, WorkerUnchanged DEF AbortEnqueue

(* Whatever a statement of the loop does, the fault counter stays a number. *)
LEMMA StatementCounts ==
  ASSUME faults \in Nat, NEW w \in Worker, StatementRuns(w) \/ StatementFails(w)
  PROVE  faults' \in Nat
  BY FaultCounts DEF StatementRuns, StatementFails

LEMMA PruneFinishedKeeps ==
  ASSUME IInv, NEW w \in Worker, PruneFinished(w) PROVE IInv'
  <1> DEFINE new == [worker[w] EXCEPT !.pc = "recover", !.pruned = 0]
  <1>1. worker[w] \in Workers /\ task[w] \in Tasks
    BY InvSplit DEF WorkerInv
  <1>2. new \in Workers /\ new.pc \notin Holding
    BY <1>1, CapFacts DEF Workers, Holding
  <1>3. /\ worker' = [worker EXCEPT ![w] = new]
        /\ task' = [task EXCEPT ![w] = task[w]]
    BY InvSplit DEF PruneFinished, WorkerInv
  <1> HIDE DEF new
  <1>4. WorkerInv'
    BY <1>1, <1>2, <1>3, InvSplit, OneWorker
  <1>5. RowsInv'
    BY InvSplit, PruneKeepsRows, RowsUnchanged DEF PruneFinished, RowsInv
  <1>6. faults' \in Nat
    BY InvSplit, StatementCounts DEF PruneFinished
  <1> QED
    BY <1>4, <1>5, <1>6, InvSplit, InvJoin, SessionUnchanged DEF PruneFinished

LEMMA SkipPruneKeeps ==
  ASSUME IInv, NEW w \in Worker, SkipPrune(w) PROVE IInv'
  BY InvSplit, InvJoin, IdleMove, RowsUnchanged, SessionUnchanged DEF SkipPrune

LEMMA RecoverExpiredKeeps ==
  ASSUME IInv, NEW w \in Worker, RecoverExpired(w) PROVE IInv'
  <1>1. WorkerInv'
    BY InvSplit, IdleMove DEF RecoverExpired
  <1>2. RowsInv'
    BY InvSplit, RecoverKeepsRows, RowsUnchanged DEF RecoverExpired, RowsInv
  <1>3. faults' \in Nat
    BY InvSplit, StatementCounts DEF RecoverExpired
  <1> QED
    BY <1>1, <1>2, <1>3, InvSplit, InvJoin, SessionUnchanged DEF RecoverExpired

LEMMA ClaimJobKeeps ==
  ASSUME IInv, NEW w \in Worker, ClaimJob(w) PROVE IInv'
  <1>1. PICK q \in Query :
          /\ ClaimTraceJob(q)
          /\ task' = [task EXCEPT ![w] =
                        [NoTask EXCEPT !.query = q, !.id = job[q].id,
                                       !.accepted = accepted[q],
                                       !.attempt = 1]]
    BY DEF ClaimJob
  <1> DEFINE new == [worker[w] EXCEPT !.pc = "resolve"]
             t == [NoTask EXCEPT !.query = q, !.id = job[q].id,
                                 !.accepted = accepted[q], !.attempt = 1]
  <1>2. /\ job[q].id \in Nat /\ accepted[q] \in Nat /\ accepted[q] # 0
    BY <1>1, InvSplit DEF RowsInv, JobsTypeOK, Row, RowsConsistent, RowConsistent,
                          ClaimTraceJob, Claimable
  <1>3. t \in Tasks /\ t.query = q /\ t.accepted = accepted[q]
    BY <1>2, CapFacts DEF NoTask, Tasks
  <1>4. worker[w] \in Workers
    BY InvSplit DEF WorkerInv
  <1>5. new \in Workers /\ new.pc = "resolve"
    BY <1>4 DEF Workers
  <1>6. worker' = [worker EXCEPT ![w] = new]
    BY InvSplit DEF ClaimJob, Goto, WorkerInv
  <1>7. task' = [task EXCEPT ![w] = t]
    BY <1>1
  <1> HIDE DEF new, t
  <1>8. WorkerInv'
    BY <1>2, <1>3, <1>5, <1>6, <1>7, InvSplit, OneWorker
  <1>9. RowsInv'
    BY <1>1, InvSplit, ClaimKeepsRows DEF RowsInv
  <1> QED
    BY <1>8, <1>9, InvSplit, InvJoin, SessionUnchanged DEF ClaimJob, StatementRuns

LEMMA ClaimNothingKeeps ==
  ASSUME IInv, NEW w \in Worker, ClaimNothing(w) PROVE IInv'
  BY InvSplit, InvJoin, IdleMove, RowsUnchanged, SessionUnchanged DEF ClaimNothing, StatementRuns

LEMMA ClaimFailsKeeps ==
  ASSUME IInv, NEW w \in Worker, ClaimFails(w) PROVE IInv'
  <1>1. WorkerInv'
    BY InvSplit, IdleMove DEF ClaimFails
  <1>2. RowsInv'
    BY InvSplit, ClaimKeepsRows, RowsUnchanged DEF ClaimFails, RowsInv
  <1>3. faults' \in Nat
    BY InvSplit, StatementCounts DEF ClaimFails
  <1> QED
    BY <1>1, <1>2, <1>3, InvSplit, InvJoin, SessionUnchanged DEF ClaimFails

LEMMA ResolveGraphKeeps ==
  ASSUME IInv, NEW w \in Worker, ResolveGraph(w) PROVE IInv'
  <1>1. /\ worker[w] \in Workers /\ task[w] \in Tasks
        /\ task[w].query \in Query /\ task[w].accepted # 0
    BY InvSplit DEF WorkerInv, WorkersKnow, Holds, Holding, ResolveGraph, At
  <1>2. WorkerInv'
    <2>1. ASSUME NEW outcome \in {"graph", "error"},
                 task' = [task EXCEPT ![w].outcome = outcome], Goto(w, "record")
          PROVE  WorkerInv'
      <3> DEFINE new == [worker[w] EXCEPT !.pc = "record"]
                 t == [task[w] EXCEPT !.outcome = outcome]
      <3>1. new \in Workers /\ new.pc = "record"
        BY <1>1 DEF Workers
      <3>2. t \in Tasks /\ t.query = task[w].query /\ t.accepted = task[w].accepted
        BY <1>1 DEF Tasks
      <3>3. /\ worker' = [worker EXCEPT ![w] = new]
            /\ task' = [task EXCEPT ![w] = t]
        BY <2>1, InvSplit DEF Goto, WorkerInv
      <3> HIDE DEF new, t
      <3> QED
        BY <1>1, <3>1, <3>2, <3>3, InvSplit, OneWorker
    <2>2. ASSUME task[w].attempt < MaxAttempts, Goto(w, "backoff"), UNCHANGED task
          PROVE  WorkerInv'
      <3> DEFINE new == [worker[w] EXCEPT !.pc = "backoff"]
      <3>1. new \in Workers /\ new.pc = "backoff"
        BY <1>1 DEF Workers
      <3>2. /\ worker' = [worker EXCEPT ![w] = new]
            /\ task' = [task EXCEPT ![w] = task[w]]
        BY <2>2, InvSplit DEF Goto, WorkerInv
      <3> HIDE DEF new
      <3> QED
        BY <1>1, <2>2, <3>1, <3>2, InvSplit, OneWorker
    <2> QED
      BY <2>1, <2>2 DEF ResolveGraph, AttemptLeft
  <1> QED
    BY <1>2, InvSplit, InvJoin, RowsUnchanged, SessionUnchanged DEF ResolveGraph

LEMMA BackoffKeeps ==
  ASSUME IInv, NEW w \in Worker, Backoff(w) PROVE IInv'
  <1>1. /\ worker[w] \in Workers /\ task[w] \in Tasks
        /\ task[w].query \in Query /\ task[w].accepted # 0
        /\ task[w].attempt < MaxAttempts
    BY InvSplit DEF WorkerInv, WorkersKnow, Holds, Holding, Backoff, At
  <1>2. WorkerInv'
    <2>1. ASSUME task' = [task EXCEPT ![w].attempt = @ + 1], Goto(w, "resolve")
          PROVE  WorkerInv'
      <3> DEFINE new == [worker[w] EXCEPT !.pc = "resolve"]
                 a == task[w].attempt + 1
                 t == [task[w] EXCEPT !.attempt = a]
      <3>1. new \in Workers /\ new.pc = "resolve"
        BY <1>1 DEF Workers
      <3>2. a \in 0 .. MaxAttempts
        BY <1>1, QueueAssumption DEF Tasks
      <3>3. /\ worker' = [worker EXCEPT ![w] = new]
            /\ task' = [task EXCEPT ![w] = t]
        BY <2>1, InvSplit DEF Goto, WorkerInv
      <3> HIDE DEF a
      <3>4. t \in Tasks /\ t.query = task[w].query /\ t.accepted = task[w].accepted
        BY <1>1, <3>2 DEF Tasks
      <3> HIDE DEF new, t
      <3> QED
        BY <1>1, <3>1, <3>3, <3>4, InvSplit, OneWorker
    <2>2. ASSUME task' = [task EXCEPT ![w].outcome = "error"], Goto(w, "record")
          PROVE  WorkerInv'
      <3> DEFINE new == [worker[w] EXCEPT !.pc = "record"]
                 t == [task[w] EXCEPT !.outcome = "error"]
      <3>1. new \in Workers /\ new.pc = "record"
        BY <1>1 DEF Workers
      <3>2. t \in Tasks /\ t.query = task[w].query /\ t.accepted = task[w].accepted
        BY <1>1 DEF Tasks
      <3>3. /\ worker' = [worker EXCEPT ![w] = new]
            /\ task' = [task EXCEPT ![w] = t]
        BY <2>2, InvSplit DEF Goto, WorkerInv
      <3> HIDE DEF new, t
      <3> QED
        BY <1>1, <3>1, <3>2, <3>3, InvSplit, OneWorker
    <2> QED
      BY <2>1, <2>2 DEF Backoff
  <1> QED
    BY <1>2, InvSplit, InvJoin, RowsUnchanged, SessionUnchanged DEF Backoff

(* So is the final write: the row and id it names are those of the task.    *)
LEMMA RecordIsAStatement ==
  ASSUME IInv, NEW w \in Worker, RecordOutcome(w)
  PROVE  /\ worker[w] \in Workers
         /\ \E q \in Query, id \in Nat, result \in Nat \ {0} :
              /\ q = task[w].query /\ id = task[w].id
              /\ result = task[w].accepted
              /\ \/ RequeueTraceJob(q, id)
                 \/ FailTraceJob(q, id)
                 \/ CompleteTraceJob(q, id, result)
                 \/ UNCHANGED jobVars
  <1>1. /\ worker[w] \in Workers
        /\ task[w].query \in Query /\ task[w].id \in Nat
        /\ task[w].accepted \in Nat \ {0}
    BY InvSplit DEF WorkerInv, WorkersKnow, Holds, Holding, RecordOutcome, At, Tasks
  <1>2. CASE RequeueTraceJob(task[w].query, task[w].id)
    BY <1>1, <1>2 DEF RequeueTraceJob, Matches
  <1>3. CASE FailTraceJob(task[w].query, task[w].id)
    BY <1>1, <1>3 DEF FailTraceJob, Matches
  <1>4. CASE CompleteTraceJob(task[w].query, task[w].id, task[w].accepted)
    BY <1>1, <1>4 DEF CompleteTraceJob, Matches
  <1>5. CASE UNCHANGED jobVars
    BY <1>1, <1>5
  <1> QED
    BY <1>1, <1>2, <1>3, <1>4, <1>5 DEF RecordOutcome

LEMMA RecordOutcomeKeeps ==
  ASSUME IInv, NEW w \in Worker, RecordOutcome(w) PROVE IInv'
  <1>1. worker[w] \in Workers
    BY RecordIsAStatement
  <1>2. PICK q \in Query, id \in Nat, result \in Nat \ {0} :
          \/ RequeueTraceJob(q, id)
          \/ FailTraceJob(q, id)
          \/ CompleteTraceJob(q, id, result)
          \/ UNCHANGED jobVars
    BY RecordIsAStatement
  <1>3. RowsInv'
    BY <1>2, InvSplit, RequeueKeepsRows, FailKeepsRows, CompleteKeepsRows,
       RowsUnchanged DEF RowsInv
  <1>4. WorkerInv'
    <2> DEFINE new == [worker[w] EXCEPT !.pc = "loop"]
    <2>1. new \in Workers /\ new.pc \notin Holding
      BY <1>1 DEF Workers, Holding
    <2>2. /\ worker' = [worker EXCEPT ![w] = new]
          /\ task' = [task EXCEPT ![w] = NoTask]
      BY InvSplit DEF RecordOutcome, Goto, WorkerInv
    <2> HIDE DEF new
    <2> QED
      BY <2>1, <2>2, NoTaskType, InvSplit, OneWorker
  <1>5. faults' \in Nat
    BY InvSplit, StatementCounts, FaultCounts DEF RecordOutcome
  <1> QED
    BY <1>3, <1>4, <1>5, InvSplit, InvJoin, SessionUnchanged DEF RecordOutcome

LEMMA PollWaitKeeps ==
  ASSUME IInv, NEW w \in Worker, PollWait(w) PROVE IInv'
  BY InvSplit, InvJoin, IdleMove, RowsUnchanged, SessionUnchanged DEF PollWait

LEMMA ShutdownKeeps ==
  ASSUME IInv, NEW w \in Worker, Shutdown(w) PROVE IInv'
  <1> DEFINE new == [worker[w] EXCEPT !.ctx = "cancelled"]
             c == IF worker[w].pc \in {"resolve", "backoff"} /\ task[w].ctx = "live"
                  THEN "cancelled" ELSE task[w].ctx
             t == [task[w] EXCEPT !.ctx = c]
  <1>1. worker[w] \in Workers /\ task[w] \in Tasks
    BY InvSplit DEF WorkerInv
  <1>2. new \in Workers /\ new.pc = worker[w].pc
    BY <1>1 DEF Workers
  <1>3. c \in {"live", "deadline", "cancelled"}
    BY <1>1 DEF Tasks
  <1>4. /\ worker' = [worker EXCEPT ![w] = new]
        /\ task' = [task EXCEPT ![w] = t]
    BY InvSplit DEF Shutdown, WorkerInv
  <1> HIDE DEF c
  <1>5. /\ t \in Tasks /\ t.query = task[w].query
        /\ t.accepted = task[w].accepted /\ t.attempt = task[w].attempt
    BY <1>1, <1>3 DEF Tasks
  <1> HIDE DEF new, t
  <1>6. WorkerInv'
    BY <1>2, <1>4, <1>5, InvSplit, OneWorker DEF WorkerInv, WorkersKnow, Holds
  <1>7. faults' \in Nat
    BY InvSplit, FaultCounts DEF Shutdown
  <1> QED
    BY <1>6, <1>7, InvSplit, InvJoin, RowsUnchanged, SessionUnchanged DEF Shutdown

LEMMA CrashKeeps ==
  ASSUME IInv, NEW w \in Worker, Crash(w) PROVE IInv'
  <1> DEFINE new == [FreshWorker EXCEPT !.pc = "down"]
  <1>1. new \in Workers /\ new.pc \notin Holding
    BY FreshWorkerType DEF Workers, Holding
  <1>2. /\ worker' = [worker EXCEPT ![w] = new]
        /\ task' = [task EXCEPT ![w] = NoTask]
    BY DEF Crash
  <1> HIDE DEF new
  <1>3. WorkerInv'
    BY <1>1, <1>2, NoTaskType, InvSplit, OneWorker
  <1>4. faults' \in Nat
    BY InvSplit, FaultCounts DEF Crash
  <1> QED
    BY <1>3, <1>4, InvSplit, InvJoin, RowsUnchanged, SessionUnchanged DEF Crash

LEMMA RestartKeeps ==
  ASSUME IInv, NEW w \in Worker, Restart(w) PROVE IInv'
  <1>1. task[w] \in Tasks /\ task' = [task EXCEPT ![w] = task[w]]
    BY InvSplit DEF Restart, WorkerInv
  <1>2. WorkerInv'
    BY <1>1, FreshWorkerType, InvSplit, OneWorker DEF Restart, Holding
  <1> QED
    BY <1>2, InvSplit, InvJoin, RowsUnchanged, SessionUnchanged DEF Restart

(* A stall begins or ends: no worker moves.                                 *)
LEMMA StallSwitch ==
  ASSUME IInv, NEW w \in Worker, NEW b \in BOOLEAN,
         worker' = [worker EXCEPT ![w].stalled = b], UNCHANGED task
  PROVE  WorkerInv'
  <1> DEFINE new == [worker[w] EXCEPT !.stalled = b]
  <1>1. worker[w] \in Workers /\ task[w] \in Tasks
    BY InvSplit DEF WorkerInv
  <1>2. new \in Workers /\ new.pc = worker[w].pc
    BY <1>1 DEF Workers
  <1>3. /\ worker' = [worker EXCEPT ![w] = new]
        /\ task' = [task EXCEPT ![w] = task[w]]
    BY InvSplit DEF WorkerInv
  <1> HIDE DEF new
  <1> QED
    BY <1>1, <1>2, <1>3, InvSplit, OneWorker DEF WorkerInv, WorkersKnow, Holds

LEMMA StallKeeps ==
  ASSUME IInv, NEW w \in Worker, Stall(w) PROVE IInv'
  <1>1. faults' \in Nat
    BY InvSplit, FaultCounts DEF Stall
  <1> QED
    BY <1>1, InvSplit, InvJoin, StallSwitch, RowsUnchanged, SessionUnchanged DEF Stall

LEMMA ResumeKeeps ==
  ASSUME IInv, NEW w \in Worker, Resume(w) PROVE IInv'
  BY InvSplit, InvJoin, StallSwitch, RowsUnchanged, SessionUnchanged DEF Resume

LEMMA TickKeeps ==
  ASSUME IInv, Tick PROVE IInv'
  <1>1. RowsInv'
    BY InvSplit, TickKeepsRows DEF Tick, RowsInv
  <1>2. SessionInv'
    <2>1. session \in [Session -> Sessions] /\ requests' \in Nat
      BY InvSplit DEF SessionInv, Tick
    <2>2. ASSUME NEW s \in Session
          PROVE  /\ session'[s] \in Sessions
                 /\ session'[s].pc = session[s].pc
                 /\ session'[s].query = session[s].query
                 /\ session'[s].client = session[s].client
                 /\ session'[s].number = session[s].number
      <3>1. CASE session[s].pc = "idle"
        BY <2>1, <3>1 DEF Tick
      <3>2. CASE session[s].pc # "idle"
        <4> DEFINE a == session[s].age + 1
        <4>1. session'[s] = [session[s] EXCEPT !.age = a]
          BY <3>2 DEF Tick
        <4>2. a \in 0 .. MaxTxAge
          BY <2>1, <3>2, CapFacts DEF Tick, Sessions
        <4> HIDE DEF a
        <4> QED
          BY <2>1, <4>1, <4>2 DEF Sessions
      <3> QED
        BY <3>1, <3>2
    <2>3. session' = [s \in Session |-> session'[s]]
      BY DEF Tick
    <2>4. session' \in [Session -> Sessions]
      BY <2>2, <2>3
    <2> QED
      BY <2>1, <2>2, <2>4, InvSplit DEF SessionInv, SessionsKnow
  <1>3. WorkerInv'
    <2>1. worker \in [Worker -> Workers] /\ task \in [Worker -> Tasks] /\ WorkersKnow
      BY InvSplit DEF WorkerInv
    <2>2. ASSUME NEW w \in Worker
          PROVE  worker'[w] \in Workers /\ worker'[w].pc = worker[w].pc
      <3> DEFINE p == IF worker[w].pruned < PruneInterval
                      THEN worker[w].pruned + 1 ELSE worker[w].pruned
      <3>1. worker'[w] = [worker[w] EXCEPT !.pruned = p]
        BY DEF Tick
      <3>2. p \in 0 .. PruneInterval
        BY <2>1, CapFacts, QueueAssumption DEF Workers
      <3> HIDE DEF p
      <3> QED
        BY <2>1, <3>1, <3>2 DEF Workers
    <2>3. ASSUME NEW w \in Worker
          PROVE  /\ task'[w] \in Tasks
                 /\ task'[w].query = task[w].query
                 /\ task'[w].accepted = task[w].accepted
                 /\ task'[w].attempt = task[w].attempt
      <3> DEFINE a == Aged(task[w].age)
                 c == IF /\ worker[w].pc \in {"resolve", "backoff"}
                         /\ task[w].ctx = "live"
                         /\ task[w].age + 1 >= JobTimeout
                      THEN "deadline" ELSE task[w].ctx
      <3>1. a \in 0 .. HoldCap
        BY <2>1, CapFacts DEF Tasks, Aged
      <3>2. c \in {"live", "deadline", "cancelled"}
        BY <2>1 DEF Tasks
      <3>3. task'[w] = IF Holds(w) THEN [task[w] EXCEPT !.age = a, !.ctx = c]
                                   ELSE task[w]
        BY DEF Tick, TaskTick
      <3> HIDE DEF a, c
      <3> QED
        BY <2>1, <3>1, <3>2, <3>3 DEF Tasks
    <2>4. worker' = [w \in Worker |-> worker'[w]] /\ task' = [w \in Worker |-> task'[w]]
      BY DEF Tick
    <2>5. worker' \in [Worker -> Workers] /\ task' \in [Worker -> Tasks]
      BY <2>2, <2>3, <2>4
    <2> QED
      BY <2>1, <2>2, <2>3, <2>5 DEF WorkerInv, WorkersKnow, Holds
  <1> QED
    BY <1>1, <1>2, <1>3, InvSplit, InvJoin DEF Tick

-----------------------------------------------------------------------------

LEMMA InitEstablishes == Init => IInv
  <1> SUFFICES ASSUME Init PROVE IInv
    OBVIOUS
  <1>1. AbsentRow \in Row /\ ConsistentRow(AbsentRow) /\ AbsentRow.status = "absent"
    BY CapsAreNat DEF AbsentRow, Row, Status, ConsistentRow, Finished
  <1>2. RowsInv
    BY <1>1 DEF Init, JobsInit, RowsInv, JobsTypeOK, RowsConsistent, RowConsistent
  <1>3. SessionInv
    BY NoSessionType DEF Init, SessionInv, SessionsKnow
  <1>4. WorkerInv
    BY FreshWorkerType, NoTaskType DEF Init, WorkerInv, WorkersKnow, Holds, Holding
  <1> QED
    BY <1>2, <1>3, <1>4, InvSplit DEF Init

LEMMA NextKeeps == IInv /\ [Next]_vars => IInv'
  <1> SUFFICES ASSUME IInv, [Next]_vars PROVE IInv'
    OBVIOUS
  <1>1. ASSUME NEW s \in Session,
               BeginEnqueue(s) \/ SessionStep(s) \/ AbortEnqueue(s)
        PROVE  IInv'
    BY <1>1, BeginEnqueueKeeps, LockAndLookKeeps, CountQueuedKeeps,
       CountClientQueuedKeeps, UpsertAndCommitKeeps, AbortEnqueueKeeps
       DEF SessionStep
  <1>2. ASSUME NEW w \in Worker, WorkerStep(w) PROVE IInv'
    BY <1>2, PruneFinishedKeeps, SkipPruneKeeps, RecoverExpiredKeeps,
       ClaimJobKeeps, ClaimNothingKeeps, ClaimFailsKeeps, ResolveGraphKeeps,
       BackoffKeeps, RecordOutcomeKeeps, PollWaitKeeps
       DEF WorkerStep
  <1>3. ASSUME NEW w \in Worker,
               \/ Shutdown(w) \/ Crash(w) \/ Restart(w) \/ Stall(w) \/ Resume(w)
        PROVE  IInv'
    BY <1>3, ShutdownKeeps, CrashKeeps, RestartKeeps, StallKeeps, ResumeKeeps
  <1>4. CASE Tick
    BY <1>4, TickKeeps
  <1>5. CASE UNCHANGED vars
    BY <1>5, InvSplit, InvJoin, RowsUnchanged, SessionUnchanged, WorkerUnchanged
       DEF vars
  <1> QED
    BY <1>1, <1>2, <1>3, <1>4, <1>5 DEF Next

(* The inductive invariant holds in every reachable state.                  *)
THEOREM InductiveInvariant == Spec => []IInv
  BY InitEstablishes, NextKeeps, PTL DEF Spec

(* Every variable keeps its type: table, sessions, workers and tasks        *)
(* (db/jobs.go, tracing/queue.go).                                          *)
THEOREM TypeCorrect == Spec => []TypeOK
  <1>1. IInv => TypeOK
    BY DEF IInv
  <1> QED
    BY <1>1, InductiveInvariant, PTL

(* The columns of every row agree with its status, whatever crashes, stalls *)
(* and failed statements happened (db/jobs.go:70-169).                      *)
THEOREM RowsAlwaysConsistent == Spec => []RowsConsistent
  <1>1. IInv => RowsConsistent
    BY DEF IInv
  <1> QED
    BY <1>1, InductiveInvariant, PTL

-----------------------------------------------------------------------------
(* What each step may do to the rows that run.                              *)

(* Only ClaimTraceJob makes a row run.                                      *)
NoneStarts ==
    \A q \in Query : job'[q].status = "running" => job[q].status = "running"

LEMMA StatementsStartNone ==
  ASSUME JobsTypeOK,
         \/ \E q \in Query, c \in Client, n \in Nat, checked \in BOOLEAN :
               InsertJob(q, c, n, checked)
         \/ \E q \in Query, n \in Nat, retry \in BOOLEAN, age \in Nat :
               ReopenJob(q, n, retry, age)
         \/ \E q \in Query, id \in Nat, result \in Nat :
               \/ CompleteTraceJob(q, id, result)
               \/ FailTraceJob(q, id)
               \/ RequeueTraceJob(q, id)
         \/ RecoverExpiredTraceJobs
         \/ PruneFinishedTraceJobs
         \/ JobsTick
         \/ UNCHANGED jobVars
  PROVE  NoneStarts
  <1> USE DEF JobsTypeOK, Row, NoneStarts
  <1>1. CASE \E q \in Query, c \in Client, n \in Nat, checked \in BOOLEAN :
               InsertJob(q, c, n, checked)
    BY <1>1 DEF InsertJob, AbsentRow
  <1>2. CASE \E q \in Query, n \in Nat, retry \in BOOLEAN, age \in Nat :
               ReopenJob(q, n, retry, age)
    BY <1>2 DEF ReopenJob
  <1>3. CASE \E q \in Query, id \in Nat, result \in Nat :
               \/ CompleteTraceJob(q, id, result)
               \/ FailTraceJob(q, id)
               \/ RequeueTraceJob(q, id)
    BY <1>3 DEF CompleteTraceJob, FailTraceJob, RequeueTraceJob
  <1>4. CASE RecoverExpiredTraceJobs
    BY <1>4 DEF RecoverExpiredTraceJobs
  <1>5. CASE PruneFinishedTraceJobs
    BY <1>5 DEF PruneFinishedTraceJobs, AbsentRow
  <1>6. CASE JobsTick
    BY <1>6 DEF JobsTick
  <1>7. CASE UNCHANGED jobVars
    BY <1>7 DEF jobVars
  <1> QED
    BY <1>1, <1>2, <1>3, <1>4, <1>5, <1>6, <1>7

LEMMA StepStarts ==
  ASSUME IInv, [Next]_vars
  PROVE  NoneStarts \/ \E q \in Query : ClaimTraceJob(q)
  <1> USE StatementsStartNone
  <1>1. JobsTypeOK
    BY DEF IInv, TypeOK
  <1>2. ASSUME NEW s \in Session, UpsertAndCommit(s) PROVE NoneStarts
    <2>1. PICK q \in Query, c \in Client, n \in Nat \ {0}, retry \in BOOLEAN,
               checked \in BOOLEAN, age \in Nat :
            \/ InsertJob(q, c, n, checked)
            \/ ReopenJob(q, n, retry, age)
            \/ KeepJob(q, retry, age)
      BY <1>2, UpsertIsAStatement
    <2> QED
      BY <1>1, <2>1 DEF KeepJob
  <1>3. ASSUME NEW w \in Worker, RecordOutcome(w) PROVE NoneStarts
    <2>1. PICK q \in Query, id \in Nat, result \in Nat \ {0} :
            \/ RequeueTraceJob(q, id)
            \/ FailTraceJob(q, id)
            \/ CompleteTraceJob(q, id, result)
            \/ UNCHANGED jobVars
      BY <1>3, RecordIsAStatement
    <2> QED
      BY <1>1, <2>1
  <1>4. ASSUME NEW w \in Worker,
               PruneFinished(w) \/ RecoverExpired(w) \/ Tick
        PROVE  NoneStarts
    BY <1>1, <1>4 DEF PruneFinished, RecoverExpired, Tick
  <1>5. ASSUME NEW w \in Worker, ClaimJob(w) \/ ClaimFails(w)
        PROVE  NoneStarts \/ \E q \in Query : ClaimTraceJob(q)
    BY <1>1, <1>5 DEF ClaimJob, ClaimFails
  <1>6. CASE Tick
    BY <1>1, <1>6 DEF Tick
  <1>7. CASE UNCHANGED jobVars
    BY <1>1, <1>7
  <1>8. ASSUME NEW s \in Session,
               \/ BeginEnqueue(s) \/ LockAndLook(s) \/ CountQueued(s)
               \/ CountClientQueued(s) \/ AbortEnqueue(s)
        PROVE  UNCHANGED jobVars
    BY <1>8 DEF BeginEnqueue, LockAndLook, CountQueued, CountClientQueued,
                AbortEnqueue, jobVars
  <1>9. ASSUME NEW w \in Worker,
               \/ SkipPrune(w) \/ ClaimNothing(w) \/ ResolveGraph(w)
               \/ Backoff(w) \/ PollWait(w) \/ Shutdown(w) \/ Crash(w)
               \/ Restart(w) \/ Stall(w) \/ Resume(w)
        PROVE  UNCHANGED jobVars
    BY <1>9 DEF SkipPrune, ClaimNothing, ResolveGraph, Backoff, PollWait,
                Shutdown, Crash, Restart, Stall, Resume, jobVars
  <1>10. UNCHANGED vars => UNCHANGED jobVars
    BY DEF vars
  <1> QED
    BY <1>2, <1>3, <1>4, <1>5, <1>6, <1>7, <1>8, <1>9, <1>10
       DEF Next, SessionStep, WorkerStep

(* At most one job of the network runs, with any number of workers that     *)
(* claim, crash and come back late (0001_initial.sql:250, db/jobs.go:131).  *)
THEOREM AtMostOneRuns == Spec => []OneRunning
  <1>1. Init => OneRunning
    BY DEF Init, JobsInit, AbsentRow, OneRunning
  <1>2. ASSUME IInv, OneRunning, [Next]_vars PROVE OneRunning'
    <2>1. CASE NoneStarts
      BY <1>2, <2>1 DEF NoneStarts, OneRunning
    <2>2. ASSUME NEW q \in Query, ClaimTraceJob(q) PROVE OneRunning'
      <3>1. \A p \in Query : job[p].status # "running"
        BY <2>2 DEF ClaimTraceJob, Claimable, InStatus
      <3>2. \A p \in Query \ {q} : job'[p] = job[p]
        BY <1>2, <2>2 DEF ClaimTraceJob, IInv, TypeOK, JobsTypeOK
      <3> QED
        BY <3>1, <3>2 DEF OneRunning
    <2> QED
      BY <1>2, <2>1, <2>2, StepStarts
  <1> QED
    BY <1>1, <1>2, InductiveInvariant, PTL DEF Spec

-----------------------------------------------------------------------------
(* No process stalls.                                                       *)

(* Rows that run under a live lease are left alone.                         *)
LiveRowsKept ==
    \A q \in Query :
        job[q].status = "running" /\ ~LeaseExpired(q)
        => job'[q] = job[q] /\ accepted'[q] = accepted[q]

(* No worker gains a job, none changes the job it keeps, none stalls.       *)
HoldersKept ==
    \A w \in Worker :
        /\ worker'[w].stalled = FALSE
        /\ Holds(w)' => /\ Holds(w)
                        /\ task'[w].query = task[w].query
                        /\ task'[w].id = task[w].id
                        /\ task'[w].accepted = task[w].accepted
                        /\ task'[w].age = task[w].age

(* A held job is a row that runs under a live lease.                        *)
LEMMA HeldRowLives ==
  ASSUME IInv, TimelyInv, NEW w \in Worker, Holds(w)
  PROVE  /\ task[w].query \in Query
         /\ job[task[w].query].status = "running"
         /\ ~LeaseExpired(task[w].query)
  <1>1. task[w].query \in Query /\ task[w].age \in 0 .. HoldCap
    BY InvSplit DEF WorkerInv, WorkersKnow, Tasks
  <1>2. job[task[w].query].status = "running" /\ job[task[w].query].lease = task[w].age
    BY DEF TimelyInv, Matches
  <1>3. job[task[w].query].lease <= Lease
    BY <1>1, <1>2, LeaseAssumption, QueueAssumption, JobsAssumption DEF HoldCap
  <1>4. job[task[w].query].lease \in Int
    BY <1>1, <1>2, CapFacts
  <1> QED
    BY <1>1, <1>2, <1>3, <1>4, JobsAssumption DEF LeaseExpired

LEMMA FrameKeepsTimely ==
  ASSUME IInv, TimelyInv, LiveRowsKept, HoldersKept
  PROVE  TimelyInv'
  <1>1. ASSUME NEW w \in Worker, Holds(w)'
        PROVE  /\ Matches(task[w].query, task[w].id)'
               /\ job'[task'[w].query].lease = task'[w].age
               /\ task'[w].accepted = accepted'[task'[w].query]
               /\ Holds(w)
    <2>1. /\ Holds(w)
          /\ task'[w].query = task[w].query
          /\ task'[w].id = task[w].id
          /\ task'[w].accepted = task[w].accepted
          /\ task'[w].age = task[w].age
      BY <1>1 DEF HoldersKept
    <2>2. /\ job'[task[w].query] = job[task[w].query]
          /\ accepted'[task[w].query] = accepted[task[w].query]
      BY <2>1, HeldRowLives DEF LiveRowsKept
    <2> QED
      BY <2>1, <2>2 DEF TimelyInv, Matches
  <1> QED
    BY <1>1 DEF HoldersKept, TimelyInv

LEMMA StatementsKeepLiveRows ==
  ASSUME JobsTypeOK,
         \/ \E q \in Query, c \in Client, n \in Nat, checked \in BOOLEAN :
               InsertJob(q, c, n, checked)
         \/ \E q \in Query, n \in Nat, retry \in BOOLEAN, age \in Nat :
               ReopenJob(q, n, retry, age)
         \/ \E q \in Query : ClaimTraceJob(q)
         \/ RecoverExpiredTraceJobs
         \/ PruneFinishedTraceJobs
         \/ UNCHANGED jobVars
  PROVE  LiveRowsKept
  <1> USE DEF JobsTypeOK, LiveRowsKept
  <1>1. CASE \E q \in Query, c \in Client, n \in Nat, checked \in BOOLEAN :
               InsertJob(q, c, n, checked)
    BY <1>1 DEF InsertJob
  <1>2. CASE \E q \in Query, n \in Nat, retry \in BOOLEAN, age \in Nat :
               ReopenJob(q, n, retry, age)
    BY <1>2 DEF ReopenJob, Reopens, Stale
  <1>3. CASE \E q \in Query : ClaimTraceJob(q)
    BY <1>3 DEF ClaimTraceJob, Claimable
  <1>4. CASE RecoverExpiredTraceJobs
    BY <1>4 DEF RecoverExpiredTraceJobs
  <1>5. CASE PruneFinishedTraceJobs
    BY <1>5 DEF PruneFinishedTraceJobs, Expired, Finished
  <1>6. CASE UNCHANGED jobVars
    BY <1>6 DEF jobVars
  <1> QED
    BY <1>1, <1>2, <1>3, <1>4, <1>5, <1>6

LEMMA UpsertKeepsLiveRows ==
  ASSUME IInv, NEW s \in Session, UpsertAndCommit(s) PROVE LiveRowsKept
  <1>1. JobsTypeOK
    BY DEF IInv, TypeOK
  <1>2. PICK q \in Query, c \in Client, n \in Nat \ {0}, retry \in BOOLEAN,
             checked \in BOOLEAN, age \in Nat :
          \/ InsertJob(q, c, n, checked)
          \/ ReopenJob(q, n, retry, age)
          \/ KeepJob(q, retry, age)
    BY UpsertIsAStatement
  <1> QED
    BY <1>1, <1>2, StatementsKeepLiveRows DEF KeepJob

(* A step of w that changes no row but by a statement, and leaves w without *)
(* a job or with the job it had.                                            *)
LEMMA TimelyClaim ==
  ASSUME IInv, TimelyInv, NEW w \in Worker, ClaimJob(w) PROVE TimelyInv'
  <1>1. PICK q \in Query :
          /\ ClaimTraceJob(q)
          /\ task' = [task EXCEPT ![w] =
                        [NoTask EXCEPT !.query = q, !.id = job[q].id,
                                       !.accepted = accepted[q],
                                       !.attempt = 1]]
    BY DEF ClaimJob
  <1>2. /\ task'[w].query = q /\ task'[w].id = job[q].id
        /\ task'[w].accepted = accepted[q] /\ task'[w].age = 0
    BY <1>1, InvSplit DEF WorkerInv, NoTask
  <1>3. /\ job'[q].status = "running" /\ job'[q].lease = 0
        /\ job'[q].id = job[q].id /\ accepted'[q] = accepted[q]
    BY <1>1, InvSplit DEF ClaimTraceJob, RowsInv, JobsTypeOK, Row
  <1>4. \A v \in Worker : ~Holds(v)
    BY <1>1, HeldRowLives DEF ClaimTraceJob, Claimable, InStatus
  <1>5. \A v \in Worker : Holds(v)' => v = w
    BY <1>4, InvSplit DEF ClaimJob, Goto, Holds, WorkerInv
  <1>6. \A v \in Worker : worker'[v].stalled = worker[v].stalled
    BY InvSplit DEF ClaimJob, Goto, WorkerInv, Workers
  <1> QED
    BY <1>2, <1>3, <1>5, <1>6 DEF TimelyInv, Matches

LEMMA TimelyRecord ==
  ASSUME IInv, TimelyInv, NEW w \in Worker, RecordOutcome(w) PROVE TimelyInv'
  <1>1. Holds(w)
    BY DEF RecordOutcome, At, Holds, Holding
  <1>2. \A v \in Worker : Holds(v) => v = w
    BY <1>1 DEF TimelyInv
  <1>3. \A v \in Worker : ~Holds(v)'
    BY <1>2, InvSplit DEF RecordOutcome, Goto, Holds, Holding, WorkerInv, Workers
  <1>4. \A v \in Worker : worker'[v].stalled = worker[v].stalled
    BY InvSplit DEF RecordOutcome, Goto, WorkerInv, Workers
  <1> QED
    BY <1>3, <1>4 DEF TimelyInv

LEMMA TimelyTick ==
  ASSUME IInv, TimelyInv, Tick PROVE TimelyInv'
  <1>1. /\ worker \in [Worker -> Workers] /\ task \in [Worker -> Tasks]
        /\ job \in [Query -> Row]
    BY DEF IInv, TypeOK, JobsTypeOK
  <1>2. ASSUME NEW w \in Worker
        PROVE  /\ Holds(w)' <=> Holds(w)
               /\ worker'[w].stalled = worker[w].stalled
    BY <1>1 DEF Tick, Holds, Workers
  <1>3. ASSUME NEW w \in Worker, Holds(w)
        PROVE  /\ Matches(task[w].query, task[w].id)'
               /\ job'[task'[w].query].lease = task'[w].age
               /\ task'[w].accepted = accepted'[task'[w].query]
    <2> DEFINE q == task[w].query
               a == Aged(task[w].age)
    <2>1. q \in Query
      BY <1>3, HeldRowLives
    <2>2. task[w].age < HoldCap /\ task[w].age \in Nat
      <3>1. ~Urgent(w) /\ ~worker[w].stalled
        BY DEF Tick, TimelyInv
      <3>2. task[w].age \in Nat /\ JobTimeout <= HoldCap /\ JobTimeout \in Nat
        BY <1>1, CapFacts, QueueAssumption DEF Tasks, HoldCap
      <3> QED
        BY <1>3, <3>1, <3>2, CapFacts DEF Urgent, Holds, Holding
    <2>3. a = task[w].age + 1
      BY <2>2 DEF Aged
    <2>4. /\ task'[w].query = q /\ task'[w].id = task[w].id
          /\ task'[w].accepted = task[w].accepted /\ task'[w].age = a
      BY <1>1, <1>3 DEF Tick, TaskTick, Tasks
    <2>5. /\ Matches(q, task[w].id) /\ job[q].lease = task[w].age
          /\ task[w].accepted = accepted[q]
      BY <1>3 DEF TimelyInv
    <2>6. Later(job[q].lease, LeaseCap) = job[q].lease + 1
      BY <2>2, <2>5, CapFacts, LeaseAssumption, JobsAssumption, QueueAssumption
         DEF Later, LeaseCap, HoldCap
    <2>7. /\ job'[q].lease = Later(job[q].lease, LeaseCap)
          /\ job'[q].id = job[q].id /\ job'[q].status = job[q].status
          /\ accepted'[q] = accepted[q]
      BY <1>1, <2>1 DEF Tick, JobsTick, Row
    <2> QED
      BY <2>3, <2>4, <2>5, <2>6, <2>7 DEF Matches
  <1> QED
    BY <1>2, <1>3 DEF TimelyInv

LEMMA StepKeepsTimely ==
  ASSUME "stall" \notin FaultKinds, IInv, TimelyInv, [Next]_vars
  PROVE  TimelyInv'
  <1>1. /\ JobsTypeOK /\ worker \in [Worker -> Workers] /\ task \in [Worker -> Tasks]
    BY DEF IInv, TypeOK
  <1>2. \A w \in Worker : worker[w].stalled = FALSE
    BY <1>1 DEF TimelyInv, Workers
  <1>3. ASSUME NEW s \in Session,
               BeginEnqueue(s) \/ SessionStep(s) \/ AbortEnqueue(s)
        PROVE  TimelyInv'
    <2>1. UNCHANGED <<worker, task>>
      BY <1>3 DEF BeginEnqueue, SessionStep, LockAndLook, CountQueued,
                  CountClientQueued, UpsertAndCommit, AbortEnqueue
    <2>2. HoldersKept
      BY <1>2, <2>1 DEF HoldersKept, Holds
    <2>3. UNCHANGED jobVars \/ UpsertAndCommit(s)
      BY <1>3 DEF BeginEnqueue, SessionStep, LockAndLook, CountQueued,
                  CountClientQueued, AbortEnqueue, jobVars
    <2> QED
      BY <1>1, <2>2, <2>3, UpsertKeepsLiveRows, StatementsKeepLiveRows,
         FrameKeepsTimely
  <1>4. ASSUME NEW w \in Worker,
               \/ PruneFinished(w) \/ SkipPrune(w) \/ RecoverExpired(w)
               \/ ClaimNothing(w) \/ ClaimFails(w) \/ PollWait(w)
               \/ Crash(w) \/ Restart(w)
        PROVE  TimelyInv'
    <2>1. HoldersKept
      <3>1. ASSUME NEW v \in Worker, v # w
            PROVE  worker'[v] = worker[v] /\ task'[v] = task[v]
        BY <1>1, <1>4, <3>1
           DEF PruneFinished, SkipPrune, RecoverExpired, ClaimNothing, ClaimFails,
               PollWait, Crash, Restart, Goto
      <3>2. worker'[w].pc \notin Holding /\ worker'[w].stalled = FALSE
        <4>1. CASE Crash(w) \/ Restart(w)
          BY <1>1, <4>1 DEF Crash, Restart, Holding, FreshWorker, Workers
        <4>2. CASE PruneFinished(w) \/ SkipPrune(w)
          BY <1>1, <1>2, <4>2 DEF PruneFinished, SkipPrune, Goto, Holding, Workers
        <4>3. CASE RecoverExpired(w)
          BY <1>1, <1>2, <4>3 DEF RecoverExpired, Goto, Holding, Workers
        <4>4. CASE ClaimNothing(w) \/ ClaimFails(w)
          BY <1>1, <1>2, <4>4 DEF ClaimNothing, ClaimFails, Goto, Holding, Workers
        <4>5. CASE PollWait(w)
          BY <1>1, <1>2, <4>5 DEF PollWait, Goto, Holding, Workers
        <4> QED
          BY <1>4, <4>1, <4>2, <4>3, <4>4, <4>5
      <3> QED
        BY <1>2, <3>1, <3>2 DEF HoldersKept, Holds
    <2>2. \/ UNCHANGED jobVars \/ PruneFinishedTraceJobs \/ RecoverExpiredTraceJobs
          \/ \E q \in Query : ClaimTraceJob(q)
      BY <1>4 DEF PruneFinished, SkipPrune, RecoverExpired, ClaimNothing, ClaimFails,
                  PollWait, Crash, Restart, jobVars
    <2> QED
      BY <1>1, <2>1, <2>2, StatementsKeepLiveRows, FrameKeepsTimely
  <1>5. ASSUME NEW w \in Worker,
               ResolveGraph(w) \/ Backoff(w) \/ Shutdown(w) \/ Resume(w)
        PROVE  TimelyInv'
    <2>1. HoldersKept
      <3>1. ASSUME NEW v \in Worker, v # w
            PROVE  worker'[v] = worker[v] /\ task'[v] = task[v]
        BY <1>1, <1>5, <3>1 DEF ResolveGraph, Backoff, Shutdown, Resume, Goto
      <3>2. worker'[w].stalled = FALSE
        BY <1>1, <1>2, <1>5 DEF ResolveGraph, Backoff, Shutdown, Resume, Goto, Workers
      <3>3. Holds(w)' => Holds(w)
        BY <1>1, <1>5 DEF ResolveGraph, Backoff, Shutdown, Resume, Goto, At, Workers,
                          Holds, Holding
      <3>4. /\ task'[w].query = task[w].query /\ task'[w].id = task[w].id
            /\ task'[w].accepted = task[w].accepted /\ task'[w].age = task[w].age
        BY <1>1, <1>5 DEF ResolveGraph, Backoff, Shutdown, Resume, Tasks
      <3> QED
        BY <1>2, <3>1, <3>2, <3>3, <3>4 DEF HoldersKept, Holds
    <2>2. UNCHANGED jobVars
      BY <1>5 DEF ResolveGraph, Backoff, Shutdown, Resume, jobVars
    <2> QED
      BY <1>1, <2>1, <2>2, StatementsKeepLiveRows, FrameKeepsTimely
  <1>6. ASSUME NEW w \in Worker, Stall(w) PROVE FALSE
    BY <1>6 DEF Stall, Fault
  <1>7. CASE UNCHANGED vars
    BY <1>7 DEF vars, jobVars, TimelyInv, Holds, Matches
  <1> QED
    BY <1>3, <1>4, <1>5, <1>6, <1>7, TimelyClaim, TimelyRecord, TimelyTick
       DEF Next, WorkerStep

(* When no process stalls, one process at a time resolves a trace of the    *)
(* network, and the row it works on is running under its id and a live      *)
(* lease (tracing/queue.go:16-23, 157-206).                                 *)
THEOREM TimelyWorkersAlone ==
  ASSUME "stall" \notin FaultKinds
  PROVE  Spec => []SoleResolver
  <1>1. Init => TimelyInv
    BY DEF Init, TimelyInv, FreshWorker, Holds, Holding
  <1>2. IInv /\ TimelyInv /\ [Next]_vars => TimelyInv'
    BY StepKeepsTimely
  <1>3. IInv /\ TimelyInv => SoleResolver
    BY HeldRowLives DEF TimelyInv, SoleResolver
  <1> QED
    BY <1>1, <1>2, <1>3, InductiveInvariant, PTL DEF Spec

-----------------------------------------------------------------------------
(* Answers are current.                                                     *)

\* A step after which only rows that were answered before are answered, by
\* the same result and for the same request.
AnswersKept ==
    \A q \in Query :
        job'[q].status = "succeeded" => /\ job[q].status = "succeeded"
                                        /\ job'[q].result = job[q].result
                                        /\ accepted'[q] = accepted[q]

LEMMA StatementsKeepAnswers ==
  ASSUME JobsTypeOK,
         \/ \E q \in Query, c \in Client, n \in Nat, checked \in BOOLEAN :
               InsertJob(q, c, n, checked)
         \/ \E q \in Query, n \in Nat, retry \in BOOLEAN, age \in Nat :
               ReopenJob(q, n, retry, age)
         \/ \E q \in Query : ClaimTraceJob(q)
         \/ \E q \in Query, id \in Nat : FailTraceJob(q, id) \/ RequeueTraceJob(q, id)
         \/ RecoverExpiredTraceJobs
         \/ PruneFinishedTraceJobs
         \/ JobsTick
         \/ UNCHANGED jobVars
  PROVE  AnswersKept
  <1> USE DEF JobsTypeOK, AnswersKept, Row
  <1>1. CASE \E q \in Query, c \in Client, n \in Nat, checked \in BOOLEAN :
               InsertJob(q, c, n, checked)
    BY <1>1 DEF InsertJob, AbsentRow
  <1>2. CASE \E q \in Query, n \in Nat, retry \in BOOLEAN, age \in Nat :
               ReopenJob(q, n, retry, age)
    BY <1>2 DEF ReopenJob
  <1>3. CASE \E q \in Query : ClaimTraceJob(q)
    BY <1>3 DEF ClaimTraceJob
  <1>4. CASE \E q \in Query, id \in Nat : FailTraceJob(q, id)
    BY <1>4 DEF FailTraceJob
  <1>5. CASE \E q \in Query, id \in Nat : RequeueTraceJob(q, id)
    BY <1>5 DEF RequeueTraceJob
  <1>6. CASE RecoverExpiredTraceJobs
    BY <1>6 DEF RecoverExpiredTraceJobs
  <1>7. CASE PruneFinishedTraceJobs
    BY <1>7 DEF PruneFinishedTraceJobs, AbsentRow
  <1>8. CASE JobsTick
    BY <1>8 DEF JobsTick
  <1>9. CASE UNCHANGED jobVars
    BY <1>9 DEF jobVars
  <1> QED
    BY <1>1, <1>2, <1>3, <1>4, <1>5, <1>6, <1>7, <1>8, <1>9

LEMMA StepKeepsCurrent ==
  ASSUME IInv, TimelyInv, AnswerIsCurrent, [Next]_vars
  PROVE  AnswerIsCurrent'
  <1>1. JobsTypeOK /\ task \in [Worker -> Tasks]
    BY DEF IInv, TypeOK
  <1>2. ASSUME AnswersKept PROVE AnswerIsCurrent'
    BY <1>2 DEF AnswersKept, AnswerIsCurrent
  <1>3. ASSUME NEW s \in Session,
               BeginEnqueue(s) \/ SessionStep(s) \/ AbortEnqueue(s)
        PROVE  AnswersKept
    <2>1. CASE UpsertAndCommit(s)
      <3>1. PICK q \in Query, c \in Client, n \in Nat \ {0}, retry \in BOOLEAN,
                 checked \in BOOLEAN, age \in Nat :
              \/ InsertJob(q, c, n, checked)
              \/ ReopenJob(q, n, retry, age)
              \/ KeepJob(q, retry, age)
        BY <2>1, UpsertIsAStatement
      <3> QED
        BY <1>1, <3>1, StatementsKeepAnswers DEF KeepJob
    <2>2. CASE ~UpsertAndCommit(s)
      <3>1. UNCHANGED jobVars
        BY <1>3, <2>2 DEF BeginEnqueue, SessionStep, LockAndLook, CountQueued,
                          CountClientQueued, AbortEnqueue, jobVars
      <3> QED
        BY <1>1, <3>1, StatementsKeepAnswers
    <2> QED
      BY <2>1, <2>2
  <1>4. ASSUME NEW w \in Worker, RecordOutcome(w)
        PROVE  AnswerIsCurrent'
    <2>1. PICK q, id, n : q = task[w].query /\ id = task[w].id /\ n = task[w].accepted
      OBVIOUS
    <2>2. q \in Query /\ id \in Nat /\ n = accepted[q]
      <3>1. Holds(w)
        BY <1>4 DEF RecordOutcome, At, Holds, Holding
      <3> QED
        BY <1>1, <2>1, <3>1, HeldRowLives DEF TimelyInv, Tasks
    <2>3. \/ FailTraceJob(q, id) \/ RequeueTraceJob(q, id) \/ UNCHANGED jobVars
          \/ CompleteTraceJob(q, id, n)
      BY <1>4, <2>1 DEF RecordOutcome
    <2>4. CASE CompleteTraceJob(q, id, n)
      BY <1>1, <2>2, <2>4 DEF CompleteTraceJob, AnswerIsCurrent, JobsTypeOK, Row
    <2> QED
      BY <1>1, <1>2, <2>2, <2>3, <2>4, StatementsKeepAnswers
  <1>5. ASSUME NEW w \in Worker, WorkerStep(w), ~RecordOutcome(w)
        PROVE  AnswersKept
    <2>1. \/ PruneFinishedTraceJobs \/ RecoverExpiredTraceJobs \/ UNCHANGED jobVars
          \/ \E q \in Query : ClaimTraceJob(q)
      BY <1>5 DEF WorkerStep, PruneFinished, SkipPrune, RecoverExpired, ClaimJob,
                  ClaimNothing, ClaimFails, ResolveGraph, Backoff, PollWait, jobVars
    <2> QED
      BY <1>1, <2>1, StatementsKeepAnswers
  <1>6. ASSUME NEW w \in Worker,
               Shutdown(w) \/ Crash(w) \/ Restart(w) \/ Stall(w) \/ Resume(w)
        PROVE  AnswersKept
    <2>1. UNCHANGED jobVars
      BY <1>6 DEF Shutdown, Crash, Restart, Stall, Resume, jobVars
    <2> QED
      BY <1>1, <2>1, StatementsKeepAnswers
  <1>7. CASE Tick
    <2>1. JobsTick
      BY <1>7 DEF Tick
    <2> QED
      BY <1>1, <1>2, <2>1, StatementsKeepAnswers
  <1>8. CASE UNCHANGED vars
    <2>1. UNCHANGED jobVars
      BY <1>8 DEF vars
    <2> QED
      BY <1>1, <1>2, <2>1, StatementsKeepAnswers
  <1> QED
    BY <1>2, <1>3, <1>4, <1>5, <1>6, <1>7, <1>8 DEF Next

(* When no process stalls, a stored graph was resolved for the request that *)
(* last queued the row (db/jobs.go:73-88, 151-154).                         *)
THEOREM AnswersAreCurrent ==
  ASSUME "stall" \notin FaultKinds
  PROVE  Spec => []AnswerIsCurrent
  <1>1. Init => TimelyInv /\ AnswerIsCurrent
    BY DEF Init, TimelyInv, FreshWorker, Holds, Holding, JobsInit, AbsentRow,
           AnswerIsCurrent
  <1>2. IInv /\ TimelyInv /\ [Next]_vars => TimelyInv'
    BY StepKeepsTimely
  <1>3. IInv /\ TimelyInv /\ AnswerIsCurrent /\ [Next]_vars => AnswerIsCurrent'
    BY StepKeepsCurrent
  <1> QED
    BY <1>1, <1>2, <1>3, InductiveInvariant, PTL DEF Spec

-----------------------------------------------------------------------------
(* Answers survive workers.                                                 *)

Open(s) == session[s].pc # "idle"

\* Requests are numbered in the order of BEGIN: an open transaction has a
\* number of its own, which no row was accepted under yet.
NumbersInv ==
    /\ \A q \in Query : accepted[q] <= requests
    /\ \A s \in Session : Open(s) => /\ session[s].number <= requests
                                    /\ \A q \in Query : accepted[q] # session[s].number
    /\ \A s, t \in Session :
          Open(s) /\ Open(t) /\ session[s].number = session[t].number => s = t

\* A step that accepts nothing and opens no transaction.
NothingAccepted ==
    /\ \A q \in Query : accepted'[q] \in {accepted[q], 0}
    /\ \A s \in Session : Open(s)' => /\ Open(s)
                                     /\ session'[s].number = session[s].number
    /\ UNCHANGED requests

LEMMA FrameKeepsNumbers ==
  ASSUME IInv, NumbersInv, NothingAccepted PROVE NumbersInv'
  <1>1. /\ requests \in Nat
        /\ \A s \in Session : Open(s) => session[s].number # 0
    BY InvSplit DEF SessionInv, SessionsKnow, Open
  <1> QED
    BY <1>1 DEF NumbersInv, NothingAccepted

(* The statements of the worker never touch accepted, but to forget it.     *)
LEMMA StatementsAcceptNone ==
  ASSUME JobsTypeOK,
         \/ \E q \in Query : ClaimTraceJob(q)
         \/ \E q \in Query, id \in Nat, n \in Nat :
               \/ FailTraceJob(q, id) \/ RequeueTraceJob(q, id)
               \/ CompleteTraceJob(q, id, n)
         \/ RecoverExpiredTraceJobs
         \/ PruneFinishedTraceJobs
         \/ JobsTick
         \/ UNCHANGED jobVars
  PROVE  \A q \in Query : accepted'[q] \in {accepted[q], 0}
  <1>1. CASE PruneFinishedTraceJobs
    BY <1>1 DEF PruneFinishedTraceJobs, JobsTypeOK
  <1>2. CASE ~PruneFinishedTraceJobs
    BY <1>2 DEF ClaimTraceJob, FailTraceJob, RequeueTraceJob, CompleteTraceJob,
                RecoverExpiredTraceJobs, JobsTick, jobVars
  <1> QED
    BY <1>1, <1>2

\* What one step does to the answers, over the rows of the table.
AnswersStay ==
    \A q \in Query :
        /\ job[q].status \in Finished
        /\ job'[q].status # job[q].status
        => \/ /\ job'[q].status = "queued"
              /\ accepted'[q] # accepted[q]
           \/ job'[q] = AbsentRow /\ job[q].completed > Retention

(* The same statements take no answer away before its time.                 *)
LEMMA StatementsKeepAnswered ==
  ASSUME JobsTypeOK,
         \/ \E q \in Query : ClaimTraceJob(q)
         \/ \E q \in Query, id \in Nat, n \in Nat :
               \/ FailTraceJob(q, id) \/ RequeueTraceJob(q, id)
               \/ CompleteTraceJob(q, id, n)
         \/ RecoverExpiredTraceJobs
         \/ PruneFinishedTraceJobs
         \/ JobsTick
         \/ UNCHANGED jobVars
  PROVE  AnswersStay
  <1> USE DEF JobsTypeOK, AnswersStay, Row, Finished
  <1>1. CASE \E q \in Query : ClaimTraceJob(q)
    BY <1>1 DEF ClaimTraceJob, Claimable
  <1>2. ASSUME NEW q \in Query, NEW id \in Nat, FailTraceJob(q, id)
        PROVE  AnswersStay
    BY <1>2 DEF FailTraceJob, Matches
  <1>3. ASSUME NEW q \in Query, NEW id \in Nat, RequeueTraceJob(q, id)
        PROVE  AnswersStay
    BY <1>3 DEF RequeueTraceJob, Matches
  <1>4. ASSUME NEW q \in Query, NEW id \in Nat, NEW n \in Nat,
               CompleteTraceJob(q, id, n)
        PROVE  AnswersStay
    BY <1>4 DEF CompleteTraceJob, Matches
  <1>5. CASE RecoverExpiredTraceJobs
    BY <1>5 DEF RecoverExpiredTraceJobs, LeaseExpired
  <1>6. CASE PruneFinishedTraceJobs
    BY <1>6 DEF PruneFinishedTraceJobs, Expired
  <1>7. CASE JobsTick
    BY <1>7 DEF JobsTick
  <1>8. CASE UNCHANGED jobVars
    BY <1>8 DEF jobVars
  <1> QED
    BY <1>1, <1>2, <1>3, <1>4, <1>5, <1>6, <1>7, <1>8

LEMMA UpsertKeepsAnswered ==
  ASSUME IInv, NumbersInv, NEW s \in Session, UpsertAndCommit(s)
  PROVE  NumbersInv' /\ AnswersStay
  <1>1. /\ JobsTypeOK /\ RowsConsistent /\ session \in [Session -> Sessions]
        /\ requests \in Nat /\ UNCHANGED requests
    BY DEF IInv, TypeOK, UpsertAndCommit
  <1>2. PICK q, n : q = session[s].query /\ n = session[s].number
    OBVIOUS
  <1>3. /\ q \in Query /\ n # 0 /\ n \in Nat /\ n <= requests /\ Open(s)
        /\ \A p \in Query : accepted[p] # n
    BY <1>1, <1>2, InvSplit
       DEF SessionInv, SessionsKnow, NumbersInv, UpsertAndCommit, Open, Sessions
  <1>4. \A t \in Session : Open(t)' => t # s /\ session'[t] = session[t]
    BY <1>1, NoSessionType DEF UpsertAndCommit, Open
  <1>5. CASE accepted' = [accepted EXCEPT ![q] = n]
    <2>1. \A p \in Query : accepted'[p] = IF p = q THEN n ELSE accepted[p]
      BY <1>1, <1>5 DEF JobsTypeOK
    <2>2. \A t \in Session : Open(t)' => /\ Open(t) /\ session[t].number # n
                                       /\ session'[t].number = session[t].number
      BY <1>2, <1>3, <1>4 DEF NumbersInv, Open
    <2>3. NumbersInv'
      BY <1>1, <1>3, <1>4, <2>1, <2>2 DEF NumbersInv
    <2>4. AnswersStay
      <3>1. \A p \in Query : p # q => job'[p] = job[p]
        BY <1>1, <1>2 DEF UpsertAndCommit, InsertJob, ReopenJob, KeepJob, jobVars,
                          JobsTypeOK
      <3>2. job'[q].status \in {"queued", job[q].status}
        <4>1. CASE UNCHANGED jobVars
          BY <4>1 DEF jobVars
        <4>2. ASSUME NEW c, NEW checked, InsertJob(q, c, n, checked)
              PROVE  job'[q].status = "queued"
          BY <1>1, <1>3, <4>2 DEF InsertJob, JobsTypeOK, AbsentRow
        <4>3. ASSUME NEW retry, NEW age, ReopenJob(q, n, retry, age)
              PROVE  job'[q].status = "queued"
          BY <1>1, <1>3, <4>3 DEF ReopenJob, JobsTypeOK, Row
        <4> QED
          BY <1>2, <4>1, <4>2, <4>3 DEF UpsertAndCommit, KeepJob
      <3> QED
        BY <1>3, <2>1, <3>1, <3>2 DEF AnswersStay
    <2> QED
      BY <2>3, <2>4
  <1>6. CASE UNCHANGED jobVars
    <2>1. NothingAccepted
      BY <1>1, <1>4, <1>6 DEF NothingAccepted, jobVars, Open
    <2> QED
      BY <1>1, <1>6, <2>1, FrameKeepsNumbers, StatementsKeepAnswered
  <1> QED
    BY <1>2, <1>5, <1>6 DEF UpsertAndCommit, InsertJob, ReopenJob, KeepJob

LEMMA BeginKeepsNumbers ==
  ASSUME IInv, NumbersInv, NEW s \in Session, BeginEnqueue(s) PROVE NumbersInv'
  <1>1. /\ session \in [Session -> Sessions] /\ requests \in Nat
        /\ accepted \in [Query -> Nat] /\ UNCHANGED accepted
        /\ requests' = requests + 1
    BY DEF IInv, TypeOK, JobsTypeOK, BeginEnqueue, jobVars
  <1>2. \A t \in Session : t # s => session'[t] = session[t]
    BY <1>1 DEF BeginEnqueue
  <1>3. session'[s].number = requests + 1
    BY <1>1, NoSessionType DEF BeginEnqueue, Sessions
  <1>4. \A t \in Session : session[t].number \in Nat
    BY <1>1 DEF Sessions
  <1> QED
    BY <1>1, <1>2, <1>3, <1>4 DEF NumbersInv, Open

LEMMA StepKeepsAnswered ==
  ASSUME IInv, NumbersInv, [Next]_vars PROVE NumbersInv' /\ AnswersStay
  <1>1. /\ JobsTypeOK /\ session \in [Session -> Sessions]
        /\ worker \in [Worker -> Workers] /\ task \in [Worker -> Tasks]
    BY DEF IInv, TypeOK
  <1>2. ASSUME NEW s \in Session, BeginEnqueue(s) PROVE NumbersInv' /\ AnswersStay
    <2>1. UNCHANGED jobVars
      BY <1>2 DEF BeginEnqueue
    <2> QED
      BY <1>1, <1>2, <2>1, BeginKeepsNumbers, StatementsKeepAnswered
  <1>3. ASSUME NEW s \in Session,
               \/ LockAndLook(s) \/ CountQueued(s) \/ CountClientQueued(s)
               \/ AbortEnqueue(s)
        PROVE  NumbersInv' /\ AnswersStay
    <2>1. UNCHANGED jobVars /\ UNCHANGED requests
      BY <1>3 DEF LockAndLook, CountQueued, CountClientQueued, AbortEnqueue
    <2>2. ASSUME NEW t \in Session, t # s PROVE session'[t] = session[t]
      BY <1>1, <1>3, <2>2 DEF LockAndLook, CountQueued, CountClientQueued, AbortEnqueue
    <2>3. Open(s)' => Open(s) /\ session'[s].number = session[s].number
      <3>1. CASE LockAndLook(s)
        <4>1. PICK pc, absent :
                session' = [session EXCEPT ![s] = [@ EXCEPT !.pc = pc,
                                                            !.checked = absent]]
          BY <3>1, Zenon DEF LockAndLook
        <4> QED
          BY <1>1, <3>1, <4>1 DEF LockAndLook, Open, Sessions
      <3>2. CASE CountQueued(s) \/ CountClientQueued(s)
        BY <1>1, <3>2, NoSessionType DEF CountQueued, CountClientQueued, Open, Sessions
      <3>3. CASE AbortEnqueue(s)
        BY <1>1, <3>3, NoSessionType DEF AbortEnqueue, Open
      <3> QED
        BY <1>3, <3>1, <3>2, <3>3
    <2>4. NothingAccepted
      BY <2>1, <2>2, <2>3 DEF NothingAccepted, jobVars, Open
    <2> QED
      BY <1>1, <2>1, <2>4, FrameKeepsNumbers, StatementsKeepAnswered
  <1>4. ASSUME UNCHANGED session, UNCHANGED requests,
               \/ \E q \in Query : ClaimTraceJob(q)
               \/ \E q \in Query, id \in Nat, n \in Nat :
                     \/ FailTraceJob(q, id) \/ RequeueTraceJob(q, id)
                     \/ CompleteTraceJob(q, id, n)
               \/ RecoverExpiredTraceJobs
               \/ PruneFinishedTraceJobs
               \/ UNCHANGED jobVars
        PROVE  NumbersInv' /\ AnswersStay
    <2>1. NothingAccepted
      BY <1>1, <1>4, StatementsAcceptNone DEF NothingAccepted, Open
    <2> QED
      BY <1>1, <1>4, <2>1, FrameKeepsNumbers, StatementsKeepAnswered
  <1>5. ASSUME NEW w \in Worker, WorkerStep(w), ~RecordOutcome(w)
        PROVE  NumbersInv' /\ AnswersStay
    <2>1. /\ UNCHANGED session /\ UNCHANGED requests
          /\ \/ PruneFinishedTraceJobs \/ RecoverExpiredTraceJobs
             \/ UNCHANGED jobVars \/ \E q \in Query : ClaimTraceJob(q)
      BY <1>5 DEF WorkerStep, PruneFinished, SkipPrune, RecoverExpired, ClaimJob,
                  ClaimNothing, ClaimFails, ResolveGraph, Backoff, PollWait, jobVars
    <2> QED
      BY <1>4, <2>1
  <1>6. ASSUME NEW w \in Worker, RecordOutcome(w) PROVE NumbersInv' /\ AnswersStay
    <2>1. PICK q, id, n : q = task[w].query /\ id = task[w].id /\ n = task[w].accepted
      OBVIOUS
    <2>2. q \in Query /\ id \in Nat /\ n \in Nat
      BY <1>1, <1>6, <2>1, InvSplit
         DEF WorkerInv, WorkersKnow, RecordOutcome, At, Holds, Holding, Tasks
    <2>3. /\ UNCHANGED session /\ UNCHANGED requests
          /\ \/ FailTraceJob(q, id) \/ RequeueTraceJob(q, id)
             \/ CompleteTraceJob(q, id, n) \/ UNCHANGED jobVars
      BY <1>6, <2>1 DEF RecordOutcome
    <2> QED
      BY <1>4, <2>2, <2>3
  <1>7. ASSUME NEW w \in Worker,
               Shutdown(w) \/ Crash(w) \/ Restart(w) \/ Stall(w) \/ Resume(w)
        PROVE  NumbersInv' /\ AnswersStay
    BY <1>4, <1>7 DEF Shutdown, Crash, Restart, Stall, Resume
  <1>8. CASE Tick
    <2>1. JobsTick /\ UNCHANGED requests
      BY <1>8 DEF Tick
    <2>2. ASSUME NEW s \in Session
          PROVE  /\ session'[s].pc = session[s].pc
                 /\ session'[s].number = session[s].number
      BY <1>1, <1>8 DEF Tick, Sessions
    <2>3. NothingAccepted
      BY <1>1, <2>1, <2>2, StatementsAcceptNone DEF NothingAccepted, Open
    <2> QED
      BY <1>1, <2>1, <2>3, FrameKeepsNumbers, StatementsKeepAnswered
  <1>9. CASE UNCHANGED vars
    BY <1>4, <1>9 DEF vars
  <1> QED
    BY <1>2, <1>3, <1>5, <1>6, <1>7, <1>8, <1>9, UpsertKeepsAnswered
       DEF Next, SessionStep

(* An answer is taken away by a later request for the same trace, or by     *)
(* retention when it is old, and by nothing a worker does, however late it  *)
(* comes back (db/jobs.go:73-88, 151-169, 184-191).                         *)
THEOREM AnswersSurvive == Spec => AnswersSurviveWorkers
  <1>1. Init => NumbersInv
    BY NoSessionType, QueueAssumption DEF Init, JobsInit, NumbersInv, Open
  <1>2. IInv /\ NumbersInv /\ [Next]_vars => NumbersInv'
    BY StepKeepsAnswered
  <1>3. IInv /\ NumbersInv /\ [Next]_vars
        => [\A q \in Query :
              /\ job[q].status \in Finished
              /\ job'[q].status # job[q].status
              => \/ /\ job'[q].status = "queued"
                    /\ accepted'[q] # accepted[q]
                 \/ job'[q] = AbsentRow /\ job[q].completed > Retention]_vars
    BY StepKeepsAnswered DEF AnswersStay
  <1> QED
    BY <1>1, <1>2, <1>3, InductiveInvariant, PTL DEF Spec, AnswersSurviveWorkers

-----------------------------------------------------------------------------
(***************************************************************************)
(* The capacities of the trace queue (EnqueueTraceJob, db/jobs.go:37-71):  *)
(* the lock makes the two counts and the insert one step as far as new     *)
(* work goes, although workers take rows and put rows back in between.     *)
(***************************************************************************)

\* The rows of the table.
Present == {q \in Query : job[q].status # "absent"}

Roomy == Cardinality(admitted) < MaxQueued

RoomyFor(c) == Cardinality(AdmittedOf(c)) < MaxQueuedPerClient

\* One transaction at a time is between its lock and its COMMIT.
LockHeldOnce ==
    \A s, t \in Session :
        session[s].pc \in UnderLock /\ session[t].pc \in UnderLock => s = t

\* What a transaction has counted stays true while it holds the lock.
CountsHold ==
    \A s \in Session :
        /\ session[s].pc = "countClient" => Roomy
        /\ session[s].pc = "upsert" /\ session[s].checked =>
              Roomy /\ RoomyFor(session[s].client)

AdmitInv ==
    /\ IsFiniteSet(Present)
    /\ LockHeldOnce
    /\ CountsHold
    /\ AdmissionBound

-----------------------------------------------------------------------------
(* Every statement but a fresh insert.                                      *)

\* A step that inserts no row and admits none.
NothingNew ==
    /\ Present' \subseteq Present
    /\ admitted' \subseteq admitted
    /\ \A q \in admitted' : job'[q].client = job[q].client

(* The statements other than INSERT admit nothing and keep client_key.      *)
LEMMA StatementsAdmitNone ==
  ASSUME JobsTypeOK, RowsConsistent,
         \/ \E q \in Query, n \in Nat, retry \in BOOLEAN, age \in Nat :
               ReopenJob(q, n, retry, age)
         \/ \E q \in Query : ClaimTraceJob(q)
         \/ \E q \in Query, id \in Nat, n \in Nat :
               \/ FailTraceJob(q, id) \/ RequeueTraceJob(q, id)
               \/ CompleteTraceJob(q, id, n)
         \/ RecoverExpiredTraceJobs
         \/ PruneFinishedTraceJobs
         \/ JobsTick
         \/ UNCHANGED jobVars
  PROVE  NothingNew
  <1> USE DEF JobsTypeOK, NothingNew, Present, Row
  <1>1. ASSUME NEW q \in Query, NEW n \in Nat, NEW retry \in BOOLEAN,
               NEW age \in Nat, ReopenJob(q, n, retry, age)
        PROVE  NothingNew
    BY <1>1 DEF ReopenJob, Reopens, Stale
  <1>2. CASE \E q \in Query : ClaimTraceJob(q)
    BY <1>2 DEF ClaimTraceJob, Claimable
  <1>3. ASSUME NEW q \in Query, NEW id \in Nat, FailTraceJob(q, id)
        PROVE  NothingNew
    BY <1>3 DEF FailTraceJob, Matches
  <1>4. ASSUME NEW q \in Query, NEW id \in Nat, RequeueTraceJob(q, id)
        PROVE  NothingNew
    BY <1>4 DEF RequeueTraceJob, Matches
  <1>5. ASSUME NEW q \in Query, NEW id \in Nat, NEW n \in Nat,
               CompleteTraceJob(q, id, n)
        PROVE  NothingNew
    BY <1>5 DEF CompleteTraceJob, Matches
  <1>6. CASE RecoverExpiredTraceJobs
    BY <1>6 DEF RecoverExpiredTraceJobs, LeaseExpired
  <1>7. CASE PruneFinishedTraceJobs
    <2>1. \A q \in admitted : ~Expired(q)
      BY DEF RowsConsistent, RowConsistent, Expired, Finished
    <2> QED
      BY <1>7, <2>1 DEF PruneFinishedTraceJobs, AbsentRow
  <1>8. CASE JobsTick
    BY <1>8 DEF JobsTick
  <1>9. CASE UNCHANGED jobVars
    BY <1>9 DEF jobVars
  <1> QED
    BY <1>1, <1>2, <1>3, <1>4, <1>5, <1>6, <1>7, <1>8, <1>9

(* Admitted rows wait: they are among the rows that the counts see.         *)
LEMMA AdmittedAreCounted ==
  ASSUME RowsInv, IsFiniteSet(Present)
  PROVE  /\ IsFiniteSet(admitted) /\ IsFiniteSet(InStatus("queued"))
         /\ Cardinality(admitted) \in Nat
         /\ Cardinality(admitted) <= Cardinality(InStatus("queued"))
         /\ \A c : /\ IsFiniteSet(AdmittedOf(c))
                   /\ Cardinality(AdmittedOf(c)) \in Nat
                   /\ Cardinality(AdmittedOf(c)) <= Cardinality(QueuedOf(c))
  <1>1. /\ InStatus("queued") \in SUBSET Present
        /\ admitted \in SUBSET InStatus("queued")
    BY DEF RowsInv, JobsTypeOK, RowsConsistent, RowConsistent, InStatus, Present
  <1>2. IsFiniteSet(InStatus("queued"))
    BY <1>1, FS_Subset
  <1>3. IsFiniteSet(admitted) /\ Cardinality(admitted) <= Cardinality(InStatus("queued"))
    BY <1>1, <1>2, FS_Subset
  <1>4. ASSUME NEW c
        PROVE  /\ IsFiniteSet(AdmittedOf(c))
               /\ Cardinality(AdmittedOf(c)) <= Cardinality(QueuedOf(c))
    <2>1. /\ QueuedOf(c) \in SUBSET InStatus("queued")
          /\ AdmittedOf(c) \in SUBSET QueuedOf(c)
      BY <1>1 DEF QueuedOf, AdmittedOf
    <2>2. IsFiniteSet(QueuedOf(c))
      BY <1>2, <2>1, FS_Subset
    <2> QED
      BY <2>1, <2>2, FS_Subset
  <1> QED
    BY <1>2, <1>3, <1>4, FS_CardinalityType

(* If nothing is admitted, no count grows.                                  *)
LEMMA CountsShrink ==
  ASSUME RowsInv, IsFiniteSet(Present), NothingNew
  PROVE  /\ IsFiniteSet(Present)'
         /\ Cardinality(admitted') \in Nat
         /\ Cardinality(admitted') <= Cardinality(admitted)
         /\ \A c : /\ Cardinality(AdmittedOf(c)') \in Nat
                   /\ Cardinality(AdmittedOf(c)') <= Cardinality(AdmittedOf(c))
  <1>1. IsFiniteSet(Present)'
    <2>1. Present' \in SUBSET Present
      BY DEF NothingNew
    <2> QED
      BY <2>1, FS_Subset
  <1>2. IsFiniteSet(admitted') /\ Cardinality(admitted') <= Cardinality(admitted)
    <2>1. admitted' \in SUBSET admitted
      BY DEF NothingNew
    <2> QED
      BY <2>1, AdmittedAreCounted, FS_Subset
  <1>3. ASSUME NEW c
        PROVE  /\ IsFiniteSet(AdmittedOf(c)')
               /\ Cardinality(AdmittedOf(c)') <= Cardinality(AdmittedOf(c))
    <2>1. AdmittedOf(c)' \in SUBSET AdmittedOf(c)
      BY DEF NothingNew, AdmittedOf
    <2> QED
      BY <2>1, AdmittedAreCounted, FS_Subset
  <1> QED
    BY <1>1, <1>2, <1>3, FS_CardinalityType

\* A session under the lock after the step was there before, and knows the
\* same.
SessionsKept ==
    \A s \in Session :
        session'[s].pc \in UnderLock => /\ session'[s].pc = session[s].pc
                                        /\ session'[s].checked = session[s].checked
                                        /\ session'[s].client = session[s].client

LEMMA FrameKeepsAdmit ==
  ASSUME RowsInv, AdmitInv, NothingNew, SessionsKept
  PROVE  AdmitInv'
  <1>1. LockHeldOnce'
    BY DEF AdmitInv, LockHeldOnce, SessionsKept
  <1>2. /\ Roomy => Roomy'
        /\ \A c : RoomyFor(c) => Cardinality(AdmittedOf(c)') < MaxQueuedPerClient
    BY AdmittedAreCounted, CountsShrink, QueueAssumption
       DEF AdmitInv, Roomy, RoomyFor
  <1>3. CountsHold'
    <2>1. ASSUME NEW s \in Session, session'[s].pc = "countClient" PROVE Roomy'
      BY <1>2, <2>1 DEF AdmitInv, CountsHold, SessionsKept, UnderLock
    <2>2. ASSUME NEW s \in Session, session'[s].pc = "upsert", session'[s].checked
          PROVE  Roomy' /\ RoomyFor(session[s].client)'
      <3>1. PICK c : c = session[s].client
        OBVIOUS
      <3>2. /\ session[s].pc = "upsert" /\ session[s].checked
            /\ session'[s].client = c
        BY <2>2, <3>1 DEF SessionsKept, UnderLock
      <3>3. Roomy /\ RoomyFor(c)
        BY <3>1, <3>2 DEF AdmitInv, CountsHold
      <3>4. Roomy' /\ Cardinality(AdmittedOf(c)') < MaxQueuedPerClient
        BY <1>2, <3>3
      <3> QED
        BY <3>2, <3>4 DEF RoomyFor, AdmittedOf
    <2> QED
      BY <2>1, <2>2 DEF CountsHold
  <1>4. AdmissionBound'
    BY AdmittedAreCounted, CountsShrink, QueueAssumption
       DEF AdmitInv, AdmissionBound
  <1> QED
    BY <1>1, <1>3, <1>4, CountsShrink DEF AdmitInv

-----------------------------------------------------------------------------
(* The enqueue transaction.                                                 *)

LEMMA LockAndLookAdmits ==
  ASSUME IInv, AdmitInv, NEW s \in Session, LockAndLook(s) PROVE AdmitInv'
  <1>1. /\ RowsInv /\ session \in [Session -> Sessions]
        /\ \A t \in Session : session[t].pc \notin UnderLock
    BY InvSplit DEF SessionInv, LockAndLook, LockFree
  <1>2. ASSUME NEW t \in Session, t # s PROVE session'[t] = session[t]
    BY <1>1, <1>2 DEF LockAndLook
  <1>3. \/ session'[s].pc = "count"
        \/ session'[s].pc = "upsert" /\ ~session'[s].checked
    BY <1>1 DEF LockAndLook, Sessions
  <1>4. LockHeldOnce' /\ CountsHold'
    BY <1>1, <1>2, <1>3 DEF LockHeldOnce, CountsHold, UnderLock
  <1>5. IsFiniteSet(Present)' /\ AdmissionBound'
    BY DEF LockAndLook, jobVars, AdmitInv, AdmissionBound, AdmittedOf, Present
  <1> QED
    BY <1>4, <1>5 DEF AdmitInv

LEMMA CountQueuedAdmits ==
  ASSUME IInv, AdmitInv, NEW s \in Session, CountQueued(s) PROVE AdmitInv'
  <1>1. /\ RowsInv /\ session \in [Session -> Sessions]
        /\ session[s].pc \in UnderLock
    BY InvSplit DEF SessionInv, CountQueued, UnderLock
  <1>2. ASSUME NEW t \in Session, t # s
        PROVE  session'[t] = session[t] /\ session[t].pc \notin UnderLock
    BY <1>1, <1>2 DEF CountQueued, AdmitInv, LockHeldOnce
  <1>3. \/ session'[s].pc = "idle"
        \/ session'[s].pc = "countClient" /\ Cardinality(InStatus("queued")) < MaxQueued
    <2>1. Cardinality(InStatus("queued")) \in Nat
      BY <1>1, AdmittedAreCounted, FS_CardinalityType DEF AdmitInv
    <2> QED
      BY <1>1, <2>1, NoSessionType, QueueAssumption DEF CountQueued, Sessions
  <1>4. session'[s].pc = "countClient" => Roomy
    <2>1. CASE session'[s].pc = "countClient"
      <3>1. /\ Cardinality(InStatus("queued")) \in Nat
            /\ Cardinality(admitted) \in Nat
            /\ Cardinality(admitted) <= Cardinality(InStatus("queued"))
        BY <1>1, AdmittedAreCounted, FS_CardinalityType DEF AdmitInv
      <3> QED
        BY <1>3, <2>1, <3>1, QueueAssumption DEF Roomy
    <2> QED
      BY <2>1
  <1>5. /\ IsFiniteSet(Present)' /\ AdmissionBound' /\ (Roomy <=> Roomy')
    BY DEF CountQueued, jobVars, AdmitInv, AdmissionBound, AdmittedOf, Present, Roomy
  <1>6. LockHeldOnce' /\ CountsHold'
    BY <1>2, <1>3, <1>4, <1>5 DEF LockHeldOnce, CountsHold, UnderLock
  <1> QED
    BY <1>5, <1>6 DEF AdmitInv

LEMMA CountClientQueuedAdmits ==
  ASSUME IInv, AdmitInv, NEW s \in Session, CountClientQueued(s) PROVE AdmitInv'
  <1>1. /\ RowsInv /\ session \in [Session -> Sessions]
        /\ session[s].pc \in UnderLock /\ Roomy
    BY InvSplit DEF SessionInv, CountClientQueued, UnderLock, AdmitInv, CountsHold
  <1>2. ASSUME NEW t \in Session, t # s
        PROVE  session'[t] = session[t] /\ session[t].pc \notin UnderLock
    BY <1>1, <1>2 DEF CountClientQueued, AdmitInv, LockHeldOnce
  <1>3. PICK c : c = session[s].client
    OBVIOUS
  <1>4. /\ Cardinality(QueuedOf(c)) \in Nat /\ Cardinality(AdmittedOf(c)) \in Nat
        /\ Cardinality(AdmittedOf(c)) <= Cardinality(QueuedOf(c))
    <2>1. QueuedOf(c) \in SUBSET InStatus("queued")
      BY DEF QueuedOf
    <2>2. IsFiniteSet(QueuedOf(c))
      BY <1>1, <2>1, AdmittedAreCounted, FS_Subset DEF AdmitInv
    <2> QED
      BY <1>1, <2>2, AdmittedAreCounted, FS_CardinalityType DEF AdmitInv
  <1>5. \/ session'[s].pc = "idle"
        \/ /\ session'[s].pc = "upsert" /\ session'[s].client = c
           /\ Cardinality(QueuedOf(c)) < MaxQueuedPerClient
    BY <1>1, <1>3, <1>4, NoSessionType, QueueAssumption DEF CountClientQueued, Sessions
  <1>6. session'[s].pc = "upsert" => RoomyFor(c)
    BY <1>4, <1>5, QueueAssumption DEF RoomyFor
  <1>7. /\ IsFiniteSet(Present)' /\ AdmissionBound' /\ Roomy'
        /\ RoomyFor(c) => Cardinality(AdmittedOf(c)') < MaxQueuedPerClient
    BY <1>1 DEF CountClientQueued, jobVars, AdmitInv, AdmissionBound, AdmittedOf,
                Present, Roomy, RoomyFor
  <1>8. session'[s].pc = "upsert" => RoomyFor(session[s].client)'
    BY <1>5, <1>6, <1>7 DEF RoomyFor, AdmittedOf
  <1>9. LockHeldOnce' /\ CountsHold'
    BY <1>2, <1>5, <1>7, <1>8 DEF LockHeldOnce, CountsHold, UnderLock
  <1> QED
    BY <1>7, <1>9 DEF AdmitInv

(* A checked insert takes one of the places that the counts left.           *)
LEMMA UpsertAdmits ==
  ASSUME IInv, AdmitInv, NEW s \in Session, UpsertAndCommit(s) PROVE AdmitInv'
  <1>1. /\ RowsInv /\ JobsTypeOK /\ RowsConsistent
        /\ session \in [Session -> Sessions]
        /\ session[s].pc = "upsert"
    BY InvSplit DEF RowsInv, SessionInv, UpsertAndCommit
  <1>2. PICK q, c, n, checked : /\ q = session[s].query /\ c = session[s].client
                                /\ n = session[s].number /\ checked = session[s].checked
    OBVIOUS
  <1>3. q \in Query /\ checked \in BOOLEAN
    BY <1>1, <1>2, InvSplit DEF SessionInv, SessionsKnow, Sessions
  <1>4. /\ session'[s].pc = "idle"
        /\ \A t \in Session : t # s => session'[t] = session[t]
    BY <1>1, NoSessionType DEF UpsertAndCommit
  <1>5. \A t \in Session : session'[t].pc \notin UnderLock
    BY <1>1, <1>4 DEF AdmitInv, LockHeldOnce, UnderLock
  <1>6. LockHeldOnce' /\ CountsHold'
    BY <1>5 DEF LockHeldOnce, CountsHold, UnderLock
  <1>7. CASE InsertJob(q, c, n, checked)
    <2>1. /\ job[q].status = "absent" /\ q \notin admitted
          /\ job'[q].client = c
          /\ \A p \in Query : p # q => job'[p] = job[p]
          /\ admitted' = IF checked THEN admitted \cup {q} ELSE admitted
      BY <1>1, <1>3, <1>7
         DEF InsertJob, AbsentRow, JobsTypeOK, RowsConsistent, RowConsistent
    <2>2. IsFiniteSet(Present)'
      <3>1. Present' \in SUBSET (Present \cup {q})
        BY <2>1 DEF Present
      <3>2. IsFiniteSet(Present \cup {q})
        BY FS_AddElement DEF AdmitInv
      <3> QED
        BY <3>1, <3>2, FS_Subset
    <2>3. admitted \subseteq Query
      BY <1>1 DEF JobsTypeOK
    <2>4. checked => Roomy /\ RoomyFor(c)
      BY <1>1, <1>2 DEF AdmitInv, CountsHold
    <2>5. Cardinality(admitted') <= MaxQueued
      <3>1. CASE checked
        <4>1. /\ IsFiniteSet(admitted) /\ Cardinality(admitted) \in Nat
              /\ Cardinality(admitted) < MaxQueued
          BY <1>1, <2>4, <3>1, AdmittedAreCounted DEF AdmitInv, Roomy
        <4>2. Cardinality(admitted \cup {q}) = Cardinality(admitted) + 1
          BY <2>1, <4>1, FS_AddElement
        <4> QED
          BY <2>1, <3>1, <4>1, <4>2, QueueAssumption
      <3>2. CASE ~checked
        BY <2>1, <3>2 DEF AdmitInv, AdmissionBound
      <3> QED
        BY <3>1, <3>2
    <2>6. ASSUME NEW d \in Client
          PROVE  Cardinality(AdmittedOf(d)') <= MaxQueuedPerClient
      <3>1. AdmittedOf(d)' = IF checked /\ d = c THEN AdmittedOf(d) \cup {q}
                                                ELSE AdmittedOf(d)
        BY <2>1, <2>3 DEF AdmittedOf
      <3>2. CASE checked /\ d = c
        <4>1. /\ IsFiniteSet(AdmittedOf(d)) /\ Cardinality(AdmittedOf(d)) \in Nat
              /\ Cardinality(AdmittedOf(d)) < MaxQueuedPerClient
          BY <1>1, <2>4, <3>2, AdmittedAreCounted DEF AdmitInv, RoomyFor
        <4>2. q \notin AdmittedOf(d)
          BY <2>1 DEF AdmittedOf
        <4>3. Cardinality(AdmittedOf(d) \cup {q}) = Cardinality(AdmittedOf(d)) + 1
          BY <4>1, <4>2, FS_AddElement
        <4> QED
          BY <3>1, <3>2, <4>1, <4>3, QueueAssumption
      <3>3. CASE ~(checked /\ d = c)
        BY <3>1, <3>3 DEF AdmitInv, AdmissionBound
      <3> QED
        BY <3>2, <3>3
    <2> QED
      BY <1>6, <2>2, <2>5, <2>6 DEF AdmitInv, AdmissionBound
  <1>8. CASE ~InsertJob(q, c, n, checked)
    <2>1. PICK p \in Query, m \in Nat, retry \in BOOLEAN, age \in Nat :
            ReopenJob(p, m, retry, age) \/ UNCHANGED jobVars
      <3>1. /\ session[s].number \in Nat /\ session[s].retry \in BOOLEAN
            /\ session[s].age \in Nat
        BY <1>1, CapFacts DEF Sessions
      <3>2. \/ ReopenJob(q, n, session[s].retry, session[s].age)
            \/ UNCHANGED jobVars
        BY <1>2, <1>8 DEF UpsertAndCommit, KeepJob
      <3>3. CASE ReopenJob(q, n, session[s].retry, session[s].age)
        BY <1>2, <1>3, <3>1, <3>3
      <3>4. CASE UNCHANGED jobVars
        BY <1>2, <1>3, <3>1, <3>4
      <3> QED
        BY <3>2, <3>3, <3>4
    <2>2. NothingNew
      BY <1>1, <2>1, StatementsAdmitNone
    <2>3. SessionsKept
      BY <1>5 DEF SessionsKept
    <2> QED
      BY <1>1, <2>2, <2>3, FrameKeepsAdmit
  <1> QED
    BY <1>7, <1>8

-----------------------------------------------------------------------------

LEMMA StepKeepsAdmit ==
  ASSUME IInv, AdmitInv, [Next]_vars PROVE AdmitInv'
  <1>1. /\ RowsInv /\ JobsTypeOK /\ RowsConsistent
        /\ session \in [Session -> Sessions] /\ task \in [Worker -> Tasks]
    BY InvSplit DEF RowsInv, SessionInv, WorkerInv
  <1>2. ASSUME UNCHANGED session PROVE SessionsKept
    BY <1>2 DEF SessionsKept
  <1>3. ASSUME NEW s \in Session, BeginEnqueue(s) \/ AbortEnqueue(s)
        PROVE  AdmitInv'
    <2>1. UNCHANGED jobVars
      BY <1>3 DEF BeginEnqueue, AbortEnqueue
    <2>2. ASSUME NEW t \in Session, t # s PROVE session'[t] = session[t]
      BY <1>1, <1>3, <2>2 DEF BeginEnqueue, AbortEnqueue
    <2>3. session'[s].pc \notin UnderLock
      BY <1>1, <1>3, NoSessionType DEF BeginEnqueue, AbortEnqueue, UnderLock, NoSession
    <2>4. SessionsKept
      BY <2>2, <2>3 DEF SessionsKept
    <2> QED
      BY <1>1, <2>1, <2>4, StatementsAdmitNone, FrameKeepsAdmit
  <1>4. ASSUME NEW s \in Session, SessionStep(s) PROVE AdmitInv'
    BY <1>4, LockAndLookAdmits, CountQueuedAdmits, CountClientQueuedAdmits, UpsertAdmits
       DEF SessionStep
  <1>5. ASSUME NEW w \in Worker, WorkerStep(w), ~RecordOutcome(w) PROVE AdmitInv'
    <2>1. \/ PruneFinishedTraceJobs \/ RecoverExpiredTraceJobs \/ UNCHANGED jobVars
          \/ \E q \in Query : ClaimTraceJob(q)
      BY <1>5 DEF WorkerStep, PruneFinished, SkipPrune, RecoverExpired, ClaimJob,
                  ClaimNothing, ClaimFails, ResolveGraph, Backoff, PollWait, jobVars
    <2>2. UNCHANGED session
      BY <1>5 DEF WorkerStep, PruneFinished, SkipPrune, RecoverExpired, ClaimJob,
                  ClaimNothing, ClaimFails, ResolveGraph, Backoff, PollWait
    <2> QED
      BY <1>1, <1>2, <2>1, <2>2, StatementsAdmitNone, FrameKeepsAdmit
  <1>6. ASSUME NEW w \in Worker, RecordOutcome(w) PROVE AdmitInv'
    <2>1. PICK q, id, n : q = task[w].query /\ id = task[w].id /\ n = task[w].accepted
      OBVIOUS
    <2>2. q \in Query /\ id \in Nat /\ n \in Nat
      BY <1>1, <1>6, <2>1, InvSplit
         DEF WorkerInv, WorkersKnow, RecordOutcome, At, Holds, Holding, Tasks
    <2>3. \/ FailTraceJob(q, id) \/ RequeueTraceJob(q, id)
          \/ CompleteTraceJob(q, id, n) \/ UNCHANGED jobVars
      BY <1>6, <2>1 DEF RecordOutcome
    <2>4. UNCHANGED session
      BY <1>6 DEF RecordOutcome
    <2> QED
      BY <1>1, <1>2, <2>2, <2>3, <2>4, StatementsAdmitNone, FrameKeepsAdmit
  <1>7. ASSUME NEW w \in Worker,
               Shutdown(w) \/ Crash(w) \/ Restart(w) \/ Stall(w) \/ Resume(w)
        PROVE  AdmitInv'
    <2>1. UNCHANGED <<jobVars, session>>
      BY <1>7 DEF Shutdown, Crash, Restart, Stall, Resume
    <2> QED
      BY <1>1, <1>2, <2>1, StatementsAdmitNone, FrameKeepsAdmit
  <1>8. CASE Tick
    <2>1. JobsTick
      BY <1>8 DEF Tick
    <2>2. ASSUME NEW s \in Session
          PROVE  /\ session'[s].pc = session[s].pc
                 /\ session'[s].checked = session[s].checked
                 /\ session'[s].client = session[s].client
      BY <1>1, <1>8 DEF Tick, Sessions
    <2>3. SessionsKept
      BY <2>2 DEF SessionsKept
    <2> QED
      BY <1>1, <2>1, <2>3, StatementsAdmitNone, FrameKeepsAdmit
  <1>9. CASE UNCHANGED vars
    <2>1. UNCHANGED <<jobVars, session>>
      BY <1>9 DEF vars
    <2> QED
      BY <1>1, <1>2, <2>1, StatementsAdmitNone, FrameKeepsAdmit
  <1> QED
    BY <1>3, <1>4, <1>5, <1>6, <1>7, <1>8, <1>9 DEF Next

(* The traces that wait for their first claim stay within the capacity of   *)
(* the network and of each client, whatever requests and workers interleave *)
(* (db/jobs.go:43-71).                                                      *)
THEOREM AdmissionIsBounded == Spec => []AdmissionBound
  <1>1. Init => AdmitInv
    <2>1. SUFFICES ASSUME Init PROVE AdmitInv
      OBVIOUS
    <2>2. Present = {} /\ admitted = {} /\ \A c : AdmittedOf(c) = {}
      BY <2>1 DEF Init, JobsInit, AbsentRow, Present, AdmittedOf
    <2>3. \A s \in Session : session[s].pc = "idle"
      BY <2>1, NoSessionType DEF Init
    <2> QED
      BY <2>2, <2>3, FS_EmptySet, QueueAssumption
         DEF AdmitInv, AdmissionBound, LockHeldOnce, CountsHold, UnderLock
  <1>2. IInv /\ AdmitInv /\ [Next]_vars => AdmitInv'
    BY StepKeepsAdmit
  <1>3. AdmitInv => AdmissionBound
    BY DEF AdmitInv
  <1> QED
    BY <1>1, <1>2, <1>3, InductiveInvariant, PTL DEF Spec

-----------------------------------------------------------------------------
(***************************************************************************)
(* The queue implements TraceService: every SQL statement is, to a caller  *)
(* who only sees pending and answered traces, a step of the service or no  *)
(* step at all.  The sessions, the workers and their faults change what is *)
(* seen only through these statements.                                     *)
(***************************************************************************)

Trace == [q \in Query |-> Seen(job[q].status)]

LEMMA SeenValues ==
  /\ Seen("absent") = "unknown"
  /\ Seen("queued") = "pending"
  /\ Seen("running") = "pending"
  /\ Seen("succeeded") = "succeeded"
  /\ Seen("failed") = "failed"
  BY DEF Seen, Finished

(* A statement that writes the row of q alone is seen as one write.         *)
LEMMA SeenOneRow ==
  ASSUME NEW q \in Query, NEW r, NEW v, job \in [Query -> Row],
         job' = [job EXCEPT ![q] = r], Seen(r.status) = v
  PROVE  Trace' = [Trace EXCEPT ![q] = v]
  BY DEF Trace

LEMMA InsertIsAccept ==
  ASSUME JobsTypeOK, NEW q \in Query, NEW c \in Client, NEW n \in Nat,
         NEW checked \in BOOLEAN, InsertJob(q, c, n, checked)
  PROVE  Service!Accept(q)
  <1>1. PICK r : r = [AbsentRow EXCEPT !.status = "queued", !.id = n, !.client = c]
    OBVIOUS
  <1>2. job' = [job EXCEPT ![q] = r] /\ job[q].status = "absent"
    BY <1>1 DEF InsertJob
  <1>3. Trace' = [Trace EXCEPT ![q] = "pending"]
    <2>1. Seen(r.status) = "pending"
      BY <1>1, SeenValues DEF AbsentRow
    <2> QED
      BY <1>2, <2>1, SeenOneRow DEF JobsTypeOK
  <1>4. Trace[q] = "unknown"
    BY <1>2, SeenValues DEF Trace
  <1> QED
    BY <1>3, <1>4 DEF Service!Accept, Trace

LEMMA ReopenIsAccept ==
  ASSUME JobsTypeOK, NEW q \in Query, NEW n \in Nat, NEW retry \in BOOLEAN,
         NEW age \in Nat, ReopenJob(q, n, retry, age)
  PROVE  Service!Accept(q)
  <1>1. PICK r : r = [job[q] EXCEPT !.status = "queued", !.result = 0,
                                    !.error = "none", !.completed = NoTime]
    OBVIOUS
  <1>2. job' = [job EXCEPT ![q] = r] /\ job[q].status \in {"succeeded", "failed"}
    BY <1>1 DEF ReopenJob, Reopens, Stale, JobsTypeOK
  <1>3. Trace' = [Trace EXCEPT ![q] = "pending"]
    <2>1. Seen(r.status) = "pending"
      BY <1>1, SeenValues DEF JobsTypeOK, Row
    <2> QED
      BY <1>2, <2>1, SeenOneRow DEF JobsTypeOK
  <1>4. Trace[q] \in {"succeeded", "failed"}
    BY <1>2, SeenValues DEF Trace
  <1> QED
    BY <1>3, <1>4 DEF Service!Accept, Service!Answers, Trace

(* Complete and Fail find a running row and settle its trace, or find none  *)
(* and change nothing.                                                      *)
LEMMA AnswerIsSettle ==
  ASSUME JobsTypeOK, NEW q \in Query, NEW id \in Nat, NEW n \in Nat,
         CompleteTraceJob(q, id, n) \/ FailTraceJob(q, id)
  PROVE  Service!Settle(q) \/ UNCHANGED Trace
  <1>1. CASE ~Matches(q, id)
    BY <1>1 DEF CompleteTraceJob, FailTraceJob, Trace
  <1>2. CASE Matches(q, id)
    <2>1. PICK r : /\ job' = [job EXCEPT ![q] = r]
                   /\ r.status \in {"succeeded", "failed"}
      <3>1. CASE CompleteTraceJob(q, id, n)
        <4> DEFINE r == [job[q] EXCEPT !.status = "succeeded", !.result = n,
                                       !.error = "none", !.lease = NoTime,
                                       !.completed = 0]
        <4>1. r.status = "succeeded"
          BY DEF JobsTypeOK, Row
        <4>2. job' = [job EXCEPT ![q] = r]
          BY <1>2, <3>1 DEF CompleteTraceJob
        <4> QED
          BY <4>1, <4>2
      <3>2. CASE FailTraceJob(q, id)
        <4> DEFINE r == [job[q] EXCEPT !.status = "failed", !.error = "message",
                                       !.lease = NoTime, !.completed = 0]
        <4>1. r.status = "failed"
          BY DEF JobsTypeOK, Row
        <4>2. job' = [job EXCEPT ![q] = r]
          BY <1>2, <3>2 DEF FailTraceJob
        <4> QED
          BY <4>1, <4>2
      <3> QED
        BY <3>1, <3>2
    <2>2. Trace' = [Trace EXCEPT ![q] = r.status]
      <3>1. Seen(r.status) = r.status
        BY <2>1, SeenValues
      <3> QED
        BY <2>1, <3>1, SeenOneRow DEF JobsTypeOK
    <2>3. Trace[q] = "pending"
      BY <1>2, SeenValues DEF Trace, Matches
    <2> QED
      BY <2>1, <2>2, <2>3 DEF Service!Settle, Service!Answers, Trace
  <1> QED
    BY <1>1, <1>2

(* A claim, a recovery and a requeue move a row between queued and running: *)
(* the caller sees nothing; neither does the clock show.                    *)
LEMMA MoveIsUnseen ==
  ASSUME JobsTypeOK,
         \/ \E q \in Query : ClaimTraceJob(q)
         \/ \E q \in Query, id \in Nat : RequeueTraceJob(q, id)
         \/ RecoverExpiredTraceJobs
         \/ JobsTick
         \/ UNCHANGED jobVars
  PROVE  UNCHANGED Trace
  <1>1. SUFFICES ASSUME NEW p \in Query
                 PROVE  Seen(job'[p].status) = Seen(job[p].status)
    BY DEF Trace
  <1>2. \/ job'[p].status = job[p].status
        \/ /\ job[p].status \in {"queued", "running"}
           /\ job'[p].status \in {"queued", "running"}
    <2> USE DEF JobsTypeOK, Row
    <2>1. CASE \E q \in Query : ClaimTraceJob(q)
      BY <2>1 DEF ClaimTraceJob, Claimable
    <2>2. CASE \E q \in Query, id \in Nat : RequeueTraceJob(q, id)
      BY <2>2 DEF RequeueTraceJob, Matches
    <2>3. CASE RecoverExpiredTraceJobs
      BY <2>3 DEF RecoverExpiredTraceJobs, LeaseExpired
    <2>4. CASE JobsTick
      BY <2>4 DEF JobsTick
    <2>5. CASE UNCHANGED jobVars
      BY <2>5 DEF jobVars
    <2> QED
      BY <2>1, <2>2, <2>3, <2>4, <2>5
  <1> QED
    BY <1>2, SeenValues

LEMMA PruneIsForget ==
  ASSUME JobsTypeOK, PruneFinishedTraceJobs PROVE Service!Forget
  <1> DEFINE old == {q \in Query : Expired(q)}
  <1>1. \A q \in Query : Trace[q] = Seen(job[q].status)
    BY DEF Trace
  <1>2. \A q \in old : Trace[q] \in Service!Answers
    BY <1>1, SeenValues DEF Expired, Finished, Service!Answers
  <1>3. Trace' = [q \in Query |-> IF q \in old THEN "unknown" ELSE Trace[q]]
    <2>1. \A q \in Query : Seen(job'[q].status) = IF q \in old THEN "unknown"
                                                  ELSE Seen(job[q].status)
      BY SeenValues DEF PruneFinishedTraceJobs, AbsentRow
    <2> QED
      BY <2>1 DEF Trace
  <1>4. old \in SUBSET {q \in Query : Trace[q] \in Service!Answers}
    BY <1>2
  <1> QED
    BY <1>3, <1>4 DEF Service!Forget, Trace

LEMMA UpsertIsSeen ==
  ASSUME IInv, NEW s \in Session, UpsertAndCommit(s)
  PROVE  Service!Next \/ UNCHANGED Trace
  <1>1. JobsTypeOK
    BY DEF IInv, TypeOK
  <1>2. PICK q \in Query, c \in Client, n \in Nat \ {0}, retry \in BOOLEAN,
             checked \in BOOLEAN, age \in Nat :
          \/ InsertJob(q, c, n, checked)
          \/ ReopenJob(q, n, retry, age)
          \/ KeepJob(q, retry, age)
    BY UpsertIsAStatement
  <1>3. CASE InsertJob(q, c, n, checked)
    BY <1>1, <1>3, InsertIsAccept DEF Service!Next
  <1>4. CASE ReopenJob(q, n, retry, age)
    BY <1>1, <1>4, ReopenIsAccept DEF Service!Next
  <1>5. CASE KeepJob(q, retry, age)
    BY <1>1, <1>5, MoveIsUnseen DEF KeepJob
  <1> QED
    BY <1>2, <1>3, <1>4, <1>5

LEMMA RecordIsSeen ==
  ASSUME IInv, NEW w \in Worker, RecordOutcome(w)
  PROVE  Service!Next \/ UNCHANGED Trace
  <1>1. JobsTypeOK /\ task \in [Worker -> Tasks]
    BY DEF IInv, TypeOK
  <1>2. PICK q, id, n : q = task[w].query /\ id = task[w].id /\ n = task[w].accepted
    OBVIOUS
  <1>3. q \in Query /\ id \in Nat /\ n \in Nat
    <2>1. Holds(w)
      BY DEF RecordOutcome, At, Holds, Holding
    <2> QED
      BY <1>1, <1>2, <2>1 DEF IInv, WorkersKnow, Tasks
  <1>4. \/ FailTraceJob(q, id) \/ RequeueTraceJob(q, id) \/ UNCHANGED jobVars
        \/ CompleteTraceJob(q, id, n)
    BY <1>2 DEF RecordOutcome
  <1>5. CASE CompleteTraceJob(q, id, n) \/ FailTraceJob(q, id)
    BY <1>1, <1>3, <1>5, AnswerIsSettle DEF Service!Next
  <1>6. CASE RequeueTraceJob(q, id) \/ UNCHANGED jobVars
    BY <1>1, <1>3, <1>6, MoveIsUnseen
  <1> QED
    BY <1>4, <1>5, <1>6

LEMMA StepIsSeen ==
  ASSUME IInv, [Next]_vars PROVE Service!Next \/ UNCHANGED Trace
  <1>1. JobsTypeOK
    BY DEF IInv, TypeOK
  <1>2. ASSUME NEW s \in Session,
               BeginEnqueue(s) \/ SessionStep(s) \/ AbortEnqueue(s)
        PROVE  Service!Next \/ UNCHANGED Trace
    <2>1. CASE UpsertAndCommit(s)
      BY <2>1, UpsertIsSeen
    <2>2. CASE ~UpsertAndCommit(s)
      <3>1. UNCHANGED jobVars
        BY <1>2, <2>2 DEF BeginEnqueue, SessionStep, LockAndLook, CountQueued,
                          CountClientQueued, AbortEnqueue, jobVars
      <3> QED
        BY <1>1, <3>1, MoveIsUnseen
    <2> QED
      BY <2>1, <2>2
  <1>3. ASSUME NEW w \in Worker, WorkerStep(w)
        PROVE  Service!Next \/ UNCHANGED Trace
    <2>1. CASE RecordOutcome(w)
      BY <2>1, RecordIsSeen
    <2>2. CASE ~RecordOutcome(w)
      <3>1. \/ PruneFinishedTraceJobs
            \/ RecoverExpiredTraceJobs \/ UNCHANGED jobVars
            \/ \E q \in Query : ClaimTraceJob(q)
        BY <1>3, <2>2
           DEF WorkerStep, PruneFinished, SkipPrune, RecoverExpired, ClaimJob,
               ClaimNothing, ClaimFails, ResolveGraph, Backoff, PollWait, jobVars
      <3> QED
        BY <1>1, <3>1, MoveIsUnseen, PruneIsForget DEF Service!Next
    <2> QED
      BY <2>1, <2>2
  <1>4. ASSUME NEW w \in Worker,
               Shutdown(w) \/ Crash(w) \/ Restart(w) \/ Stall(w) \/ Resume(w)
        PROVE  UNCHANGED Trace
    <2>1. UNCHANGED jobVars
      BY <1>4 DEF Shutdown, Crash, Restart, Stall, Resume, jobVars
    <2> QED
      BY <1>1, <2>1, MoveIsUnseen
  <1>5. CASE Tick
    BY <1>1, <1>5, MoveIsUnseen DEF Tick
  <1>6. CASE UNCHANGED vars
    BY <1>1, <1>6, MoveIsUnseen DEF vars
  <1> QED
    BY <1>2, <1>3, <1>4, <1>5, <1>6 DEF Next

(* The queue implements the abstract service, whatever processes crash,     *)
(* stall or fail, for any number of them (db/jobs.go, tracing/queue.go).    *)
THEOREM QueueImplementsService == Spec => ImplementsService
  <1>1. Init => Service!Init
    BY SeenValues DEF Init, JobsInit, AbsentRow, Service!Init
  <1>2. IInv /\ [Next]_vars => [Service!Next]_Trace
    BY StepIsSeen
  <1> QED
    BY <1>1, <1>2, InductiveInvariant, PTL DEF Spec, ImplementsService, Service!Spec, Trace

=============================================================================
