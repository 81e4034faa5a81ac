----------------------------- MODULE ClaimQueue -----------------------------
(***************************************************************************)
(* The row locks of the runtime kernel: claims, heartbeats and reports as  *)
(* transactions of several statements, each of which may wait for a row    *)
(* another transaction has locked (app/services/runtime_claim_service.py   *)
(* and its siblings, app/repositories).                                    *)
(*                                                                         *)
(* A claim locks the worker's row, then a window of claimable jobs,        *)
(* skipping those that are locked; a heartbeat or a report locks the       *)
(* lease, the job, the attempt and the worker's row, in this order.  What  *)
(* a transaction writes is seen when it commits.  RuntimeLease takes each  *)
(* of these transactions for one step; this module shows what for.         *)
(*                                                                         *)
(* An attempt's row is locked only by a transaction that has its lease     *)
(* locked, and has no lock here.                                           *)
(***************************************************************************)
EXTENDS Integers, FiniteSets

CONSTANTS
    Jobs,           \* numbers, in the order of priority and creation
    Workers, NoWorker,
    Sessions,       \* a session claims at most one job: it stands for its token
    NoSession,
    WorkerOf,       \* the worker each session speaks for
    Registered,     \* the workers that have a row at the start
    Capacity,       \* max_concurrency
    CanDo,          \* the jobs whose capability tags a worker has
    Window          \* candidate_window (25 in the code)

ASSUME SessionsAreTyped ==
    /\ Jobs \subseteq Nat \ {0} /\ IsFiniteSet(Jobs)
    /\ NoWorker \notin Workers /\ NoSession \notin Sessions
    /\ WorkerOf \in [Sessions -> Workers]
    /\ Registered \subseteq Workers
    /\ Capacity \in [Workers -> Nat] /\ CanDo \in [Workers -> SUBSET Jobs]
    /\ Window \in Nat \ {0}

VARIABLES
    job,        \* status of the jobs and the token that holds them
    lease,      \* the job of each active lease
    worker,     \* the workers that have a row
    load,       \* current_job_count
    jobLock, leaseLock, workerLock, \* which transaction has a row locked
    session

rows == <<job, lease, worker, load>>
locks == <<jobLock, leaseLock, workerLock>>
vars == <<job, lease, worker, load, jobLock, leaseLock, workerLock, session>>

----------------------------------------------------------------------------
NoJob == 0

Phases ==
    {"start", "absent", "locked", "picked",             \* a claim
     "holding",                                         \* its job is being worked on
     "reporting", "leaseLocked", "jobLocked", "allLocked", \* a heartbeat or a report
     "done"}

Init ==
    /\ job = [j \in Jobs |-> [status |-> "QUEUED", token |-> NoSession]]
    /\ lease = [t \in Sessions |-> NoJob]
    /\ worker = Registered
    /\ load = [w \in Workers |-> 0]
    /\ jobLock = [j \in Jobs |-> NoSession]
    /\ leaseLock = [t \in Sessions |-> NoSession]
    /\ workerLock = [w \in Workers |-> NoSession]
    /\ session = [s \in Sessions |-> [phase |-> "start", job |-> NoJob, token |-> NoSession]]

At(s, phase) == session[s].phase = phase

Goto(s, phase) == session' = [session EXCEPT ![s].phase = phase]

\* The end of a transaction, by commit or by rollback.
ReleaseLocks(s) ==
    /\ jobLock' = [j \in Jobs |-> IF jobLock[j] = s THEN NoSession ELSE jobLock[j]]
    /\ leaseLock' = [t \in Sessions |-> IF leaseLock[t] = s THEN NoSession ELSE leaseLock[t]]
    /\ workerLock' = [w \in Workers |-> IF workerLock[w] = s THEN NoSession ELSE workerLock[w]]

Rollback(s) == ReleaseLocks(s) /\ Goto(s, "done") /\ UNCHANGED rows

----------------------------------------------------------------------------
(* claim_job *)

\* The first look for the worker's row finds none, and locks nothing.
FindNoWorker(s) ==
    /\ At(s, "start")
    /\ WorkerOf[s] \notin worker
    /\ Goto(s, "absent")
    /\ UNCHANGED <<rows, locks>>

\* The row is locked, or inserted, which waits for another insert of the same key.
LockWorker(s) ==
    /\ \/ At(s, "start") /\ WorkerOf[s] \in worker
       \/ At(s, "absent")
    /\ workerLock[WorkerOf[s]] = NoSession
    /\ workerLock' = [workerLock EXCEPT ![WorkerOf[s]] = s]
    /\ Goto(s, "locked")
    /\ UNCHANGED <<rows, jobLock, leaseLock>>

\* The insert that waited is refused: the other one has committed.  (LockWorker is the
\* case where the second look came after that commit.)
InsertRefused(s) ==
    /\ At(s, "absent")
    /\ WorkerOf[s] \in worker
    /\ workerLock[WorkerOf[s]] = NoSession
    /\ Rollback(s)

\* Mutant: the refusal leaves the transaction open.
RefuseAndStay(s) ==
    /\ At(s, "locked")
    /\ load[WorkerOf[s]] >= Capacity[WorkerOf[s]]
    /\ Goto(s, "done")
    /\ UNCHANGED <<rows, locks>>

\* _assert_worker_claimable
Refuse(s) ==
    /\ At(s, "locked")
    /\ load[WorkerOf[s]] >= Capacity[WorkerOf[s]]
    /\ Rollback(s)

\* Mutant: the query locks nothing and skips nothing.
ReadCandidates(s) ==
    LET open == {j \in Jobs : job[j].status = "QUEUED"}
    IN {j \in open : Cardinality({i \in open : i < j}) < Window}

\* The query skips locked rows and is cut to the window before tags are compared.
Candidates(s) ==
    LET open == {j \in Jobs : job[j].status = "QUEUED" /\ jobLock[j] = NoSession}
    IN {j \in open : Cardinality({i \in open : i < j}) < Window}

\* get_claimable_job_for_update: every row of the window is locked, and the first that
\* the worker is capable of is taken.
PickJob(s) ==
    /\ At(s, "locked")
    /\ load[WorkerOf[s]] < Capacity[WorkerOf[s]]
    /\ LET found == Candidates(s)
           fit == found \cap CanDo[WorkerOf[s]]
       IN /\ jobLock' = [j \in Jobs |-> IF j \in found THEN s ELSE jobLock[j]]
          /\ \E j \in IF fit = {} THEN {NoJob} ELSE fit :
                /\ \A i \in fit : j <= i
                /\ session' = [session EXCEPT ![s].phase = "picked", ![s].job = j]
    /\ UNCHANGED <<rows, leaseLock, workerLock>>

\* mark_claimed, create_attempt, create_lease and increment_current_job_count are
\* committed; without a job only the worker's row is.
CommitClaim(s) ==
    /\ At(s, "picked")
    /\ worker' = worker \cup {WorkerOf[s]}
    /\ LET j == session[s].job IN
       IF j = NoJob
       THEN Goto(s, "done") /\ UNCHANGED <<job, lease, load>>
       ELSE /\ job' = [job EXCEPT ![j] = [status |-> "CLAIMED", token |-> s]]
            /\ lease' = [lease EXCEPT ![s] = j]
            /\ load' = [load EXCEPT ![WorkerOf[s]] = @ + 1]
            /\ Goto(s, "holding")
    /\ ReleaseLocks(s)

----------------------------------------------------------------------------
(* heartbeat, complete_job, fail_job *)

\* A report of a claim of this worker: its own, or a repetition of another one.
StartReport(s) ==
    /\ At(s, "holding")
    /\ \E t \in Sessions :
          /\ WorkerOf[t] = WorkerOf[s]
          /\ session' = [session EXCEPT ![s].phase = "reporting", ![s].token = t]
    /\ UNCHANGED <<rows, locks>>

\* The active lease of the token is locked.  The query waits for a locked row and then
\* looks again; without a lease it ends at once.
LockLease(s) ==
    LET t == session[s].token IN
    /\ At(s, "reporting")
    /\ leaseLock[t] = NoSession
    /\ IF lease[t] = NoJob
       THEN Rollback(s)
       ELSE /\ leaseLock' = [leaseLock EXCEPT ![t] = s]
            /\ Goto(s, "leaseLocked")
            /\ UNCHANGED <<rows, jobLock, workerLock>>

\* The job is locked, and its active_claim_token compared.
LockJob(s) ==
    LET t == session[s].token
        j == lease[t]
    IN
    /\ At(s, "leaseLocked")
    /\ jobLock[j] = NoSession
    /\ IF job[j].token # t
       THEN Rollback(s)
       ELSE /\ jobLock' = [jobLock EXCEPT ![j] = s]
            /\ Goto(s, "jobLocked")
            /\ UNCHANGED <<rows, leaseLock, workerLock>>

LockOwnWorker(s) ==
    /\ At(s, "jobLocked")
    /\ workerLock[WorkerOf[s]] = NoSession
    /\ workerLock' = [workerLock EXCEPT ![WorkerOf[s]] = s]
    /\ Goto(s, "allLocked")
    /\ UNCHANGED <<rows, jobLock, leaseLock>>

\* A heartbeat leaves the job as it is, a completion or a failure ends it, a failure
\* with next_status WAITING_RETRY opens it for claims again.
CommitReport(s) ==
    LET t == session[s].token
        j == lease[t]
    IN
    /\ At(s, "allLocked")
    /\ \/ UNCHANGED rows
       \/ /\ \E status \in {"ENDED", "QUEUED"} : job' = [job EXCEPT ![j].status = status]
          /\ lease' = [lease EXCEPT ![t] = NoJob]
          /\ load' = [load EXCEPT ![WorkerOf[s]] = IF @ > 0 THEN @ - 1 ELSE 0]
          /\ UNCHANGED worker
    /\ ReleaseLocks(s)
    /\ Goto(s, "done")

----------------------------------------------------------------------------
InTransaction(s) ==
    session[s].phase \in {"absent", "locked", "picked", "leaseLocked", "jobLocked", "allLocked"}

\* The process or its connection is gone, and the database rolls back.
Abort(s) == InTransaction(s) /\ Rollback(s)

Step(s) ==
    \/ FindNoWorker(s) \/ LockWorker(s) \/ InsertRefused(s) \/ Refuse(s)
    \/ PickJob(s) \/ CommitClaim(s)
    \/ LockLease(s) \/ LockJob(s) \/ LockOwnWorker(s) \/ CommitReport(s)

Next == \E s \in Sessions : Step(s) \/ StartReport(s) \/ Abort(s)

Spec == Init /\ [][Next]_vars

\* A request is worked on until it ends, a waiting one when its row is free.  Nothing
\* is assumed of the workers: they may never report.
FairSpec == Spec /\ \A s \in Sessions : WF_vars(Step(s))

----------------------------------------------------------------------------
(* Properties *)

TypeOK ==
    /\ job \in [Jobs -> [status: {"QUEUED", "CLAIMED", "ENDED"}, token: Sessions \cup {NoSession}]]
    /\ lease \in [Sessions -> Jobs \cup {NoJob}]
    /\ worker \subseteq Workers
    /\ load \in [Workers -> Nat]
    /\ jobLock \in [Jobs -> Sessions \cup {NoSession}]
    /\ leaseLock \in [Sessions -> Sessions \cup {NoSession}]
    /\ workerLock \in [Workers -> Sessions \cup {NoSession}]
    /\ session \in [Sessions -> [phase: Phases, job: Jobs \cup {NoJob},
                                 token: Sessions \cup {NoSession}]]

Holder(j) == IF job[j].status = "CLAIMED" THEN WorkerOf[job[j].token] ELSE NoWorker

Rules == INSTANCE ClaimRules WITH
    holder <- [j \in Jobs |-> Holder(j)],
    ended <- {j \in Jobs : job[j].status = "ENDED"}

\* The locks make one step of each transaction: whatever statements of others come in
\* between, a claim takes a job that is still queued with a slot that is still free,
\* and only the holder of a job ends it or puts it back.
FollowsTheRules == Rules!Spec

\* Nobody waits for ever: locks are taken in orders that cannot close a circle and
\* are given back, so that every request ends, also when it waits for several others.
RequestsEnd ==
    \A s \in Sessions :
        session[s].phase \notin {"holding", "done"} ~> session[s].phase \in {"holding", "done"}

=============================================================================
