---------------------------- MODULE RuntimeLease ----------------------------
(***************************************************************************)
(* The runtime kernel: workers claim runtime jobs under a lease, keep the  *)
(* lease alive with heartbeats and report the end of the attempt           *)
(* (app/services/runtime_{claim,heartbeat,complete,fail}_service.py over   *)
(* app/repositories).                                                      *)
(*                                                                         *)
(* Every service runs in one database transaction that reads each row FOR  *)
(* UPDATE before it writes it, and rolls back on any error.  A committed   *)
(* call is therefore one step, a rejected one changes nothing.  What is    *)
(* not inside the transaction is the time: a service takes "now" before it *)
(* waits for its locks, so a step may use a clock reading up to MaxLag old.*)
(*                                                                         *)
(* One claim creates an attempt row, a lease row and a claim token, each   *)
(* with a fresh unique identifier that never changes.  One member of       *)
(* Claims stands for the three of them.                                    *)
(***************************************************************************)
EXTENDS Integers, FiniteSets

CONSTANTS
    Jobs, Workers, Claims,
    NoWorker, NoClaim,      \* the null claimed_by_worker_id and token
    LeaseTimeouts,          \* lease lifetimes a job or an override may carry
    LongestTimeout,         \* a bound on LeaseTimeouts
    MaxExtensions,          \* lease_max_extensions
    Concurrencies,          \* values of max_concurrency in claim requests
    Healths,                \* the health statuses in use
    MaxClock,               \* bound on the clock
    MaxLag                  \* bound on the age of a service's "now"

ASSUME TimesAreNatural ==
    /\ LongestTimeout \in Nat
    /\ LeaseTimeouts \subseteq 1..LongestTimeout
    /\ MaxExtensions \in Nat
    /\ MaxClock \in Nat
    /\ MaxLag \in Nat

ASSUME ConcurrencyIsPositive == Concurrencies \subseteq Nat \ {0}

ASSUME NullsAreDistinct == NoWorker \notin Workers /\ NoClaim \notin Claims

HealthStatuses == {"STARTING", "HEALTHY", "DEGRADED", "DRAINING", "OFFLINE"}

ASSUME HealthsAreStatuses == Healths \subseteq HealthStatuses /\ "HEALTHY" \in Healths

VARIABLES
    job,        \* runtime_jobs rows; status "ABSENT" before the row exists
    attempt,    \* job_attempts rows, by claim
    lease,      \* worker_leases rows, by claim
    worker,     \* worker_registry rows
    clock

vars == <<job, attempt, lease, worker, clock>>

----------------------------------------------------------------------------
TerminalJobStatuses ==
    {"SUCCEEDED", "FAILED", "CANCELLED", "SUPERSEDED", "STALE", "DEAD_LETTERED"}

JobStatuses ==
    {"ABSENT", "CREATED", "QUEUED", "CLAIMED", "RUNNING", "WAITING_RETRY",
     "CANCEL_REQUESTED"} \cup TerminalJobStatuses

ClaimableStatuses == {"QUEUED", "WAITING_RETRY"}

ActiveAttemptStatuses ==
    {"CLAIMED", "STARTED", "PROVIDER_RUNNING", "ARTIFACT_COLLECTING"}

FailedAttemptStatuses == {"FAILED", "TIMED_OUT", "STALE"}

AttemptStatuses == ActiveAttemptStatuses \cup FailedAttemptStatuses \cup {"COMPLETED"}

LeaseStatuses == {"ACTIVE", "RELEASED", "EXPIRED", "REVOKED"}

BlockedHealthStatuses == {"DRAINING", "OFFLINE"}

FailureNextStatuses == {"FAILED", "WAITING_RETRY", "STALE"}

NoTime == -1

JobRows ==
    [status: JobStatuses, claimedBy: Workers \cup {NoWorker},
     token: Claims \cup {NoClaim}, attemptCount: Nat,
     leaseUntil: Nat \cup {NoTime}, cancelRequested: BOOLEAN]

AttemptRows == [job: Jobs, worker: Workers, index: Nat, status: AttemptStatuses]

LeaseRows ==
    [job: Jobs, worker: Workers, status: LeaseStatuses,
     startedAt: Nat, until: Nat, extensions: Nat]

WorkerRows ==
    [registered: BOOLEAN, health: HealthStatuses, count: Nat, max: Nat]

----------------------------------------------------------------------------
Init ==
    /\ job = [j \in Jobs |->
                [status |-> "ABSENT", claimedBy |-> NoWorker, token |-> NoClaim,
                 attemptCount |-> 0, leaseUntil |-> NoTime, cancelRequested |-> FALSE]]
    /\ attempt = [c \in {} |-> 0]
    /\ lease = [c \in {} |-> 0]
    /\ worker = [w \in Workers |->
                   [registered |-> FALSE, health |-> "HEALTHY", count |-> 0, max |-> 1]]
    /\ clock = 0

\* A committed INSERT: the table with one more row.
Insert(rows, id, row) ==
    [x \in DOMAIN rows \cup {id} |-> IF x = id THEN row ELSE rows[x]]

\* The clock readings a service that commits now may have taken.
Nows == {at \in 0..clock : at + MaxLag >= clock}

\* create_job: a producer inserts the row, QUEUED or with the default status.
CreateJob(j, status) ==
    /\ job[j].status = "ABSENT"
    /\ job' = [job EXCEPT ![j].status = status]
    /\ UNCHANGED <<attempt, lease, worker, clock>>

----------------------------------------------------------------------------
(* claim_job *)

\* Mutants: registering again resets the count; registering again makes healthy.
RegisteredAnew(w, conc) == [worker[w] EXCEPT !.registered = TRUE, !.max = conc, !.count = 0]
RegisteredHealthy(w, conc) ==
    [worker[w] EXCEPT !.registered = TRUE, !.max = conc, !.health = "HEALTHY"]

\* upsert_worker_registration as claim_job calls it: the row is created HEALTHY,
\* or keeps its health and its count; max_concurrency is the request's.
Registered(w, conc) == [worker[w] EXCEPT !.registered = TRUE, !.max = conc]

\* _assert_worker_claimable on the upserted row.
HasCapacity(row) == row.health \notin BlockedHealthStatuses /\ row.count < row.max

\* Mutant: the query forgets cancel_requested_at.
ClaimableIgnoringCancel(j) == job[j].status \in ClaimableStatuses

\* A row get_claimable_job_for_update may return.  Other claimers' row locks hide
\* candidates, so any claimable row may be the first one that is seen.
Claimable(j) == job[j].status \in ClaimableStatuses /\ ~job[j].cancelRequested

\* Mutant: the attempt is not counted.
ClaimedRowUncounted(row, w, c, until) ==
    [row EXCEPT !.status = "CLAIMED", !.claimedBy = w, !.token = c, !.leaseUntil = until]

\* mark_claimed
ClaimedRow(row, w, c, until) ==
    [row EXCEPT !.status = "CLAIMED", !.claimedBy = w, !.token = c,
                !.leaseUntil = until, !.attemptCount = @ + 1]

ClaimJob(w, conc, j, c, timeout, at) ==
    /\ HasCapacity(Registered(w, conc))
    /\ Claimable(j)
    /\ c \notin DOMAIN lease
    /\ job' = [job EXCEPT ![j] = ClaimedRow(@, w, c, at + timeout)]
    /\ attempt' = Insert(attempt, c, [job |-> j, worker |-> w, status |-> "CLAIMED",
                                      index |-> job'[j].attemptCount])
    /\ lease' = Insert(lease, c, [job |-> j, worker |-> w, status |-> "ACTIVE",
                                  startedAt |-> at, until |-> at + timeout,
                                  extensions |-> 0])
    /\ worker' = [worker EXCEPT ![w] = [Registered(w, conc) EXCEPT !.count = @ + 1]]
    /\ UNCHANGED clock

\* claim_job that finds no row: the registration is committed all the same.
ClaimNothing(w, conc) ==
    /\ HasCapacity(Registered(w, conc))
    /\ worker' = [worker EXCEPT ![w] = Registered(w, conc)]
    /\ UNCHANGED <<job, attempt, lease, clock>>

----------------------------------------------------------------------------
(* heartbeat, complete_job and fail_job *)

\* What a worker sends about its claim.
Reports == [job: Jobs, worker: Workers, token: Claims, attempt: Claims]

\* A heartbeat may leave the attempt out.
Heartbeats == [job: Jobs, worker: Workers, token: Claims, attempt: Claims \cup {NoClaim}]

\* Mutant: any lease with the token, ACTIVE or not.
HoldsAnyLease(r) ==
    r.token \in DOMAIN lease /\ lease[r.token].job = r.job /\ lease[r.token].worker = r.worker

\* get_active_lease_by_claim_token and the comparisons of its job and worker.
HoldsLease(r) ==
    /\ r.token \in DOMAIN lease
    /\ lease[r.token].status = "ACTIVE"
    /\ lease[r.token].job = r.job
    /\ lease[r.token].worker = r.worker

\* _assert_active_claim
OwnsClaim(r) == job[r.job].token = r.token /\ job[r.job].claimedBy = r.worker

\* Mutant: any attempt of the worker will do.
OwnsSomeAttempt(r) == r.attempt \in DOMAIN attempt /\ attempt[r.attempt].worker = r.worker

\* _assert_attempt_matches: the attempt row of r carries r's job, token and worker.
OwnsAttempt(r) ==
    /\ r.attempt = r.token
    /\ r.attempt \in DOMAIN attempt
    /\ attempt[r.attempt].job = r.job
    /\ attempt[r.attempt].worker = r.worker

\* Mutant: STALE is not taken for an ending.
NotTerminalOrStale(j) == job[j].status \notin TerminalJobStatuses \ {"STALE"}

NotTerminal(j) == job[j].status \notin TerminalJobStatuses

\* The checks complete_job and fail_job share.
MayReport(r) ==
    /\ HoldsLease(r)
    /\ OwnsClaim(r)
    /\ NotTerminal(r.job)
    /\ OwnsAttempt(r)
    /\ attempt[r.attempt].status \in ActiveAttemptStatuses

\* decrement_current_job_count
SlotReturned(w) ==
    [worker EXCEPT ![w].count = IF @ = 0 THEN 0 ELSE @ - 1]

\* extend_lease, refused once the extensions are used up.
ExtendedLease(row, until) == [row EXCEPT !.until = until, !.extensions = @ + 1]

\* Mutant: a heartbeat revives an expired lease.
AnyTime(c, at) == TRUE

\* A heartbeat must come before the lease deadline, as the service's "now" sees it.
BeforeDeadline(c, at) == lease[c].until > at

Heartbeat(r, run, timeout, at) ==
    /\ HoldsLease(r)
    /\ r.attempt # NoClaim =>
          r.attempt = r.token /\ attempt[r.attempt].worker = r.worker
    /\ BeforeDeadline(r.token, at)
    /\ OwnsClaim(r)
    /\ NotTerminal(r.job)
    /\ lease[r.token].extensions < MaxExtensions
    /\ lease' = [lease EXCEPT ![r.token] = ExtendedLease(@, at + timeout)]
    /\ \/ ~run /\ UNCHANGED <<job, attempt>>
       \/ /\ run
          /\ job[r.job].status \in {"CLAIMED", "RUNNING"}
          /\ job' = [job EXCEPT ![r.job].status = "RUNNING"]
          /\ \/ r.attempt = NoClaim /\ UNCHANGED attempt
             \/ /\ r.attempt # NoClaim
                /\ attempt[r.attempt].status \in {"CLAIMED", "STARTED"}
                /\ attempt' = [attempt EXCEPT ![r.attempt].status = "STARTED"]
    /\ UNCHANGED <<worker, clock>>

CompleteJob(r) ==
    /\ MayReport(r)
    /\ attempt' = [attempt EXCEPT ![r.attempt].status = "COMPLETED"]
    /\ job' = [job EXCEPT ![r.job] =
                 [@ EXCEPT !.status = "SUCCEEDED", !.leaseUntil = NoTime]]
    /\ lease' = [lease EXCEPT ![r.token].status = "RELEASED"]
    /\ worker' = SlotReturned(r.worker)
    /\ UNCHANGED clock

\* mark_failed: only FAILED clears the job's deadline; the claim columns stay.
FailedRow(row, next) ==
    [row EXCEPT !.status = next,
                !.leaseUntil = IF next = "FAILED" THEN NoTime ELSE @]

\* Mutants: a lease that does not expire stays; expiry writes an attempt's status.
ClosedOnlyIfExpired(row, expire, at) ==
    IF expire THEN [row EXCEPT !.status = "EXPIRED", !.until = at] ELSE row
ClosedAsTimedOut(row, expire, at) ==
    IF expire THEN [row EXCEPT !.status = "TIMED_OUT", !.until = at]
              ELSE [row EXCEPT !.status = "RELEASED"]

\* release_lease, or expire_lease, which also moves the deadline to "now".
ClosedLease(row, expire, at) ==
    IF expire THEN [row EXCEPT !.status = "EXPIRED", !.until = at]
              ELSE [row EXCEPT !.status = "RELEASED"]

FailJob(r, ending, next, expire, at) ==
    /\ MayReport(r)
    /\ attempt' = [attempt EXCEPT ![r.attempt].status = ending]
    /\ job' = [job EXCEPT ![r.job] = FailedRow(@, next)]
    /\ lease' = [lease EXCEPT ![r.token] = ClosedLease(@, expire, at)]
    /\ worker' = SlotReturned(r.worker)
    /\ UNCHANGED clock

----------------------------------------------------------------------------
(* Repository writes that no service of the repository calls yet.  They are *)
(* public operations on the same rows, so they are steps of the kernel.     *)

\* mark_cancel_requested returns a terminal job unchanged.
MarkCancelRequested(j) ==
    /\ job[j].status # "ABSENT"
    /\ NotTerminal(j)
    /\ job' = [job EXCEPT ![j] =
                 [@ EXCEPT !.status = "CANCEL_REQUESTED", !.cancelRequested = TRUE]]
    /\ UNCHANGED <<attempt, lease, worker, clock>>

\* mark_cancelled and mark_superseded look at no status.
MarkEnded(j, status) ==
    /\ job[j].status # "ABSENT"
    /\ job' = [job EXCEPT ![j] = [@ EXCEPT !.status = status, !.leaseUntil = NoTime]]
    /\ UNCHANGED <<attempt, lease, worker, clock>>

\* revoke_lease closes the lease and leaves the job, the attempt and the count.
RevokeLease(c) ==
    /\ lease[c].status = "ACTIVE"
    /\ lease' = [lease EXCEPT ![c].status = "REVOKED"]
    /\ UNCHANGED <<job, attempt, worker, clock>>

\* mark_provider_running and mark_artifact_collecting look at no status.
MarkProgress(c, status) ==
    /\ attempt' = [attempt EXCEPT ![c].status = status]
    /\ UNCHANGED <<job, lease, worker, clock>>

SetHealth(w, health) ==
    /\ worker[w].registered
    /\ worker' = [worker EXCEPT ![w].health = health]
    /\ UNCHANGED <<job, attempt, lease, clock>>

Tick ==
    /\ clock < MaxClock
    /\ clock' = clock + 1
    /\ UNCHANGED <<job, attempt, lease, worker>>

----------------------------------------------------------------------------
\* What is refused whatever else is sent changes nothing and is left out of the sets.
ServiceNext ==
    \/ \E j \in Jobs, status \in {"CREATED", "QUEUED"} : CreateJob(j, status)
    \/ \E w \in Workers, conc \in Concurrencies, j \in Jobs, c \in Claims,
          timeout \in LeaseTimeouts, at \in Nows : ClaimJob(w, conc, j, c, timeout, at)
    \/ \E w \in Workers, conc \in Concurrencies : ClaimNothing(w, conc)
    \/ \E r \in {h \in Heartbeats : HoldsLease(h)},
          run \in BOOLEAN, timeout \in LeaseTimeouts, at \in Nows :
          Heartbeat(r, run, timeout, at)
    \/ \E r \in Reports : CompleteJob(r)
    \/ \E r \in {f \in Reports : MayReport(f)}, ending \in FailedAttemptStatuses,
          next \in FailureNextStatuses, expire \in BOOLEAN, at \in Nows :
          FailJob(r, ending, next, expire, at)
    \/ \E j \in Jobs : MarkCancelRequested(j)
    \/ \E w \in Workers, health \in Healths : SetHealth(w, health)
    \/ Tick

RepositoryNext ==
    \/ \E j \in Jobs, status \in {"CANCELLED", "SUPERSEDED"} : MarkEnded(j, status)
    \/ \E c \in DOMAIN lease : RevokeLease(c)
    \/ \E c \in DOMAIN attempt, status \in {"PROVIDER_RUNNING", "ARTIFACT_COLLECTING"} :
          MarkProgress(c, status)

Next == ServiceNext \/ RepositoryNext

Spec == Init /\ [][Next]_vars

\* The kernel without the repository writes that look at no status or lease.
ServiceSpec == Init /\ [][ServiceNext]_vars

----------------------------------------------------------------------------
(***************************************************************************)
(* Invariants                                                              *)
(***************************************************************************)

\* Type correctness of the four tables: the attempt and lease tables have the
\* same rows, because one transaction of claim_job inserts both.
TypeOK ==
    /\ job \in [Jobs -> JobRows]
    /\ DOMAIN lease \subseteq Claims
    /\ lease \in [DOMAIN lease -> LeaseRows]
    /\ attempt \in [DOMAIN lease -> AttemptRows]
    /\ worker \in [Workers -> WorkerRows]
    /\ clock \in Nat

\* A job never has two ACTIVE leases: get_active_lease_by_job_id, which reads at
\* most one row or raises, cannot raise, and two workers never both own a job.
OneActiveLeasePerJob ==
    \A c, d \in DOMAIN lease :
        /\ lease[c].status = "ACTIVE" /\ lease[d].status = "ACTIVE"
        /\ lease[c].job = lease[d].job
        => c = d

\* The statuses a job can have while a lease on it is ACTIVE: no service settles,
\* re-queues or claims a job and leaves its lease open.  (mark_cancelled and
\* mark_superseded end a job under an ACTIVE lease; DEAD_LETTERED is never set.)
LeasedJobStatuses ==
    JobStatuses \ ({"ABSENT", "CREATED"} \cup ClaimableStatuses
                    \cup {"SUCCEEDED"} \cup FailureNextStatuses)

\* An ACTIVE lease is the one its job points to by active_claim_token, and its job
\* is neither claimable nor settled.  This is why a job has one ACTIVE lease.
ActiveLeaseIsCurrent ==
    \A c \in DOMAIN lease : lease[c].status = "ACTIVE" =>
        /\ job[lease[c].job].token = c
        /\ job[lease[c].job].status \in LeasedJobStatuses

\* Retries are told apart and ordered: no two attempts of a job have the same index, and
\* active_claim_token names the one with the greatest, counted by attempt_count, which
\* the terminal view shows as latest_attempt.  Lease, attempt and job row of the current
\* claim name the same job and worker.
CurrentClaimIsLatest ==
    /\ \A c \in DOMAIN lease :
          attempt[c].job = lease[c].job /\ attempt[c].worker = lease[c].worker
    /\ \A c, d \in DOMAIN lease :
          attempt[c].job = attempt[d].job /\ attempt[c].index = attempt[d].index => c = d
    /\ \A c \in DOMAIN lease :
          LET latest == job[attempt[c].job].token IN
          latest # NoClaim /\ attempt[c].index <= attempt[latest].index
    /\ \A j \in Jobs : job[j].token # NoClaim =>
          LET c == job[j].token IN
          /\ c \in DOMAIN lease
          /\ lease[c].job = j
          /\ job[j].claimedBy = lease[c].worker
          /\ attempt[c].index = job[j].attemptCount

\* The leases a worker occupies a slot for.  A revoked lease keeps its slot: no
\* operation gives it back.
Occupied(w) ==
    {c \in DOMAIN lease : lease[c].worker = w /\ lease[c].status \in {"ACTIVE", "REVOKED"}}

\* current_job_count is exactly the number of slots in use, so the max(0, ...) of
\* decrement_current_job_count never hides a lost increment.
SlotAccounting == \A w \in Workers : worker[w].count = Cardinality(Occupied(w))

\* However many heartbeats a worker sends, and however late their "now" is, an
\* ACTIVE lease cannot be stretched beyond its start plus one timeout for the
\* claim and one for each extension used.
LeaseLifetimeBounded ==
    \A c \in DOMAIN lease :
        lease[c].status = "ACTIVE" =>
            /\ lease[c].extensions <= MaxExtensions
            /\ lease[c].until <=
                 lease[c].startedAt + (lease[c].extensions + 1) * LongestTimeout

\* Without the unguarded repository writes, the three rows of a claim are settled
\* together: the lease is ACTIVE as long as the attempt is open, a COMPLETED
\* attempt is the current one of a SUCCEEDED job, so it is the only one, an EXPIRED
\* lease belongs to an attempt that failed, and a job in flight always has a worker
\* that may still report on it.
SettledTogether ==
    /\ \A c \in DOMAIN lease :
          /\ lease[c].status = "ACTIVE" <=> attempt[c].status \in ActiveAttemptStatuses
          /\ attempt[c].status = "COMPLETED" <=>
                LET j == attempt[c].job IN job[j].token = c /\ job[j].status = "SUCCEEDED"
          /\ lease[c].status = "EXPIRED" => attempt[c].status \in FailedAttemptStatuses
    /\ \A j \in Jobs :
          /\ job[j].status = "SUCCEEDED" => job[j].token # NoClaim
          /\ job[j].status \in {"CLAIMED", "RUNNING"} =>
                job[j].token # NoClaim /\ lease[job[j].token].status = "ACTIVE"

----------------------------------------------------------------------------
(* Action properties *)

\* A job that ended never comes back: no report, retry or cancel request takes it
\* out of the terminal statuses (mark_cancelled and mark_superseded, which look at
\* no status, may still rename the ending).
StaysEnded(j) ==
    job[j].status \in TerminalJobStatuses =>
        job'[j].status \in {job[j].status, "CANCELLED", "SUPERSEDED"}

NoResurrection == [][\A j \in Jobs : StaysEnded(j)]_vars

\* Fencing: a job starts running, succeeds, fails or goes back for a retry only
\* while the lease of its current claim is ACTIVE, so a worker that lost its claim
\* cannot settle the job for its successor; and a lease that was closed or revoked
\* never changes again.
SettledByHolder(j) ==
    /\ job'[j].status # job[j].status
    /\ job'[j].status \in FailureNextStatuses \cup {"RUNNING", "SUCCEEDED"}
    => job[j].token \in DOMAIN lease /\ lease[job[j].token].status = "ACTIVE"

StaysClosed(c) == lease[c].status # "ACTIVE" => lease'[c] = lease[c]

OnlyTheLeaseHolderReports ==
    [][/\ \A j \in Jobs : SettledByHolder(j)
       /\ \A c \in DOMAIN lease : StaysClosed(c)]_vars

\* Once a cancel request is recorded nobody claims the job again, even if the
\* attempt in flight is failed with WAITING_RETRY afterwards.
StaysUnclaimed(j) ==
    job[j].cancelRequested => job'[j].token = job[j].token /\ job'[j].cancelRequested

CancelRequestedIsNeverClaimed == [][\A j \in Jobs : StaysUnclaimed(j)]_vars

\* A worker that is DRAINING or OFFLINE, or has all its slots in use, gets no new
\* lease, although claim_job rewrites its registration before it looks.
NoLeaseWithoutCapacity ==
    [][\A w \in Workers : Occupied(w)' \subseteq Occupied(w)
          \/ /\ worker[w].health \notin BlockedHealthStatuses
             /\ Cardinality(Occupied(w)') <= worker'[w].max]_vars

=============================================================================
