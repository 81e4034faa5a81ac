------------------------ MODULE RuntimeLeaseProofs ------------------------
(***************************************************************************)
(* Proofs about RuntimeLease for every number of jobs, workers, claims and *)
(* extensions, every set of timeouts and every clock bound.                *)
(***************************************************************************)
EXTENDS RuntimeLease, FiniteSetTheorems, TLAPS

----------------------------------------------------------------------------
(* Types *)

\* Init establishes the types.
LEMMA InitTypeOK == Init => TypeOK
  <1> SUFFICES ASSUME Init PROVE TypeOK
    OBVIOUS
  <1> USE DEF Init
  <1>1. job \in [Jobs -> JobRows]
    BY DEF JobRows, JobStatuses
  <1>2. worker \in [Workers -> WorkerRows]
    BY DEF WorkerRows, HealthStatuses
  <1>3. DOMAIN lease = {} /\ lease = [c \in {} |-> 0] /\ attempt = [c \in {} |-> 0]
    OBVIOUS
  <1>4. lease \in [DOMAIN lease -> LeaseRows] /\ attempt \in [DOMAIN lease -> AttemptRows]
    BY <1>3
  <1> QED
    BY <1>1, <1>2, <1>3, <1>4 DEF TypeOK

\* A clock reading is a natural number.
LEMMA NowsAreNatural == TypeOK => Nows \subseteq Nat
  BY DEF TypeOK, Nows

\* A lease timeout is a positive natural number, at most the longest one.
LEMMA TimeoutsArePositive ==
    ASSUME NEW timeout \in LeaseTimeouts
    PROVE  timeout \in Nat \ {0} /\ timeout <= LongestTimeout
  BY TimesAreNatural

\* mark_claimed writes a row.
LEMMA ClaimedRowType ==
    ASSUME NEW row \in JobRows, NEW w \in Workers, NEW c \in Claims, NEW until \in Nat
    PROVE  /\ ClaimedRow(row, w, c, until) \in JobRows
           /\ ClaimedRow(row, w, c, until).status = "CLAIMED"
           /\ ClaimedRow(row, w, c, until).token = c
           /\ ClaimedRow(row, w, c, until).claimedBy = w
           /\ ClaimedRow(row, w, c, until).attemptCount = row.attemptCount + 1
           /\ ClaimedRow(row, w, c, until).cancelRequested = row.cancelRequested
  <1> DEFINE n == row.attemptCount + 1
  <1>1. n \in Nat
    BY DEF JobRows
  <1>2. ClaimedRow(row, w, c, until) =
          [row EXCEPT !.status = "CLAIMED", !.claimedBy = w, !.token = c,
                      !.leaseUntil = until, !.attemptCount = n]
    BY DEF ClaimedRow
  <1> HIDE DEF n
  <1>3. ClaimedRow(row, w, c, until) \in JobRows
    BY <1>1, <1>2 DEF JobRows, JobStatuses
  <1>4. ClaimedRow(row, w, c, until).attemptCount = n
    BY <1>2 DEF JobRows
  <1> QED
    BY <1>2, <1>3, <1>4 DEF JobRows, n

\* The count of a registered row goes up by one and stays a number.
LEMMA RegisteredType ==
    ASSUME TypeOK, NEW w \in Workers, NEW conc \in Concurrencies
    PROVE  /\ Registered(w, conc) \in WorkerRows
           /\ Registered(w, conc).count = worker[w].count
           /\ [Registered(w, conc) EXCEPT !.count = @ + 1] \in WorkerRows
           /\ [Registered(w, conc) EXCEPT !.count = @ + 1].count = worker[w].count + 1
  <1>1. worker[w] \in WorkerRows /\ conc \in Nat
    BY ConcurrencyIsPositive DEF TypeOK
  <1>2. Registered(w, conc) \in WorkerRows /\ Registered(w, conc).count = worker[w].count
    BY <1>1 DEF Registered, WorkerRows
  <1>3. \A row \in WorkerRows : /\ [row EXCEPT !.count = @ + 1] \in WorkerRows
                                /\ [row EXCEPT !.count = @ + 1].count = row.count + 1
    BY DEF WorkerRows
  <1> QED
    BY <1>2, <1>3

\* Claiming a job keeps the types.
LEMMA ClaimJobType ==
    ASSUME TypeOK, NEW w \in Workers, NEW conc \in Concurrencies, NEW j \in Jobs,
           NEW c \in Claims, NEW timeout \in LeaseTimeouts, NEW at \in Nows,
           ClaimJob(w, conc, j, c, timeout, at)
    PROVE  TypeOK'
  <1>1. timeout \in Nat /\ at \in Nat /\ at + timeout \in Nat
    BY NowsAreNatural, TimeoutsArePositive
  <1>2. job[j] \in JobRows
    BY DEF TypeOK
  <1>3. job' = [job EXCEPT ![j] = ClaimedRow(job[j], w, c, at + timeout)]
    BY DEF ClaimJob
  <1>4. ClaimedRow(job[j], w, c, at + timeout) \in JobRows
    BY <1>1, <1>2, ClaimedRowType
  <1>5. job' \in [Jobs -> JobRows]
    BY <1>3, <1>4 DEF TypeOK
  <1>6. job'[j].attemptCount \in Nat
    BY <1>5 DEF JobRows
  <1> DEFINE a == [job |-> j, worker |-> w, status |-> "CLAIMED",
                   index |-> job'[j].attemptCount]
             l == [job |-> j, worker |-> w, status |-> "ACTIVE", startedAt |-> at,
                   until |-> at + timeout, extensions |-> 0]
  <1>7. a \in AttemptRows
    BY <1>6 DEF AttemptRows, AttemptStatuses, ActiveAttemptStatuses
  <1>8. l \in LeaseRows
    BY <1>1 DEF LeaseRows, LeaseStatuses
  <1>9. attempt' = Insert(attempt, c, a) /\ lease' = Insert(lease, c, l)
    BY DEF ClaimJob
  <1> HIDE DEF a, l
  <1>10. DOMAIN attempt = DOMAIN lease
    BY DEF TypeOK
  <1>11. attempt' \in [DOMAIN lease \cup {c} -> AttemptRows]
    BY <1>7, <1>9, <1>10 DEF Insert, TypeOK
  <1>12. DOMAIN lease' = DOMAIN lease \cup {c} /\ lease' \in [DOMAIN lease \cup {c} -> LeaseRows]
    BY <1>8, <1>9 DEF Insert, TypeOK
  <1>13. worker' = [worker EXCEPT ![w] = [Registered(w, conc) EXCEPT !.count = @ + 1]]
    BY DEF ClaimJob
  <1>14. worker' \in [Workers -> WorkerRows]
    BY <1>13, RegisteredType DEF TypeOK
  <1>15. clock' \in Nat
    BY DEF ClaimJob, TypeOK
  <1>16. DOMAIN lease' \subseteq Claims
    BY <1>12 DEF TypeOK
  <1> QED
    BY <1>5, <1>11, <1>12, <1>14, <1>15, <1>16 DEF TypeOK

\* A report names rows that exist.
LEMMA ReportRows ==
    ASSUME TypeOK, NEW r \in Reports, MayReport(r)
    PROVE  /\ r.job \in Jobs /\ r.worker \in Workers
           /\ r.attempt = r.token /\ r.token \in DOMAIN lease
           /\ job[r.job] \in JobRows
           /\ attempt[r.token] \in AttemptRows
           /\ lease[r.token] \in LeaseRows
           /\ worker[r.worker] \in WorkerRows
  <1>1. r.job \in Jobs /\ r.worker \in Workers
    BY DEF Reports
  <1>2. r.attempt = r.token /\ r.token \in DOMAIN lease
    BY DEF MayReport, HoldsLease, OwnsAttempt
  <1> QED
    BY <1>1, <1>2 DEF TypeOK

\* A report that settles its three rows and gives the slot back keeps the types.
LEMMA ReportType ==
    ASSUME TypeOK, NEW r \in Reports, MayReport(r),
           NEW ending \in AttemptStatuses, NEW jrow \in JobRows, NEW lrow \in LeaseRows,
           attempt' = [attempt EXCEPT ![r.attempt].status = ending],
           job' = [job EXCEPT ![r.job] = jrow],
           lease' = [lease EXCEPT ![r.token] = lrow],
           worker' = SlotReturned(r.worker),
           clock' = clock
    PROVE  TypeOK'
  <1>1. job' \in [Jobs -> JobRows]
    BY DEF TypeOK
  <1>2. DOMAIN lease' = DOMAIN lease /\ lease' \in [DOMAIN lease -> LeaseRows]
    BY DEF TypeOK
  <1>3. [attempt[r.token] EXCEPT !.status = ending] \in AttemptRows
    BY ReportRows DEF AttemptRows
  <1>4. attempt' \in [DOMAIN lease -> AttemptRows]
    BY <1>3, ReportRows DEF TypeOK
  <1>5. [worker[r.worker] EXCEPT !.count = IF @ = 0 THEN 0 ELSE @ - 1] \in WorkerRows
    BY ReportRows DEF WorkerRows
  <1>6. worker' \in [Workers -> WorkerRows]
    BY <1>5, ReportRows DEF SlotReturned, TypeOK
  <1> QED
    BY <1>1, <1>2, <1>4, <1>6 DEF TypeOK

\* mark_succeeded writes a row.
LEMMA SucceededRowType ==
    ASSUME NEW row \in JobRows
    PROVE  [row EXCEPT !.status = "SUCCEEDED", !.leaseUntil = NoTime] \in JobRows
  BY DEF JobRows, JobStatuses, TerminalJobStatuses

\* mark_failed writes a row.
LEMMA FailedRowType ==
    ASSUME NEW row \in JobRows, NEW next \in FailureNextStatuses
    PROVE  /\ FailedRow(row, next) \in JobRows
           /\ FailedRow(row, next).status = next
           /\ FailedRow(row, next).token = row.token
           /\ FailedRow(row, next).claimedBy = row.claimedBy
           /\ FailedRow(row, next).attemptCount = row.attemptCount
           /\ FailedRow(row, next).cancelRequested = row.cancelRequested
  <1>1. next \in JobStatuses
    BY DEF FailureNextStatuses, JobStatuses, TerminalJobStatuses
  <1> DEFINE until == IF next = "FAILED" THEN NoTime ELSE row.leaseUntil
  <1>2. until \in Nat \cup {NoTime}
    BY DEF JobRows
  <1>3. FailedRow(row, next) = [row EXCEPT !.status = next, !.leaseUntil = until]
    BY DEF FailedRow
  <1> HIDE DEF until
  <1> QED
    BY <1>1, <1>2, <1>3 DEF JobRows

\* release_lease and expire_lease write a row that is not ACTIVE any more.
LEMMA ClosedLeaseType ==
    ASSUME NEW row \in LeaseRows, NEW expire \in BOOLEAN, NEW at \in Nat
    PROVE  /\ ClosedLease(row, expire, at) \in LeaseRows
           /\ ClosedLease(row, expire, at).status \in {"EXPIRED", "RELEASED"}
           /\ ClosedLease(row, expire, at).job = row.job
           /\ ClosedLease(row, expire, at).worker = row.worker
  <1>1. CASE expire
    BY <1>1 DEF ClosedLease, LeaseRows, LeaseStatuses
  <1>2. CASE ~expire
    BY <1>2 DEF ClosedLease, LeaseRows, LeaseStatuses
  <1> QED
    BY <1>1, <1>2

\* extend_lease writes a row that counts one more extension.
LEMMA ExtendedLeaseType ==
    ASSUME NEW row \in LeaseRows, NEW until \in Nat
    PROVE  /\ ExtendedLease(row, until) \in LeaseRows
           /\ ExtendedLease(row, until).until = until
           /\ ExtendedLease(row, until).extensions = row.extensions + 1
           /\ ExtendedLease(row, until).startedAt = row.startedAt
           /\ ExtendedLease(row, until).status = row.status
           /\ ExtendedLease(row, until).job = row.job
           /\ ExtendedLease(row, until).worker = row.worker
  <1> DEFINE more == row.extensions + 1
  <1>1. more \in Nat
    BY DEF LeaseRows
  <1>2. ExtendedLease(row, until) = [row EXCEPT !.until = until, !.extensions = more]
    BY DEF ExtendedLease
  <1> HIDE DEF more
  <1>3. ExtendedLease(row, until) \in LeaseRows /\ ExtendedLease(row, until).extensions = more
    BY <1>1, <1>2 DEF LeaseRows
  <1> QED
    BY <1>2, <1>3 DEF LeaseRows, more

\* Completing a job keeps the types.
LEMMA CompleteJobType ==
    ASSUME TypeOK, NEW r \in Reports, CompleteJob(r)
    PROVE  TypeOK'
  <1> DEFINE jrow == [job[r.job] EXCEPT !.status = "SUCCEEDED", !.leaseUntil = NoTime]
             lrow == [lease[r.token] EXCEPT !.status = "RELEASED"]
  <1>1. MayReport(r)
    BY DEF CompleteJob
  <1>2. jrow \in JobRows
    BY <1>1, ReportRows, SucceededRowType
  <1>3. lrow \in LeaseRows
    BY <1>1, ReportRows DEF LeaseRows, LeaseStatuses
  <1>4. "COMPLETED" \in AttemptStatuses
    BY DEF AttemptStatuses
  <1>5. /\ attempt' = [attempt EXCEPT ![r.attempt].status = "COMPLETED"]
        /\ job' = [job EXCEPT ![r.job] = jrow]
        /\ lease' = [lease EXCEPT ![r.token] = lrow]
        /\ worker' = SlotReturned(r.worker)
        /\ clock' = clock
    BY DEF CompleteJob
  <1> HIDE DEF jrow, lrow
  <1> QED
    BY <1>1, <1>2, <1>3, <1>4, <1>5, ReportType

\* Failing a job keeps the types.
LEMMA FailJobType ==
    ASSUME TypeOK, NEW r \in Reports, NEW ending \in FailedAttemptStatuses,
           NEW next \in FailureNextStatuses, NEW expire \in BOOLEAN, NEW at \in Nows,
           FailJob(r, ending, next, expire, at)
    PROVE  TypeOK'
  <1> DEFINE jrow == FailedRow(job[r.job], next)
             lrow == ClosedLease(lease[r.token], expire, at)
  <1>1. MayReport(r)
    BY DEF FailJob
  <1>2. jrow \in JobRows
    BY <1>1, ReportRows, FailedRowType
  <1>3. lrow \in LeaseRows
    BY <1>1, ReportRows, ClosedLeaseType, NowsAreNatural
  <1>4. ending \in AttemptStatuses
    BY DEF AttemptStatuses
  <1>5. /\ attempt' = [attempt EXCEPT ![r.attempt].status = ending]
        /\ job' = [job EXCEPT ![r.job] = jrow]
        /\ lease' = [lease EXCEPT ![r.token] = lrow]
        /\ worker' = SlotReturned(r.worker)
        /\ clock' = clock
    BY DEF FailJob
  <1> HIDE DEF jrow, lrow
  <1> QED
    BY <1>1, <1>2, <1>3, <1>4, <1>5, ReportType

\* A heartbeat changes one lease row, and possibly the status of its job and of
\* its attempt.
LEMMA HeartbeatType ==
    ASSUME TypeOK, NEW r \in Heartbeats, NEW run \in BOOLEAN,
           NEW timeout \in LeaseTimeouts, NEW at \in Nows, Heartbeat(r, run, timeout, at)
    PROVE  TypeOK'
  <1>1. r.job \in Jobs /\ r.token \in DOMAIN lease
    BY DEF Heartbeats, Heartbeat, HoldsLease
  <1>2. timeout \in Nat /\ at \in Nat /\ at + timeout \in Nat
    BY NowsAreNatural, TimeoutsArePositive
  <1>3. job[r.job] \in JobRows /\ lease[r.token] \in LeaseRows /\ attempt[r.token] \in AttemptRows
    BY <1>1 DEF TypeOK
  <1>4. job' \in [Jobs -> JobRows]
    <2>1. [job[r.job] EXCEPT !.status = "RUNNING"] \in JobRows
      BY <1>3 DEF JobRows, JobStatuses
    <2>2. job' = job \/ job' = [job EXCEPT ![r.job] = [job[r.job] EXCEPT !.status = "RUNNING"]]
      BY DEF Heartbeat
    <2> QED
      BY <2>1, <2>2 DEF TypeOK
  <1>5. attempt' \in [DOMAIN lease -> AttemptRows]
    <2>1. [attempt[r.token] EXCEPT !.status = "STARTED"] \in AttemptRows
      BY <1>3 DEF AttemptRows, AttemptStatuses, ActiveAttemptStatuses
    <2>2. \/ attempt' = attempt
          \/ attempt' = [attempt EXCEPT ![r.token] = [attempt[r.token] EXCEPT !.status = "STARTED"]]
      BY DEF Heartbeat
    <2> QED
      BY <2>1, <2>2 DEF TypeOK
  <1>6. DOMAIN lease' = DOMAIN lease /\ lease' \in [DOMAIN lease -> LeaseRows]
    <2>1. ExtendedLease(lease[r.token], at + timeout) \in LeaseRows
      BY <1>2, <1>3, ExtendedLeaseType
    <2>2. lease' = [lease EXCEPT ![r.token] = ExtendedLease(lease[r.token], at + timeout)]
      BY DEF Heartbeat
    <2> QED
      BY <2>1, <2>2 DEF TypeOK
  <1>7. worker' = worker /\ clock' = clock
    BY DEF Heartbeat
  <1> QED
    BY <1>4, <1>5, <1>6, <1>7 DEF TypeOK

\* Every step keeps the types.
LEMMA StepTypeOK == TypeOK /\ [Next]_vars => TypeOK'
  <1> SUFFICES ASSUME TypeOK, [Next]_vars PROVE TypeOK'
    OBVIOUS
  <1>1. ASSUME NEW j \in Jobs, NEW status \in {"CREATED", "QUEUED"}, CreateJob(j, status)
        PROVE  TypeOK'
    <2>1. [job[j] EXCEPT !.status = status] \in JobRows
      BY DEF TypeOK, JobRows, JobStatuses
    <2>2. job' \in [Jobs -> JobRows]
      BY <1>1, <2>1 DEF TypeOK, CreateJob
    <2> QED
      BY <1>1, <2>2 DEF TypeOK, CreateJob
  <1>2. ASSUME NEW w \in Workers, NEW conc \in Concurrencies, ClaimNothing(w, conc)
        PROVE  TypeOK'
    <2>1. worker' \in [Workers -> WorkerRows]
      BY <1>2, RegisteredType DEF ClaimNothing, TypeOK
    <2> QED
      BY <1>2, <2>1 DEF ClaimNothing, TypeOK
  <1>3. ASSUME NEW j \in Jobs, MarkCancelRequested(j)
        PROVE  TypeOK'
    <2>1. [job[j] EXCEPT !.status = "CANCEL_REQUESTED", !.cancelRequested = TRUE] \in JobRows
      BY DEF TypeOK, JobRows, JobStatuses
    <2>2. job' \in [Jobs -> JobRows]
      BY <1>3, <2>1 DEF TypeOK, MarkCancelRequested
    <2> QED
      BY <1>3, <2>2 DEF TypeOK, MarkCancelRequested
  <1>4. ASSUME NEW w \in Workers, NEW health \in Healths, SetHealth(w, health)
        PROVE  TypeOK'
    <2>1. [worker[w] EXCEPT !.health = health] \in WorkerRows
      BY HealthsAreStatuses DEF TypeOK, WorkerRows
    <2>2. worker' \in [Workers -> WorkerRows]
      BY <1>4, <2>1 DEF TypeOK, SetHealth
    <2> QED
      BY <1>4, <2>2 DEF TypeOK, SetHealth
  <1>5. ASSUME NEW j \in Jobs, NEW status \in {"CANCELLED", "SUPERSEDED"}, MarkEnded(j, status)
        PROVE  TypeOK'
    <2>1. [job[j] EXCEPT !.status = status, !.leaseUntil = NoTime] \in JobRows
      BY DEF TypeOK, JobRows, JobStatuses, TerminalJobStatuses
    <2>2. job' \in [Jobs -> JobRows]
      BY <1>5, <2>1 DEF TypeOK, MarkEnded
    <2> QED
      BY <1>5, <2>2 DEF TypeOK, MarkEnded
  <1>6. ASSUME NEW c \in DOMAIN lease, RevokeLease(c)
        PROVE  TypeOK'
    <2>1. [lease[c] EXCEPT !.status = "REVOKED"] \in LeaseRows
      BY DEF TypeOK, LeaseRows, LeaseStatuses
    <2>2. lease' \in [DOMAIN lease -> LeaseRows] /\ DOMAIN lease' = DOMAIN lease
      BY <1>6, <2>1 DEF TypeOK, RevokeLease
    <2> QED
      BY <1>6, <2>2 DEF TypeOK, RevokeLease
  <1>7. ASSUME NEW c \in DOMAIN attempt,
               NEW status \in {"PROVIDER_RUNNING", "ARTIFACT_COLLECTING"},
               MarkProgress(c, status)
        PROVE  TypeOK'
    <2>1. [attempt[c] EXCEPT !.status = status] \in AttemptRows
      BY DEF TypeOK, AttemptRows, AttemptStatuses, ActiveAttemptStatuses
    <2>2. attempt' \in [DOMAIN lease -> AttemptRows]
      BY <1>7, <2>1 DEF TypeOK, MarkProgress
    <2> QED
      BY <1>7, <2>2 DEF TypeOK, MarkProgress
  <1>8. CASE Tick
    BY <1>8 DEF Tick, TypeOK
  <1>9. CASE UNCHANGED vars
    BY <1>9 DEF vars, TypeOK
  <1> QED
    BY <1>1, <1>2, <1>3, <1>4, <1>5, <1>6, <1>7, <1>8, <1>9,
       ClaimJobType, HeartbeatType, CompleteJobType, FailJobType
       DEF Next, ServiceNext, RepositoryNext

\* The four tables keep their types, and the attempt and lease tables the same
\* rows, in every run of the kernel (the services and every repository write).
THEOREM TypeCorrect == Spec => []TypeOK
  <1> QED
    BY InitTypeOK, StepTypeOK, PTL DEF Spec

----------------------------------------------------------------------------
(* What the operations do to the rows, for the invariants below *)

\* A claim changes the row of one job and adds one lease and one attempt.
LEMMA ClaimJobEffect ==
    ASSUME TypeOK, NEW w \in Workers, NEW conc \in Concurrencies, NEW j \in Jobs,
           NEW c \in Claims, NEW timeout \in LeaseTimeouts, NEW at \in Nows,
           ClaimJob(w, conc, j, c, timeout, at)
    PROVE  /\ Claimable(j) /\ c \notin DOMAIN lease
           /\ DOMAIN job' = Jobs /\ \A i \in Jobs : i # j => job'[i] = job[i]
           /\ job'[j].status = "CLAIMED" /\ job'[j].token = c /\ job'[j].claimedBy = w
           /\ job'[j].attemptCount = job[j].attemptCount + 1
           /\ job'[j].cancelRequested = job[j].cancelRequested
           /\ \A d : d \in DOMAIN lease' <=> d \in DOMAIN lease \/ d = c
           /\ \A d \in DOMAIN lease : lease'[d] = lease[d] /\ attempt'[d] = attempt[d]
           /\ lease'[c].job = j /\ lease'[c].worker = w /\ lease'[c].status = "ACTIVE"
           /\ attempt'[c].job = j /\ attempt'[c].worker = w
           /\ attempt'[c].index = job'[j].attemptCount
  <1>1. at + timeout \in Nat
    BY NowsAreNatural, TimeoutsArePositive
  <1>2. DOMAIN attempt = DOMAIN lease /\ DOMAIN job = Jobs /\ job[j] \in JobRows
    BY DEF TypeOK
  <1>3. job' = [job EXCEPT ![j] = ClaimedRow(job[j], w, c, at + timeout)]
    BY DEF ClaimJob
  <1>4. /\ DOMAIN job' = Jobs /\ \A i \in Jobs : i # j => job'[i] = job[i]
        /\ job'[j] = ClaimedRow(job[j], w, c, at + timeout)
    BY <1>2, <1>3
  <1>5. Claimable(j) /\ c \notin DOMAIN lease
    BY DEF ClaimJob
  <1>6. /\ DOMAIN lease' = DOMAIN lease \cup {c}
        /\ \A d \in DOMAIN lease : lease'[d] = lease[d]
        /\ lease'[c].job = j /\ lease'[c].worker = w /\ lease'[c].status = "ACTIVE"
    BY <1>5 DEF ClaimJob, Insert
  <1>7. /\ \A d \in DOMAIN lease : attempt'[d] = attempt[d]
        /\ attempt'[c].job = j /\ attempt'[c].worker = w
        /\ attempt'[c].index = job'[j].attemptCount
    BY <1>2, <1>5 DEF ClaimJob, Insert
  <1> QED
    BY <1>1, <1>2, <1>4, <1>5, <1>6, <1>7, ClaimedRowType

\* A report settles the three rows of its own claim and no other.
LEMMA ReportEffect ==
    ASSUME TypeOK, NEW r \in Reports,
           \/ CompleteJob(r)
           \/ \E ending \in FailedAttemptStatuses, next \in FailureNextStatuses,
                 expire \in BOOLEAN, at \in Nows : FailJob(r, ending, next, expire, at)
    PROVE  /\ MayReport(r) /\ r.token \in DOMAIN lease
           /\ r.job \in Jobs /\ r.worker \in Workers
           /\ DOMAIN job' = Jobs /\ \A i \in Jobs : i # r.job => job'[i] = job[i]
           /\ job'[r.job].status \in {"SUCCEEDED"} \cup FailureNextStatuses
           /\ job'[r.job].token = job[r.job].token
           /\ job'[r.job].claimedBy = job[r.job].claimedBy
           /\ job'[r.job].attemptCount = job[r.job].attemptCount
           /\ job'[r.job].cancelRequested = job[r.job].cancelRequested
           /\ DOMAIN lease' = DOMAIN lease
           /\ \A d \in DOMAIN lease : d # r.token => lease'[d] = lease[d]
           /\ lease'[r.token].status \in {"RELEASED", "EXPIRED"}
           /\ lease'[r.token].job = lease[r.token].job
           /\ lease'[r.token].worker = lease[r.token].worker
           /\ \A d \in DOMAIN lease : /\ attempt'[d].job = attempt[d].job
                                      /\ attempt'[d].worker = attempt[d].worker
                                      /\ attempt'[d].index = attempt[d].index
           /\ worker' = SlotReturned(r.worker)
  <1> DEFINE Settled(jrow, lrow, ending) ==
               /\ MayReport(r)
               /\ attempt' = [attempt EXCEPT ![r.attempt].status = ending]
               /\ job' = [job EXCEPT ![r.job] = jrow]
               /\ lease' = [lease EXCEPT ![r.token] = lrow]
               /\ worker' = SlotReturned(r.worker)
               /\ jrow.status \in {"SUCCEEDED"} \cup FailureNextStatuses
               /\ jrow.token = job[r.job].token
               /\ jrow.claimedBy = job[r.job].claimedBy
               /\ jrow.attemptCount = job[r.job].attemptCount
            /\ jrow.cancelRequested = job[r.job].cancelRequested
               /\ jrow.cancelRequested = job[r.job].cancelRequested
               /\ lrow.status \in {"RELEASED", "EXPIRED"}
               /\ lrow.job = lease[r.token].job
               /\ lrow.worker = lease[r.token].worker
  <1>1. \E jrow, lrow, ending : Settled(jrow, lrow, ending)
    <2>1. CASE CompleteJob(r)
      <3> DEFINE jrow == [job[r.job] EXCEPT !.status = "SUCCEEDED", !.leaseUntil = NoTime]
                 lrow == [lease[r.token] EXCEPT !.status = "RELEASED"]
      <3>1. MayReport(r)
        BY <2>1 DEF CompleteJob
      <3>2. /\ attempt' = [attempt EXCEPT ![r.attempt].status = "COMPLETED"]
            /\ job' = [job EXCEPT ![r.job] = jrow]
            /\ lease' = [lease EXCEPT ![r.token] = lrow]
            /\ worker' = SlotReturned(r.worker)
        BY <2>1 DEF CompleteJob
      <3>3. /\ jrow.status = "SUCCEEDED" /\ jrow.token = job[r.job].token
            /\ jrow.claimedBy = job[r.job].claimedBy
            /\ jrow.attemptCount = job[r.job].attemptCount
            /\ jrow.cancelRequested = job[r.job].cancelRequested
        BY <3>1, ReportRows DEF JobRows
      <3>4. /\ lrow.status = "RELEASED" /\ lrow.job = lease[r.token].job
            /\ lrow.worker = lease[r.token].worker
        BY <3>1, ReportRows DEF LeaseRows
      <3> HIDE DEF jrow, lrow
      <3>5. Settled(jrow, lrow, "COMPLETED")
        BY <3>1, <3>2, <3>3, <3>4
      <3> QED
        BY <3>5
    <2>2. ASSUME NEW ending \in FailedAttemptStatuses, NEW next \in FailureNextStatuses,
                 NEW expire \in BOOLEAN, NEW at \in Nows,
                 FailJob(r, ending, next, expire, at)
          PROVE  \E jrow, lrow, e : Settled(jrow, lrow, e)
      <3>1. MayReport(r) /\ at \in Nat
        BY <2>2, NowsAreNatural DEF FailJob
      <3>2. /\ attempt' = [attempt EXCEPT ![r.attempt].status = ending]
            /\ job' = [job EXCEPT ![r.job] = FailedRow(job[r.job], next)]
            /\ lease' = [lease EXCEPT ![r.token] = ClosedLease(lease[r.token], expire, at)]
            /\ worker' = SlotReturned(r.worker)
        BY <2>2 DEF FailJob
      <3>3. Settled(FailedRow(job[r.job], next), ClosedLease(lease[r.token], expire, at), ending)
        BY <3>1, <3>2, ReportRows, FailedRowType, ClosedLeaseType
      <3> QED
        BY <3>3
    <2> QED
      BY <2>1, <2>2
  <1>2. PICK jrow, lrow, ending : Settled(jrow, lrow, ending)
    BY <1>1
  <1>3. DOMAIN attempt = DOMAIN lease /\ DOMAIN job = Jobs /\ MayReport(r)
    BY <1>2 DEF TypeOK
  <1>4. /\ DOMAIN job' = Jobs /\ \A i \in Jobs : i # r.job => job'[i] = job[i]
        /\ job'[r.job] = jrow
    BY <1>2, <1>3, ReportRows
  <1>5. /\ DOMAIN lease' = DOMAIN lease
        /\ \A d \in DOMAIN lease : d # r.token => lease'[d] = lease[d]
        /\ lease'[r.token] = lrow
    BY <1>2, <1>3, ReportRows
  <1>6. \A d \in DOMAIN lease : /\ attempt'[d].job = attempt[d].job
                                /\ attempt'[d].worker = attempt[d].worker
                                /\ attempt'[d].index = attempt[d].index
    <2>1. attempt' = [attempt EXCEPT ![r.token] = [attempt[r.token] EXCEPT !.status = ending]]
      BY <1>2, <1>3, ReportRows
    <2>2. attempt[r.token] \in AttemptRows /\ r.token \in DOMAIN lease
      BY <1>3, ReportRows
    <2> QED
      BY <1>3, <2>1, <2>2 DEF AttemptRows
  <1> QED
    BY <1>2, <1>3, <1>4, <1>5, <1>6, ReportRows

\* A heartbeat moves the deadline of one lease and may start its job and attempt.
LEMMA HeartbeatEffect ==
    ASSUME TypeOK, NEW r \in Heartbeats, NEW run \in BOOLEAN,
           NEW timeout \in LeaseTimeouts, NEW at \in Nows, Heartbeat(r, run, timeout, at)
    PROVE  /\ HoldsLease(r) /\ OwnsClaim(r) /\ r.job \in Jobs /\ r.token \in DOMAIN lease
           /\ DOMAIN job' = Jobs /\ \A i \in Jobs : i # r.job => job'[i] = job[i]
           /\ \/ job'[r.job] = job[r.job]
              \/ /\ job[r.job].status \in {"CLAIMED", "RUNNING"}
                 /\ job'[r.job].status = "RUNNING"
           /\ job'[r.job].token = job[r.job].token
           /\ job'[r.job].claimedBy = job[r.job].claimedBy
           /\ job'[r.job].attemptCount = job[r.job].attemptCount
           /\ job'[r.job].cancelRequested = job[r.job].cancelRequested
           /\ DOMAIN lease' = DOMAIN lease
           /\ \A d \in DOMAIN lease : d # r.token => lease'[d] = lease[d]
           /\ lease'[r.token] = ExtendedLease(lease[r.token], at + timeout)
           /\ lease'[r.token].status = lease[r.token].status
           /\ lease'[r.token].job = lease[r.token].job
           /\ lease'[r.token].worker = lease[r.token].worker
           /\ \A d \in DOMAIN lease : /\ attempt'[d].job = attempt[d].job
                                      /\ attempt'[d].worker = attempt[d].worker
                                      /\ attempt'[d].index = attempt[d].index
           /\ worker' = worker
  <1>1. HoldsLease(r) /\ OwnsClaim(r) /\ r.job \in Jobs /\ r.token \in DOMAIN lease
    BY DEF Heartbeat, Heartbeats, HoldsLease
  <1>2. /\ DOMAIN job = Jobs /\ DOMAIN attempt = DOMAIN lease
        /\ job[r.job] \in JobRows /\ lease[r.token] \in LeaseRows
        /\ attempt[r.token] \in AttemptRows
    BY <1>1 DEF TypeOK
  <1>3. /\ lease' = [lease EXCEPT ![r.token] = ExtendedLease(lease[r.token], at + timeout)]
        /\ at + timeout \in Nat
    BY NowsAreNatural, TimeoutsArePositive DEF Heartbeat
  <1>4. \/ job' = job
        \/ /\ job[r.job].status \in {"CLAIMED", "RUNNING"}
           /\ job' = [job EXCEPT ![r.job] = [job[r.job] EXCEPT !.status = "RUNNING"]]
    BY DEF Heartbeat
  <1>5. \/ attempt' = attempt
        \/ attempt' = [attempt EXCEPT ![r.token] = [attempt[r.token] EXCEPT !.status = "STARTED"]]
    BY DEF Heartbeat
  <1>6. /\ DOMAIN job' = Jobs /\ \A i \in Jobs : i # r.job => job'[i] = job[i]
        /\ \/ job'[r.job] = job[r.job]
           \/ /\ job[r.job].status \in {"CLAIMED", "RUNNING"}
              /\ job'[r.job].status = "RUNNING"
        /\ job'[r.job].token = job[r.job].token
        /\ job'[r.job].claimedBy = job[r.job].claimedBy
        /\ job'[r.job].attemptCount = job[r.job].attemptCount
        /\ job'[r.job].cancelRequested = job[r.job].cancelRequested
    BY <1>1, <1>2, <1>4 DEF JobRows
  <1>7. \A d \in DOMAIN lease : /\ attempt'[d].job = attempt[d].job
                                /\ attempt'[d].worker = attempt[d].worker
                                /\ attempt'[d].index = attempt[d].index
    BY <1>1, <1>2, <1>5 DEF AttemptRows
  <1>8. /\ DOMAIN lease' = DOMAIN lease
        /\ \A d \in DOMAIN lease : d # r.token => lease'[d] = lease[d]
        /\ lease'[r.token] = ExtendedLease(lease[r.token], at + timeout)
    BY <1>1, <1>3
  <1>9. worker' = worker
    BY DEF Heartbeat
  <1> QED
    BY <1>1, <1>2, <1>3, <1>6, <1>7, <1>8, <1>9, ExtendedLeaseType

\* The other writes to a job keep its claim columns; a job whose status they change
\* was not there before, is no longer claimable, or has ended.
LEMMA JobWriteEffect ==
    ASSUME TypeOK, NEW j \in Jobs,
           \/ \E status \in {"CREATED", "QUEUED"} : CreateJob(j, status)
           \/ MarkCancelRequested(j)
           \/ \E status \in {"CANCELLED", "SUPERSEDED"} : MarkEnded(j, status)
    PROVE  /\ DOMAIN job' = Jobs /\ \A i \in Jobs : i # j => job'[i] = job[i]
           /\ \/ job[j].status = "ABSENT" /\ job'[j].status \in {"CREATED", "QUEUED"}
              \/ NotTerminal(j) /\ job'[j].status = "CANCEL_REQUESTED"
              \/ job[j].status # "ABSENT" /\ job'[j].status \in {"CANCELLED", "SUPERSEDED"}
           /\ job'[j].token = job[j].token
           /\ job'[j].claimedBy = job[j].claimedBy
           /\ job'[j].attemptCount = job[j].attemptCount
           /\ job[j].cancelRequested => job'[j].cancelRequested
           /\ UNCHANGED <<attempt, lease, worker>>
  <1>1. DOMAIN job = Jobs /\ job[j] \in JobRows
    BY DEF TypeOK
  <1>2. CASE \E status \in {"CREATED", "QUEUED"} : CreateJob(j, status)
    BY <1>1, <1>2 DEF CreateJob, JobRows
  <1>3. CASE MarkCancelRequested(j)
    BY <1>1, <1>3 DEF MarkCancelRequested, JobRows
  <1>4. CASE \E status \in {"CANCELLED", "SUPERSEDED"} : MarkEnded(j, status)
    BY <1>1, <1>4 DEF MarkEnded, JobRows
  <1> QED
    BY <1>2, <1>3, <1>4

\* Revoking a lease changes its status only.
LEMMA RevokeLeaseEffect ==
    ASSUME TypeOK, NEW c \in DOMAIN lease, RevokeLease(c)
    PROVE  /\ DOMAIN lease' = DOMAIN lease
           /\ \A d \in DOMAIN lease : d # c => lease'[d] = lease[d]
           /\ lease[c].status = "ACTIVE" /\ lease'[c].status = "REVOKED"
           /\ lease'[c].job = lease[c].job /\ lease'[c].worker = lease[c].worker
           /\ UNCHANGED <<job, attempt, worker>>
  <1>1. lease[c] \in LeaseRows
    BY DEF TypeOK
  <1> QED
    BY <1>1 DEF RevokeLease, LeaseRows

\* Progress of an attempt changes its status only.
LEMMA MarkProgressEffect ==
    ASSUME TypeOK, NEW c \in DOMAIN attempt, NEW status, MarkProgress(c, status)
    PROVE  /\ \A d \in DOMAIN lease : /\ attempt'[d].job = attempt[d].job
                                      /\ attempt'[d].worker = attempt[d].worker
                                      /\ attempt'[d].index = attempt[d].index
           /\ UNCHANGED <<job, lease, worker>>
  <1>1. attempt[c] \in AttemptRows /\ DOMAIN attempt = DOMAIN lease
    BY DEF TypeOK
  <1>2. attempt' = [attempt EXCEPT ![c] = [attempt[c] EXCEPT !.status = status]]
    BY DEF MarkProgress
  <1> QED
    BY <1>1, <1>2 DEF MarkProgress, AttemptRows

----------------------------------------------------------------------------
(* One active lease per job *)

\* ActiveLeaseIsCurrent is inductive.
LEMMA StepActiveLeaseIsCurrent ==
    TypeOK /\ ActiveLeaseIsCurrent /\ [Next]_vars => ActiveLeaseIsCurrent'
  <1> SUFFICES ASSUME TypeOK, ActiveLeaseIsCurrent, [Next]_vars,
                      NEW d \in DOMAIN lease', lease'[d].status = "ACTIVE"
               PROVE  /\ job'[lease'[d].job].token = d
                      /\ job'[lease'[d].job].status \in LeasedJobStatuses
    BY DEF ActiveLeaseIsCurrent
  <1> USE DEF ActiveLeaseIsCurrent
  <1>0. /\ \A c \in DOMAIN lease : lease[c].job \in Jobs
        /\ {"CLAIMED", "RUNNING", "CANCEL_REQUESTED", "CANCELLED", "SUPERSEDED"}
              \subseteq LeasedJobStatuses
        /\ LeasedJobStatuses \cap ({"ABSENT", "QUEUED", "WAITING_RETRY"}) = {}
    BY DEF TypeOK, LeaseRows, LeasedJobStatuses, JobStatuses, TerminalJobStatuses,
           ClaimableStatuses, FailureNextStatuses
  <1>1. ASSUME NEW w \in Workers, NEW conc \in Concurrencies, NEW j \in Jobs,
               NEW c \in Claims, NEW timeout \in LeaseTimeouts, NEW at \in Nows,
               ClaimJob(w, conc, j, c, timeout, at)
        PROVE  /\ job'[lease'[d].job].token = d
               /\ job'[lease'[d].job].status \in LeasedJobStatuses
    <2>1. /\ Claimable(j) /\ c \notin DOMAIN lease
          /\ \A i \in Jobs : i # j => job'[i] = job[i]
          /\ job'[j].status = "CLAIMED" /\ job'[j].token = c
          /\ \A e : e \in DOMAIN lease' <=> e \in DOMAIN lease \/ e = c
          /\ \A e \in DOMAIN lease : lease'[e] = lease[e]
          /\ lease'[c].job = j
      BY <1>1, ClaimJobEffect
    <2>2. CASE d = c
      BY <1>0, <2>1, <2>2
    <2>3. CASE d # c
      <3>1. d \in DOMAIN lease /\ lease'[d] = lease[d]
        BY <2>1, <2>3
      <3>2. lease[d].job # j
        BY <1>0, <2>1, <3>1 DEF Claimable, ClaimableStatuses
      <3> QED
        BY <1>0, <2>1, <3>1, <3>2
    <2> QED
      BY <2>2, <2>3
  <1>2. ASSUME NEW r \in Heartbeats, NEW run \in BOOLEAN, NEW timeout \in LeaseTimeouts,
               NEW at \in Nows, Heartbeat(r, run, timeout, at)
        PROVE  /\ job'[lease'[d].job].token = d
               /\ job'[lease'[d].job].status \in LeasedJobStatuses
    <2>1. d \in DOMAIN lease /\ lease[d].status = "ACTIVE" /\ lease'[d].job = lease[d].job
      BY <1>2, HeartbeatEffect
    <2>2. /\ job'[lease[d].job].token = job[lease[d].job].token
          /\ \/ job'[lease[d].job].status = job[lease[d].job].status
             \/ job'[lease[d].job].status = "RUNNING"
      BY <1>0, <1>2, <2>1, HeartbeatEffect
    <2> QED
      BY <1>0, <2>1, <2>2
  <1>3. ASSUME NEW r \in Reports,
               \/ CompleteJob(r)
               \/ \E ending \in FailedAttemptStatuses, next \in FailureNextStatuses,
                     expire \in BOOLEAN, at \in Nows : FailJob(r, ending, next, expire, at)
        PROVE  /\ job'[lease'[d].job].token = d
               /\ job'[lease'[d].job].status \in LeasedJobStatuses
    <2>1. d \in DOMAIN lease /\ d # r.token /\ lease'[d] = lease[d]
      BY <1>3, ReportEffect
    <2>2. job[r.job].token = r.token
      BY <1>3, ReportEffect DEF MayReport, OwnsClaim
    <2>3. lease[d].job # r.job
      BY <2>1, <2>2
    <2>4. job'[lease[d].job] = job[lease[d].job]
      BY <1>0, <1>3, <2>1, <2>3, ReportEffect
    <2> QED
      BY <2>1, <2>4
  <1>4. ASSUME NEW j \in Jobs,
               \/ \E status \in {"CREATED", "QUEUED"} : CreateJob(j, status)
               \/ MarkCancelRequested(j)
               \/ \E status \in {"CANCELLED", "SUPERSEDED"} : MarkEnded(j, status)
        PROVE  /\ job'[lease'[d].job].token = d
               /\ job'[lease'[d].job].status \in LeasedJobStatuses
    <2>1. lease' = lease
      BY <1>4, JobWriteEffect
    <2>2. CASE lease[d].job # j
      BY <1>0, <1>4, <2>1, <2>2, JobWriteEffect
    <2>3. CASE lease[d].job = j
      BY <1>0, <1>4, <2>1, <2>3, JobWriteEffect
    <2> QED
      BY <2>2, <2>3
  <1>5. ASSUME NEW c \in DOMAIN lease, RevokeLease(c)
        PROVE  /\ job'[lease'[d].job].token = d
               /\ job'[lease'[d].job].status \in LeasedJobStatuses
    BY <1>5, RevokeLeaseEffect
  <1>6. CASE UNCHANGED <<job, lease>>
    BY <1>6
  <1> QED
    BY <1>1, <1>2, <1>3, <1>4, <1>5, <1>6
       DEF Next, ServiceNext, RepositoryNext, ClaimNothing, SetHealth, Tick, MarkProgress, vars

\* An ACTIVE lease is current, whatever the services and the repository write.
THEOREM ActiveLeaseCurrent == Spec => []ActiveLeaseIsCurrent
  <1>1. Init => ActiveLeaseIsCurrent
    BY DEF Init, ActiveLeaseIsCurrent
  <1> QED
    BY <1>1, TypeCorrect, StepActiveLeaseIsCurrent, PTL DEF Spec

\* Two workers never hold ACTIVE leases on the same job.
THEOREM OneActiveLease == Spec => []OneActiveLeasePerJob
  <1>1. ActiveLeaseIsCurrent => OneActiveLeasePerJob
    BY DEF ActiveLeaseIsCurrent, OneActiveLeasePerJob
  <1> QED
    BY <1>1, ActiveLeaseCurrent, PTL

----------------------------------------------------------------------------
(* The claim columns of a job name its latest attempt *)

\* Steps that keep the claim columns of every job, the lease table and what the
\* leases and attempts were made for keep CurrentClaimIsLatest.
LEMMA KeepsCurrentClaim ==
    ASSUME TypeOK, CurrentClaimIsLatest,
           \A j \in Jobs : /\ job'[j].token = job[j].token
                           /\ job'[j].claimedBy = job[j].claimedBy
                           /\ job'[j].attemptCount = job[j].attemptCount,
           DOMAIN lease' = DOMAIN lease,
           \A d \in DOMAIN lease : /\ lease'[d].job = lease[d].job
                                   /\ lease'[d].worker = lease[d].worker
                                   /\ attempt'[d].job = attempt[d].job
                                   /\ attempt'[d].worker = attempt[d].worker
                                   /\ attempt'[d].index = attempt[d].index
    PROVE  CurrentClaimIsLatest'
  <1>1. \A d \in DOMAIN lease : attempt[d].job \in Jobs
    BY DEF TypeOK, AttemptRows
  <1>2. ASSUME NEW c \in DOMAIN lease'
        PROVE  /\ attempt'[c].job = lease'[c].job /\ attempt'[c].worker = lease'[c].worker
               /\ \A d \in DOMAIN lease' :
                     attempt'[c].job = attempt'[d].job /\ attempt'[c].index = attempt'[d].index
                     => c = d
    BY DEF CurrentClaimIsLatest
  <1>3. ASSUME NEW c \in DOMAIN lease'
        PROVE  LET latest == job'[attempt'[c].job].token IN
               latest # NoClaim /\ attempt'[c].index <= attempt'[latest].index
    <2>1. attempt'[c].job = attempt[c].job /\ attempt[c].job \in Jobs
      BY <1>1
    <2>2. job'[attempt[c].job].token = job[attempt[c].job].token
      BY <2>1
    <2>3. /\ job[attempt[c].job].token # NoClaim
          /\ job[attempt[c].job].token \in DOMAIN lease
          /\ attempt[c].index <= attempt[job[attempt[c].job].token].index
      BY <2>1 DEF CurrentClaimIsLatest
    <2> QED
      BY <2>1, <2>2, <2>3
  <1>4. ASSUME NEW j \in Jobs, job'[j].token # NoClaim
        PROVE  LET c == job'[j].token IN
               /\ c \in DOMAIN lease'
               /\ lease'[c].job = j
               /\ job'[j].claimedBy = lease'[c].worker
               /\ attempt'[c].index = job'[j].attemptCount
    BY <1>4 DEF CurrentClaimIsLatest
  <1> QED
    BY <1>2, <1>3, <1>4 DEF CurrentClaimIsLatest

\* CurrentClaimIsLatest is inductive.
LEMMA StepCurrentClaimIsLatest ==
    TypeOK /\ CurrentClaimIsLatest /\ [Next]_vars => CurrentClaimIsLatest'
  <1> SUFFICES ASSUME TypeOK, CurrentClaimIsLatest, [Next]_vars
               PROVE  CurrentClaimIsLatest'
    OBVIOUS
  <1>1. ASSUME NEW w \in Workers, NEW conc \in Concurrencies, NEW j \in Jobs,
               NEW c \in Claims, NEW timeout \in LeaseTimeouts, NEW at \in Nows,
               ClaimJob(w, conc, j, c, timeout, at)
        PROVE  CurrentClaimIsLatest'
    <2>1. /\ c \notin DOMAIN lease
          /\ \A i \in Jobs : i # j => job'[i] = job[i]
          /\ job'[j].token = c /\ job'[j].claimedBy = w
          /\ \A e : e \in DOMAIN lease' <=> e \in DOMAIN lease \/ e = c
          /\ \A e \in DOMAIN lease : lease'[e] = lease[e] /\ attempt'[e] = attempt[e]
          /\ lease'[c].job = j /\ lease'[c].worker = w
          /\ attempt'[c].job = j /\ attempt'[c].worker = w
          /\ attempt'[c].index = job'[j].attemptCount
          /\ job'[j].attemptCount = job[j].attemptCount + 1
      BY <1>1, ClaimJobEffect
    <2>0. /\ job[j].attemptCount \in Nat /\ c # NoClaim
          /\ \A e \in DOMAIN lease : attempt[e].job \in Jobs /\ attempt[e].index \in Nat
      BY NullsAreDistinct DEF TypeOK, JobRows, AttemptRows
    <2>4. \A e \in DOMAIN lease : attempt[e].job = j => attempt[e].index <= job[j].attemptCount
      BY DEF CurrentClaimIsLatest
    <2>5. \A e \in DOMAIN lease : attempt'[e].job = j => attempt'[e].index < attempt'[c].index
      BY <2>0, <2>1, <2>4
    <2>6. ASSUME NEW d \in DOMAIN lease', NEW e \in DOMAIN lease',
                 attempt'[d].job = attempt'[e].job, attempt'[d].index = attempt'[e].index
          PROVE  d = e
      <3>1. d = c => e = c
        BY <2>0, <2>1, <2>5, <2>6
      <3>2. e = c => d = c
        BY <2>0, <2>1, <2>5, <2>6
      <3>3. CASE d # c /\ e # c
        BY <2>1, <2>6, <3>3 DEF CurrentClaimIsLatest
      <3> QED
        BY <3>1, <3>2, <3>3
    <2>7. ASSUME NEW d \in DOMAIN lease'
          PROVE  LET latest == job'[attempt'[d].job].token IN
                 latest # NoClaim /\ attempt'[d].index <= attempt'[latest].index
      <3>1. CASE attempt'[d].job = j
        <4>1. attempt'[d].index <= attempt'[c].index
          BY <2>0, <2>1, <2>5, <3>1
        <4> QED
          BY <2>0, <2>1, <3>1, <4>1
      <3>2. CASE attempt'[d].job # j
        <4>1. d \in DOMAIN lease /\ attempt'[d] = attempt[d] /\ attempt[d].job \in Jobs
          BY <2>0, <2>1, <3>2
        <4>2. job'[attempt[d].job] = job[attempt[d].job]
          BY <2>1, <3>2, <4>1
        <4>3. /\ job[attempt[d].job].token # NoClaim
              /\ job[attempt[d].job].token \in DOMAIN lease
              /\ attempt[d].index <= attempt[job[attempt[d].job].token].index
          BY <4>1 DEF CurrentClaimIsLatest
        <4> QED
          BY <2>1, <4>1, <4>2, <4>3
      <3> QED
        BY <3>1, <3>2
    <2>2. ASSUME NEW d \in DOMAIN lease'
          PROVE  attempt'[d].job = lease'[d].job /\ attempt'[d].worker = lease'[d].worker
      BY <2>1 DEF CurrentClaimIsLatest
    <2>3. ASSUME NEW i \in Jobs, job'[i].token # NoClaim
          PROVE  /\ job'[i].token \in DOMAIN lease'
                 /\ lease'[job'[i].token].job = i
                 /\ job'[i].claimedBy = lease'[job'[i].token].worker
                 /\ attempt'[job'[i].token].index = job'[i].attemptCount
      <3>1. CASE i = j
        BY <2>1, <3>1
      <3>2. CASE i # j
        <4>1. job'[i] = job[i]
          BY <2>1, <3>2
        <4>2. /\ job[i].token \in DOMAIN lease /\ lease[job[i].token].job = i
              /\ job[i].claimedBy = lease[job[i].token].worker
              /\ attempt[job[i].token].index = job[i].attemptCount
          BY <2>3, <4>1 DEF CurrentClaimIsLatest
        <4> QED
          BY <2>1, <4>1, <4>2
      <3> QED
        BY <3>1, <3>2
    <2> QED
      BY <2>2, <2>3, <2>6, <2>7 DEF CurrentClaimIsLatest
  <1>2. ASSUME NEW r \in Heartbeats, NEW run \in BOOLEAN, NEW timeout \in LeaseTimeouts,
               NEW at \in Nows, Heartbeat(r, run, timeout, at)
        PROVE  CurrentClaimIsLatest'
    <2>1. \A j \in Jobs : /\ job'[j].token = job[j].token
                          /\ job'[j].claimedBy = job[j].claimedBy
                          /\ job'[j].attemptCount = job[j].attemptCount
      BY <1>2, HeartbeatEffect
    <2>2. /\ DOMAIN lease' = DOMAIN lease
          /\ \A d \in DOMAIN lease : /\ lease'[d].job = lease[d].job
                                     /\ lease'[d].worker = lease[d].worker
                                     /\ attempt'[d].job = attempt[d].job
                                     /\ attempt'[d].worker = attempt[d].worker
                                     /\ attempt'[d].index = attempt[d].index
      BY <1>2, HeartbeatEffect
    <2> QED
      BY <2>1, <2>2, KeepsCurrentClaim
  <1>3. ASSUME NEW r \in Reports,
               \/ CompleteJob(r)
               \/ \E ending \in FailedAttemptStatuses, next \in FailureNextStatuses,
                     expire \in BOOLEAN, at \in Nows : FailJob(r, ending, next, expire, at)
        PROVE  CurrentClaimIsLatest'
    <2>1. \A j \in Jobs : /\ job'[j].token = job[j].token
                          /\ job'[j].claimedBy = job[j].claimedBy
                          /\ job'[j].attemptCount = job[j].attemptCount
      BY <1>3, ReportEffect
    <2>2. /\ DOMAIN lease' = DOMAIN lease
          /\ \A d \in DOMAIN lease : /\ lease'[d].job = lease[d].job
                                     /\ lease'[d].worker = lease[d].worker
                                     /\ attempt'[d].job = attempt[d].job
                                     /\ attempt'[d].worker = attempt[d].worker
                                     /\ attempt'[d].index = attempt[d].index
      BY <1>3, ReportEffect
    <2> QED
      BY <2>1, <2>2, KeepsCurrentClaim
  <1>4. ASSUME NEW j \in Jobs,
               \/ \E status \in {"CREATED", "QUEUED"} : CreateJob(j, status)
               \/ MarkCancelRequested(j)
               \/ \E status \in {"CANCELLED", "SUPERSEDED"} : MarkEnded(j, status)
        PROVE  CurrentClaimIsLatest'
    BY <1>4, JobWriteEffect, KeepsCurrentClaim
  <1>5. ASSUME NEW c \in DOMAIN lease, RevokeLease(c)
        PROVE  CurrentClaimIsLatest'
    BY <1>5, RevokeLeaseEffect, KeepsCurrentClaim
  <1>6. ASSUME NEW c \in DOMAIN attempt, NEW status, MarkProgress(c, status)
        PROVE  CurrentClaimIsLatest'
    BY <1>6, MarkProgressEffect, KeepsCurrentClaim
  <1>7. CASE UNCHANGED <<job, attempt, lease>>
    BY <1>7 DEF CurrentClaimIsLatest
  <1> QED
    BY <1>1, <1>2, <1>3, <1>4, <1>5, <1>6, <1>7
       DEF Next, ServiceNext, RepositoryNext, ClaimNothing, SetHealth, Tick, vars

\* No two attempts of a job have the same index, and a job's claim columns always name
\* the attempt with the greatest, which names the same job and worker as its lease.
THEOREM CurrentClaimLatest == Spec => []CurrentClaimIsLatest
  <1>1. Init => CurrentClaimIsLatest
    BY DEF Init, CurrentClaimIsLatest
  <1> QED
    BY <1>1, TypeCorrect, StepCurrentClaimIsLatest, PTL DEF Spec

----------------------------------------------------------------------------
(* Action properties *)

\* What each step does to a job that ended, is settled, or is being cancelled, and
\* to a lease that is closed.
LEMMA StepJobs ==
    ASSUME TypeOK, [Next]_vars
    PROVE  /\ \A j \in Jobs : StaysEnded(j) /\ SettledByHolder(j) /\ StaysUnclaimed(j)
           /\ \A c \in DOMAIN lease : StaysClosed(c)
  <1> DEFINE Holds == /\ \A j \in Jobs : /\ StaysEnded(j)
                                         /\ SettledByHolder(j)
                                         /\ StaysUnclaimed(j)
                      /\ \A c \in DOMAIN lease : StaysClosed(c)
  <1> USE DEF StaysEnded, SettledByHolder, StaysUnclaimed, StaysClosed,
              TerminalJobStatuses, FailureNextStatuses
  <1>1. ASSUME NEW w \in Workers, NEW conc \in Concurrencies, NEW j \in Jobs,
               NEW c \in Claims, NEW timeout \in LeaseTimeouts, NEW at \in Nows,
               ClaimJob(w, conc, j, c, timeout, at)
        PROVE  Holds
    <2>1. /\ Claimable(j)
          /\ job'[j].status = "CLAIMED"
          /\ \A i \in Jobs : i # j => job'[i] = job[i]
          /\ \A e \in DOMAIN lease : lease'[e] = lease[e]
      BY <1>1, ClaimJobEffect
    <2>2. StaysEnded(j) /\ SettledByHolder(j) /\ StaysUnclaimed(j)
      BY <2>1 DEF Claimable, ClaimableStatuses
    <2>3. \A i \in Jobs : i # j => StaysEnded(i) /\ SettledByHolder(i) /\ StaysUnclaimed(i)
      BY <2>1
    <2> QED
      BY <2>1, <2>2, <2>3
  <1>2. ASSUME NEW r \in Heartbeats, NEW run \in BOOLEAN, NEW timeout \in LeaseTimeouts,
               NEW at \in Nows, Heartbeat(r, run, timeout, at)
        PROVE  Holds
    <2>1. HoldsLease(r) /\ OwnsClaim(r) /\ r.job \in Jobs
      BY <1>2, HeartbeatEffect
    <2>2. /\ \A i \in Jobs : i # r.job => job'[i] = job[i]
          /\ \/ job'[r.job] = job[r.job]
             \/ /\ job[r.job].status \in {"CLAIMED", "RUNNING"}
                /\ job'[r.job].status = "RUNNING"
          /\ job'[r.job].token = job[r.job].token
          /\ job'[r.job].cancelRequested = job[r.job].cancelRequested
      BY <1>2, HeartbeatEffect
    <2>3. \A d \in DOMAIN lease : d # r.token => lease'[d] = lease[d]
      BY <1>2, HeartbeatEffect
    <2> QED
      BY <2>1, <2>2, <2>3 DEF HoldsLease, OwnsClaim
  <1>3. ASSUME NEW r \in Reports,
               \/ CompleteJob(r)
               \/ \E ending \in FailedAttemptStatuses, next \in FailureNextStatuses,
                     expire \in BOOLEAN, at \in Nows : FailJob(r, ending, next, expire, at)
        PROVE  Holds
    <2>1. HoldsLease(r) /\ OwnsClaim(r) /\ NotTerminal(r.job)
      BY <1>3, ReportEffect DEF MayReport
    <2>2. /\ r.job \in Jobs
          /\ \A i \in Jobs : i # r.job => job'[i] = job[i]
          /\ job'[r.job].token = job[r.job].token
          /\ job'[r.job].cancelRequested = job[r.job].cancelRequested
          /\ \A d \in DOMAIN lease : d # r.token => lease'[d] = lease[d]
      BY <1>3, ReportEffect
    <2> QED
      BY <2>1, <2>2 DEF HoldsLease, OwnsClaim, NotTerminal
  <1>4. ASSUME NEW j \in Jobs,
               \/ \E status \in {"CREATED", "QUEUED"} : CreateJob(j, status)
               \/ MarkCancelRequested(j)
               \/ \E status \in {"CANCELLED", "SUPERSEDED"} : MarkEnded(j, status)
        PROVE  Holds
    <2>1. /\ \A i \in Jobs : i # j => job'[i] = job[i]
          /\ \/ job[j].status = "ABSENT" /\ job'[j].status \in {"CREATED", "QUEUED"}
             \/ NotTerminal(j) /\ job'[j].status = "CANCEL_REQUESTED"
             \/ job'[j].status \in {"CANCELLED", "SUPERSEDED"}
          /\ job'[j].token = job[j].token
          /\ job[j].cancelRequested => job'[j].cancelRequested
          /\ lease' = lease
      BY <1>4, JobWriteEffect
    <2> QED
      BY <2>1 DEF NotTerminal
  <1>5. ASSUME NEW c \in DOMAIN lease, RevokeLease(c)
        PROVE  Holds
    BY <1>5, RevokeLeaseEffect
  <1>6. CASE UNCHANGED <<job, lease>>
    BY <1>6
  <1> QED
    BY <1>1, <1>2, <1>3, <1>4, <1>5, <1>6
       DEF Next, ServiceNext, RepositoryNext, ClaimNothing, SetHealth, Tick, MarkProgress, vars

\* No step brings a job back that has ended.
THEOREM EndedForGood == Spec => NoResurrection
  <1>1. TypeOK /\ [Next]_vars => [\A j \in Jobs : StaysEnded(j)]_vars
    BY StepJobs
  <1> QED
    BY <1>1, TypeCorrect, PTL DEF Spec, NoResurrection

\* Only the holder of the ACTIVE lease of a job's current claim moves the job on, and
\* a closed lease is never touched again.
THEOREM Fenced == Spec => OnlyTheLeaseHolderReports
  <1>1. TypeOK /\ [Next]_vars =>
          [/\ \A j \in Jobs : SettledByHolder(j)
           /\ \A c \in DOMAIN lease : StaysClosed(c)]_vars
    BY StepJobs
  <1> QED
    BY <1>1, TypeCorrect, PTL DEF Spec, OnlyTheLeaseHolderReports

\* A recorded cancel request is never followed by a claim, nor withdrawn.
THEOREM CancelRequestHonoured == Spec => CancelRequestedIsNeverClaimed
  <1>1. TypeOK /\ [Next]_vars => [\A j \in Jobs : StaysUnclaimed(j)]_vars
    BY StepJobs
  <1> QED
    BY <1>1, TypeCorrect, PTL DEF Spec, CancelRequestedIsNeverClaimed

----------------------------------------------------------------------------
(* The lifetime of a lease *)

\* The deadline, the start and the extensions of the lease a claim adds.
LEMMA ClaimLeaseTimes ==
    ASSUME TypeOK, NEW w \in Workers, NEW conc \in Concurrencies, NEW j \in Jobs,
           NEW c \in Claims, NEW timeout \in LeaseTimeouts, NEW at \in Nows,
           ClaimJob(w, conc, j, c, timeout, at)
    PROVE  /\ lease'[c].until = at + timeout
           /\ lease'[c].startedAt = at
           /\ lease'[c].extensions = 0
  BY DEF ClaimJob, Insert

\* LeaseLifetimeBounded is inductive.
LEMMA StepLeaseLifetimeBounded ==
    TypeOK /\ LeaseLifetimeBounded /\ [Next]_vars => LeaseLifetimeBounded'
  <1> SUFFICES ASSUME TypeOK, LeaseLifetimeBounded, [Next]_vars,
                      NEW d \in DOMAIN lease', lease'[d].status = "ACTIVE"
               PROVE  /\ lease'[d].extensions <= MaxExtensions
                      /\ lease'[d].until <=
                           lease'[d].startedAt + (lease'[d].extensions + 1) * LongestTimeout
    BY DEF LeaseLifetimeBounded
  <1> DEFINE Bounded == /\ lease'[d].extensions <= MaxExtensions
                        /\ lease'[d].until <=
                             lease'[d].startedAt + (lease'[d].extensions + 1) * LongestTimeout
  <1>1. ASSUME d \in DOMAIN lease, lease'[d] = lease[d]
        PROVE  Bounded
    BY <1>1 DEF LeaseLifetimeBounded
  <1>2. ASSUME NEW w \in Workers, NEW conc \in Concurrencies, NEW j \in Jobs,
               NEW c \in Claims, NEW timeout \in LeaseTimeouts, NEW at \in Nows,
               ClaimJob(w, conc, j, c, timeout, at)
        PROVE  Bounded
    <2>1. CASE d = c
      <3>1. /\ lease'[d].until = at + timeout
            /\ lease'[d].startedAt = at
            /\ lease'[d].extensions = 0
        BY <1>2, <2>1, ClaimLeaseTimes
      <3>2. /\ at \in Nat /\ timeout \in Nat /\ timeout <= LongestTimeout
            /\ LongestTimeout \in Nat /\ MaxExtensions \in Nat
        BY NowsAreNatural, TimeoutsArePositive, TimesAreNatural
      <3> QED
        BY <3>1, <3>2
    <2>2. CASE d # c
      <3>1. d \in DOMAIN lease /\ lease'[d] = lease[d]
        BY <1>2, <2>2, ClaimJobEffect
      <3> QED
        BY <1>1, <3>1
    <2> QED
      BY <2>1, <2>2
  <1>3. ASSUME NEW r \in Heartbeats, NEW run \in BOOLEAN, NEW timeout \in LeaseTimeouts,
               NEW at \in Nows, Heartbeat(r, run, timeout, at)
        PROVE  Bounded
    <2>1. CASE d = r.token
      <3> DEFINE row == lease[r.token]
      <3>1. /\ r.token \in DOMAIN lease /\ row \in LeaseRows /\ row.status = "ACTIVE"
            /\ lease'[r.token] = ExtendedLease(row, at + timeout)
        BY <1>3, HeartbeatEffect DEF HoldsLease, TypeOK
      <3>2. row.until > at /\ row.extensions < MaxExtensions
        BY <1>3 DEF Heartbeat, BeforeDeadline
      <3>3. /\ at \in Nat /\ timeout \in Nat /\ timeout <= LongestTimeout
            /\ LongestTimeout \in Nat /\ MaxExtensions \in Nat
        BY NowsAreNatural, TimeoutsArePositive, TimesAreNatural
      <3>4. row.extensions \in Nat /\ row.until \in Nat /\ row.startedAt \in Nat
        BY <3>1 DEF LeaseRows
      <3>5. row.until <= row.startedAt + (row.extensions + 1) * LongestTimeout
        BY <3>1 DEF LeaseLifetimeBounded
      <3>6. /\ lease'[d].until = at + timeout
            /\ lease'[d].extensions = row.extensions + 1
            /\ lease'[d].startedAt = row.startedAt
        <4> DEFINE until == at + timeout
        <4>1. until \in Nat /\ lease'[d] = ExtendedLease(row, until)
          BY <2>1, <3>1, <3>3
        <4> HIDE DEF until, row
        <4>2. /\ lease'[d].until = until
              /\ lease'[d].extensions = row.extensions + 1
              /\ lease'[d].startedAt = row.startedAt
          BY <3>1, <4>1, ExtendedLeaseType
        <4> QED
          BY <4>2 DEF until
      <3> HIDE DEF row
      <3>7. \A n, t \in Nat : ((n + 1) + 1) * t = (n + 1) * t + t
        OBVIOUS
      <3>8. (row.extensions + 1) * LongestTimeout \in Nat
        BY <3>3, <3>4
      <3> DEFINE used == (row.extensions + 1) * LongestTimeout
      <3>9. ((row.extensions + 1) + 1) * LongestTimeout = used + LongestTimeout
        BY <3>3, <3>4, <3>7
      <3>10. used \in Nat /\ row.until <= row.startedAt + used
        BY <3>5, <3>8
      <3> HIDE DEF used
      <3>11. at + timeout <= row.startedAt + (used + LongestTimeout)
        BY <3>2, <3>3, <3>4, <3>10
      <3>12. row.extensions + 1 <= MaxExtensions
        BY <3>2, <3>3, <3>4
      <3> QED
        BY <3>6, <3>9, <3>11, <3>12
    <2>2. CASE d # r.token
      BY <1>1, <1>3, <2>2, HeartbeatEffect
    <2> QED
      BY <2>1, <2>2
  <1>4. ASSUME NEW r \in Reports,
               \/ CompleteJob(r)
               \/ \E ending \in FailedAttemptStatuses, next \in FailureNextStatuses,
                     expire \in BOOLEAN, at \in Nows : FailJob(r, ending, next, expire, at)
        PROVE  Bounded
    <2>1. d \in DOMAIN lease /\ lease'[d] = lease[d]
      BY <1>4, ReportEffect
    <2> QED
      BY <1>1, <2>1
  <1>5. ASSUME NEW c \in DOMAIN lease, RevokeLease(c)
        PROVE  Bounded
    <2>1. d \in DOMAIN lease /\ lease'[d] = lease[d]
      BY <1>5, RevokeLeaseEffect
    <2> QED
      BY <1>1, <2>1
  <1>6. CASE UNCHANGED lease
    BY <1>1, <1>6
  <1> QED
    BY <1>2, <1>3, <1>4, <1>5, <1>6
       DEF Next, ServiceNext, RepositoryNext, CreateJob, ClaimNothing, MarkCancelRequested,
           MarkEnded, SetHealth, Tick, MarkProgress, vars

\* An ACTIVE lease is never stretched beyond one timeout for its claim and one for
\* each extension, whatever the heartbeats' timeouts and clock readings are.
THEOREM LifetimeBounded == Spec => []LeaseLifetimeBounded
  <1>1. Init => LeaseLifetimeBounded
    BY DEF Init, LeaseLifetimeBounded
  <1> QED
    BY <1>1, TypeCorrect, StepLeaseLifetimeBounded, PTL DEF Spec

----------------------------------------------------------------------------
(* The slots of a worker *)

\* SlotAccounting is inductive with the fact that finitely many leases exist.
FinitelyManyLeases == IsFiniteSet(DOMAIN lease)

\* The leases a worker occupies a slot for are finitely many.
LEMMA OccupiedIsFinite ==
    ASSUME FinitelyManyLeases, NEW w
    PROVE  IsFiniteSet(Occupied(w)) /\ Cardinality(Occupied(w)) \in Nat
  <1>1. Occupied(w) \subseteq DOMAIN lease
    BY DEF Occupied
  <1> QED
    BY <1>1, FS_Subset, FS_CardinalityType DEF FinitelyManyLeases

\* A step that keeps the slots of each worker and its count keeps the accounting.
LEMMA KeepsSlots ==
    ASSUME SlotAccounting, FinitelyManyLeases, DOMAIN lease' = DOMAIN lease,
           \A d \in DOMAIN lease :
               /\ lease'[d].worker = lease[d].worker
               /\ lease'[d].status \in {"ACTIVE", "REVOKED"}
                    <=> lease[d].status \in {"ACTIVE", "REVOKED"},
           \A w \in Workers : worker'[w].count = worker[w].count
    PROVE  SlotAccounting' /\ FinitelyManyLeases'
  <1>1. \A w \in Workers : Occupied(w)' = Occupied(w)
    BY DEF Occupied
  <1>2. SlotAccounting'
    BY <1>1 DEF SlotAccounting
  <1>3. FinitelyManyLeases'
    BY DEF FinitelyManyLeases
  <1> QED
    BY <1>2, <1>3

\* A claim takes one slot of its worker.
LEMMA ClaimTakesSlot ==
    ASSUME TypeOK, SlotAccounting, FinitelyManyLeases,
           NEW w \in Workers, NEW conc \in Concurrencies, NEW j \in Jobs,
           NEW c \in Claims, NEW timeout \in LeaseTimeouts, NEW at \in Nows,
           ClaimJob(w, conc, j, c, timeout, at)
    PROVE  SlotAccounting' /\ FinitelyManyLeases'
  <1>1. /\ c \notin DOMAIN lease
        /\ \A e : e \in DOMAIN lease' <=> e \in DOMAIN lease \/ e = c
        /\ \A e \in DOMAIN lease : lease'[e] = lease[e]
        /\ lease'[c].worker = w /\ lease'[c].status = "ACTIVE"
    BY ClaimJobEffect
  <1>2. \A v \in Workers : v # w => Occupied(v)' = Occupied(v)
    BY <1>1 DEF Occupied
  <1>3. Occupied(w)' = Occupied(w) \cup {c} /\ c \notin Occupied(w)
    BY <1>1 DEF Occupied
  <1>4. Cardinality(Occupied(w)') = Cardinality(Occupied(w)) + 1
    BY <1>3, OccupiedIsFinite, FS_AddElement
  <1>5. worker' = [worker EXCEPT ![w] = [Registered(w, conc) EXCEPT !.count = @ + 1]]
    BY DEF ClaimJob
  <1>6. /\ worker'[w].count = worker[w].count + 1
        /\ \A v \in Workers : v # w => worker'[v] = worker[v]
    BY <1>5, RegisteredType DEF TypeOK
  <1>7. SlotAccounting'
    BY <1>2, <1>4, <1>6 DEF SlotAccounting
  <1>8. DOMAIN lease' = DOMAIN lease \cup {c}
    BY <1>1
  <1>9. FinitelyManyLeases'
    BY <1>8, FS_AddElement DEF FinitelyManyLeases
  <1> QED
    BY <1>7, <1>9

\* A report gives back the slot of its claim, which was in use: the count it is
\* taken from is not 0.
LEMMA ReportReturnsSlot ==
    ASSUME TypeOK, SlotAccounting, FinitelyManyLeases, NEW r \in Reports,
           \/ CompleteJob(r)
           \/ \E ending \in FailedAttemptStatuses, next \in FailureNextStatuses,
                 expire \in BOOLEAN, at \in Nows : FailJob(r, ending, next, expire, at)
    PROVE  SlotAccounting' /\ FinitelyManyLeases'
  <1> DEFINE w == r.worker
  <1>1. /\ r.token \in DOMAIN lease /\ w \in Workers
        /\ lease[r.token].status = "ACTIVE" /\ lease[r.token].worker = w
    BY ReportEffect DEF MayReport, HoldsLease
  <1>2. /\ DOMAIN lease' = DOMAIN lease
        /\ \A d \in DOMAIN lease : d # r.token => lease'[d] = lease[d]
        /\ lease'[r.token].status \in {"RELEASED", "EXPIRED"}
        /\ lease'[r.token].worker = lease[r.token].worker
    BY ReportEffect
  <1>3. worker' = [worker EXCEPT ![w] =
                     [worker[w] EXCEPT !.count = IF @ = 0 THEN 0 ELSE @ - 1]]
    BY ReportEffect DEF SlotReturned
  <1> HIDE DEF w
  <1>4. \A v \in Workers : v # w => Occupied(v)' = Occupied(v)
    BY <1>1, <1>2 DEF Occupied
  <1>5. Occupied(w)' = Occupied(w) \ {r.token} /\ r.token \in Occupied(w)
    BY <1>1, <1>2 DEF Occupied
  <1>6. Cardinality(Occupied(w)') = Cardinality(Occupied(w)) - 1
    BY <1>5, OccupiedIsFinite, FS_RemoveElement
  <1>7. Cardinality(Occupied(w)) # 0
    BY <1>5, OccupiedIsFinite, FS_EmptySet
  <1>8. worker[w].count = Cardinality(Occupied(w)) /\ worker[w] \in WorkerRows
    BY <1>1 DEF SlotAccounting, TypeOK
  <1>9. /\ worker'[w].count = worker[w].count - 1
        /\ \A v \in Workers : v # w => worker'[v] = worker[v]
    BY <1>1, <1>3, <1>7, <1>8 DEF TypeOK, WorkerRows
  <1>10. SlotAccounting'
    BY <1>4, <1>6, <1>8, <1>9 DEF SlotAccounting
  <1>11. FinitelyManyLeases'
    BY <1>2 DEF FinitelyManyLeases
  <1> QED
    BY <1>10, <1>11

\* Every step keeps the accounting.
LEMMA StepSlotAccounting ==
    TypeOK /\ SlotAccounting /\ FinitelyManyLeases /\ [Next]_vars
        => SlotAccounting' /\ FinitelyManyLeases'
  <1> SUFFICES ASSUME TypeOK, SlotAccounting, FinitelyManyLeases, [Next]_vars
               PROVE  SlotAccounting' /\ FinitelyManyLeases'
    OBVIOUS
  <1>1. ASSUME NEW r \in Heartbeats, NEW run \in BOOLEAN, NEW timeout \in LeaseTimeouts,
               NEW at \in Nows, Heartbeat(r, run, timeout, at)
        PROVE  SlotAccounting' /\ FinitelyManyLeases'
    <2>1. /\ DOMAIN lease' = DOMAIN lease
          /\ \A d \in DOMAIN lease : /\ lease'[d].worker = lease[d].worker
                                     /\ lease'[d].status = lease[d].status
          /\ worker' = worker
      BY <1>1, HeartbeatEffect
    <2> QED
      BY <2>1, KeepsSlots
  <1>2. ASSUME NEW w \in Workers, NEW conc \in Concurrencies, ClaimNothing(w, conc)
        PROVE  SlotAccounting' /\ FinitelyManyLeases'
    <2>1. lease' = lease /\ worker' = [worker EXCEPT ![w] = Registered(w, conc)]
      BY <1>2 DEF ClaimNothing
    <2>2. \A v \in Workers : worker'[v].count = worker[v].count
      BY <2>1, RegisteredType DEF TypeOK
    <2> QED
      BY <2>1, <2>2, KeepsSlots
  <1>3. ASSUME NEW w \in Workers, NEW health \in Healths, SetHealth(w, health)
        PROVE  SlotAccounting' /\ FinitelyManyLeases'
    <2>1. lease' = lease /\ worker' = [worker EXCEPT ![w] = [worker[w] EXCEPT !.health = health]]
      BY <1>3 DEF SetHealth
    <2>2. \A v \in Workers : worker'[v].count = worker[v].count
      BY <2>1 DEF TypeOK, WorkerRows
    <2> QED
      BY <2>1, <2>2, KeepsSlots
  <1>4. ASSUME NEW c \in DOMAIN lease, RevokeLease(c)
        PROVE  SlotAccounting' /\ FinitelyManyLeases'
    BY <1>4, RevokeLeaseEffect, KeepsSlots
  <1>5. CASE UNCHANGED <<lease, worker>>
    BY <1>5, KeepsSlots
  <1> QED
    BY <1>1, <1>2, <1>3, <1>4, <1>5, ClaimTakesSlot, ReportReturnsSlot
       DEF Next, ServiceNext, RepositoryNext, CreateJob, MarkCancelRequested, MarkEnded,
           MarkProgress, Tick, vars

\* No lease exists at the start, so no slot is in use.
LEMMA InitSlotAccounting == Init => SlotAccounting /\ FinitelyManyLeases
  <1> SUFFICES ASSUME Init PROVE SlotAccounting /\ FinitelyManyLeases
    OBVIOUS
  <1>1. DOMAIN lease = {}
    BY DEF Init
  <1>2. \A w \in Workers : Occupied(w) = {} /\ worker[w].count = 0
    BY <1>1 DEF Occupied, Init
  <1> QED
    BY <1>1, <1>2, FS_EmptySet DEF SlotAccounting, FinitelyManyLeases

\* The accounting, with the finiteness it needs, in every run.
LEMMA SlotsAreFinite == Spec => [](SlotAccounting /\ FinitelyManyLeases)
  BY InitSlotAccounting, TypeCorrect, StepSlotAccounting, PTL DEF Spec

\* current_job_count is exactly the number of leases that hold a slot, in every run.
THEOREM SlotsAccounted == Spec => []SlotAccounting
  BY SlotsAreFinite, PTL

\* A step after which no more leases occupy slots gives no worker one more.
LEMMA KeepsCapacity ==
    ASSUME DOMAIN lease' = DOMAIN lease,
           \A d \in DOMAIN lease :
               /\ lease'[d].worker = lease[d].worker
               /\ lease'[d].status \in {"ACTIVE", "REVOKED"}
                    => lease[d].status \in {"ACTIVE", "REVOKED"}
    PROVE  \A w \in Workers : Occupied(w)' \subseteq Occupied(w)
  BY DEF Occupied

\* A step gives a worker a lease only if it is healthy and has a slot left.
LEMMA StepCapacity ==
    ASSUME TypeOK, SlotAccounting, FinitelyManyLeases, [Next]_vars
    PROVE  \A v \in Workers :
              \/ Occupied(v)' \subseteq Occupied(v)
              \/ /\ worker[v].health \notin BlockedHealthStatuses
                 /\ Cardinality(Occupied(v)') <= worker'[v].max
  <1> DEFINE Allowed(v) == \/ Occupied(v)' \subseteq Occupied(v)
                           \/ /\ worker[v].health \notin BlockedHealthStatuses
                              /\ Cardinality(Occupied(v)') <= worker'[v].max
  <1>1. ASSUME NEW w \in Workers, NEW conc \in Concurrencies, NEW j \in Jobs,
               NEW c \in Claims, NEW timeout \in LeaseTimeouts, NEW at \in Nows,
               ClaimJob(w, conc, j, c, timeout, at)
        PROVE  \A v \in Workers : Allowed(v)
    <2>1. /\ c \notin DOMAIN lease
          /\ \A e : e \in DOMAIN lease' <=> e \in DOMAIN lease \/ e = c
          /\ \A e \in DOMAIN lease : lease'[e] = lease[e]
          /\ lease'[c].worker = w /\ lease'[c].status = "ACTIVE"
      BY <1>1, ClaimJobEffect
    <2>2. \A v \in Workers : v # w => Occupied(v)' = Occupied(v)
      BY <2>1 DEF Occupied
    <2>3. Occupied(w)' = Occupied(w) \cup {c} /\ c \notin Occupied(w)
      BY <2>1 DEF Occupied
    <2>4. Cardinality(Occupied(w)') = worker[w].count + 1 /\ worker[w].count \in Nat
      <3>1. Cardinality(Occupied(w)') = Cardinality(Occupied(w)) + 1
        BY <2>3, OccupiedIsFinite, FS_AddElement
      <3>2. Cardinality(Occupied(w)) \in Nat
        BY OccupiedIsFinite
      <3>3. worker[w].count = Cardinality(Occupied(w))
        BY DEF SlotAccounting
      <3> QED
        BY <3>1, <3>2, <3>3
    <2>5. worker[w] \in WorkerRows /\ conc \in Nat
      BY ConcurrencyIsPositive DEF TypeOK
    <2>6. /\ Registered(w, conc).health = worker[w].health
          /\ Registered(w, conc).count = worker[w].count
          /\ Registered(w, conc).max = conc
      BY <2>5 DEF Registered, WorkerRows
    <2>7. worker[w].health \notin BlockedHealthStatuses /\ worker[w].count < conc
      BY <1>1, <2>6 DEF ClaimJob, HasCapacity
    <2>8. worker'[w].max = conc
      <3>1. worker' = [worker EXCEPT ![w] = [Registered(w, conc) EXCEPT !.count = @ + 1]]
        BY <1>1 DEF ClaimJob
      <3>2. \A row \in WorkerRows : [row EXCEPT !.count = @ + 1].max = row.max
        BY DEF WorkerRows
      <3> QED
        BY <2>6, <3>1, <3>2, RegisteredType DEF TypeOK
    <2>9. Allowed(w)
      BY <2>4, <2>5, <2>7, <2>8
    <2> QED
      BY <2>2, <2>9
  <1>2. ASSUME NEW r \in Heartbeats, NEW run \in BOOLEAN, NEW timeout \in LeaseTimeouts,
               NEW at \in Nows, Heartbeat(r, run, timeout, at)
        PROVE  \A v \in Workers : Allowed(v)
    <2>1. /\ DOMAIN lease' = DOMAIN lease
          /\ \A d \in DOMAIN lease : /\ lease'[d].worker = lease[d].worker
                                     /\ lease'[d].status = lease[d].status
      BY <1>2, HeartbeatEffect
    <2> QED
      BY <2>1, KeepsCapacity
  <1>3. ASSUME NEW r \in Reports,
               \/ CompleteJob(r)
               \/ \E ending \in FailedAttemptStatuses, next \in FailureNextStatuses,
                     expire \in BOOLEAN, at \in Nows : FailJob(r, ending, next, expire, at)
        PROVE  \A v \in Workers : Allowed(v)
    <2>1. /\ DOMAIN lease' = DOMAIN lease
          /\ \A d \in DOMAIN lease : d # r.token => lease'[d] = lease[d]
          /\ lease'[r.token].status \in {"RELEASED", "EXPIRED"}
          /\ lease'[r.token].worker = lease[r.token].worker
      BY <1>3, ReportEffect
    <2> QED
      BY <2>1, KeepsCapacity
  <1>4. ASSUME NEW c \in DOMAIN lease, RevokeLease(c)
        PROVE  \A v \in Workers : Allowed(v)
    BY <1>4, RevokeLeaseEffect, KeepsCapacity
  <1>5. CASE UNCHANGED lease
    BY <1>5, KeepsCapacity
  <1> QED
    BY <1>1, <1>2, <1>3, <1>4, <1>5
       DEF Next, ServiceNext, RepositoryNext, CreateJob, ClaimNothing, MarkCancelRequested,
           MarkEnded, SetHealth, MarkProgress, Tick, vars

\* No worker gets a lease while it is DRAINING or OFFLINE or has no slot left.
THEOREM CapacityRespected == Spec => NoLeaseWithoutCapacity
  <1>1. TypeOK /\ SlotAccounting /\ FinitelyManyLeases /\ [Next]_vars =>
          [\A w \in Workers : Occupied(w)' \subseteq Occupied(w)
             \/ /\ worker[w].health \notin BlockedHealthStatuses
                /\ Cardinality(Occupied(w)') <= worker'[w].max]_vars
    BY StepCapacity
  <1> QED
    BY <1>1, TypeCorrect, SlotsAreFinite, PTL DEF Spec, NoLeaseWithoutCapacity

----------------------------------------------------------------------------
(* The three rows of a claim are settled together *)

\* What a report makes of the statuses of its three rows.
LEMMA ReportSettles ==
    ASSUME TypeOK, NEW r \in Reports,
           \/ CompleteJob(r)
           \/ \E ending \in FailedAttemptStatuses, next \in FailureNextStatuses,
                 expire \in BOOLEAN, at \in Nows : FailJob(r, ending, next, expire, at)
    PROVE  /\ \A d \in DOMAIN lease : d # r.token => attempt'[d] = attempt[d]
           /\ \/ /\ attempt'[r.token].status = "COMPLETED"
                 /\ job'[r.job].status = "SUCCEEDED"
                 /\ lease'[r.token].status = "RELEASED"
              \/ /\ attempt'[r.token].status \in FailedAttemptStatuses
                 /\ job'[r.job].status \in FailureNextStatuses
                 /\ lease'[r.token].status \in {"RELEASED", "EXPIRED"}
  <1>1. MayReport(r)
    BY ReportEffect
  <1>2. /\ r.job \in Jobs /\ r.attempt = r.token /\ r.token \in DOMAIN lease
        /\ job[r.job] \in JobRows /\ attempt[r.token] \in AttemptRows
        /\ lease[r.token] \in LeaseRows
        /\ DOMAIN attempt = DOMAIN lease /\ DOMAIN job = Jobs
    BY <1>1, ReportRows DEF TypeOK
  <1>3. CASE CompleteJob(r)
    BY <1>2, <1>3 DEF CompleteJob, AttemptRows, JobRows, LeaseRows
  <1>4. ASSUME NEW ending \in FailedAttemptStatuses, NEW next \in FailureNextStatuses,
               NEW expire \in BOOLEAN, NEW at \in Nows, FailJob(r, ending, next, expire, at)
        PROVE  /\ \A d \in DOMAIN lease : d # r.token => attempt'[d] = attempt[d]
               /\ attempt'[r.token].status \in FailedAttemptStatuses
               /\ job'[r.job].status \in FailureNextStatuses
               /\ lease'[r.token].status \in {"RELEASED", "EXPIRED"}
    <2>1. /\ \A d \in DOMAIN lease : d # r.token => attempt'[d] = attempt[d]
          /\ attempt'[r.token].status \in FailedAttemptStatuses
      BY <1>2, <1>4 DEF FailJob, AttemptRows
    <2>2. job'[r.job] = FailedRow(job[r.job], next)
      BY <1>2, <1>4 DEF FailJob
    <2>3. lease'[r.token] = ClosedLease(lease[r.token], expire, at) /\ at \in Nat
      BY <1>2, <1>4, NowsAreNatural DEF FailJob
    <2>4. job'[r.job].status = next
      BY <1>2, <2>2, FailedRowType
    <2>5. lease'[r.token].status \in {"RELEASED", "EXPIRED"}
      BY <1>2, <2>3, ClosedLeaseType
    <2> QED
      BY <2>1, <2>4, <2>5
  <1> QED
    BY <1>3, <1>4

\* A heartbeat starts at most the attempt it names, and only one that is not further on.
LEMMA HeartbeatAttempts ==
    ASSUME TypeOK, NEW r \in Heartbeats, NEW run \in BOOLEAN,
           NEW timeout \in LeaseTimeouts, NEW at \in Nows, Heartbeat(r, run, timeout, at)
    PROVE  \A d \in DOMAIN lease :
              \/ attempt'[d] = attempt[d]
              \/ /\ attempt[d].status \in {"CLAIMED", "STARTED"}
                 /\ attempt'[d].status = "STARTED"
  <1>1. r.token \in DOMAIN lease /\ DOMAIN attempt = DOMAIN lease
    BY HeartbeatEffect DEF TypeOK
  <1>2. attempt[r.token] \in AttemptRows
    BY <1>1 DEF TypeOK
  <1>3. \/ attempt' = attempt
        \/ /\ attempt[r.token].status \in {"CLAIMED", "STARTED"}
           /\ attempt' = [attempt EXCEPT ![r.token] = [attempt[r.token] EXCEPT !.status = "STARTED"]]
    BY DEF Heartbeat
  <1> QED
    BY <1>1, <1>2, <1>3 DEF AttemptRows

\* SettledTogether is inductive with the claim columns: the attempt of a job that is
\* open or has succeeded is the one its token names, so a step that settles or
\* claims a job touches no other attempt of it.
LEMMA StepSettledTogether ==
    TypeOK /\ CurrentClaimIsLatest /\ SettledTogether /\ [ServiceNext]_vars => SettledTogether'
  <1> SUFFICES ASSUME TypeOK, CurrentClaimIsLatest, SettledTogether, [ServiceNext]_vars
               PROVE  SettledTogether'
    OBVIOUS
  <1> DEFINE ClaimSettled(c) ==
               /\ lease[c].status = "ACTIVE" <=> attempt[c].status \in ActiveAttemptStatuses
               /\ attempt[c].status = "COMPLETED" <=>
                     job[attempt[c].job].token = c /\ job[attempt[c].job].status = "SUCCEEDED"
               /\ lease[c].status = "EXPIRED" => attempt[c].status \in FailedAttemptStatuses
             JobSettled(j) ==
               /\ job[j].status = "SUCCEEDED" => job[j].token # NoClaim
               /\ job[j].status \in {"CLAIMED", "RUNNING"} =>
                     job[j].token # NoClaim /\ lease[job[j].token].status = "ACTIVE"
  <1>a. /\ \A c \in DOMAIN lease : ClaimSettled(c)
        /\ \A j \in Jobs : JobSettled(j)
    BY DEF SettledTogether
  <1>b. /\ \A c \in DOMAIN lease : attempt[c].job = lease[c].job /\ lease[c].job \in Jobs
        /\ \A j \in Jobs : job[j].token # NoClaim =>
              job[j].token \in DOMAIN lease /\ lease[job[j].token].job = j
    BY DEF CurrentClaimIsLatest, TypeOK, LeaseRows
  <1>c. SUFFICES /\ \A c \in DOMAIN lease' : ClaimSettled(c)'
                 /\ \A j \in Jobs : JobSettled(j)'
    BY DEF SettledTogether
  <1>d. /\ "COMPLETED" \notin ActiveAttemptStatuses \cup FailedAttemptStatuses
        /\ ActiveAttemptStatuses \cap FailedAttemptStatuses = {}
        /\ {"CLAIMED", "STARTED"} \subseteq ActiveAttemptStatuses
    BY DEF ActiveAttemptStatuses, FailedAttemptStatuses
  <1>1. ASSUME NEW w \in Workers, NEW conc \in Concurrencies, NEW j \in Jobs,
               NEW c \in Claims, NEW timeout \in LeaseTimeouts, NEW at \in Nows,
               ClaimJob(w, conc, j, c, timeout, at)
        PROVE  /\ \A d \in DOMAIN lease' : ClaimSettled(d)'
               /\ \A i \in Jobs : JobSettled(i)'
    <2>1. /\ Claimable(j) /\ c \notin DOMAIN lease
          /\ \A i \in Jobs : i # j => job'[i] = job[i]
          /\ job'[j].status = "CLAIMED" /\ job'[j].token = c
          /\ \A e : e \in DOMAIN lease' <=> e \in DOMAIN lease \/ e = c
          /\ \A e \in DOMAIN lease : lease'[e] = lease[e] /\ attempt'[e] = attempt[e]
          /\ lease'[c].status = "ACTIVE" /\ attempt'[c].job = j
      BY <1>1, ClaimJobEffect
    <2>2. attempt'[c].status = "CLAIMED"
      BY <1>1 DEF ClaimJob, Insert
    <2>3. job[j].status \notin {"SUCCEEDED", "CLAIMED", "RUNNING"}
      BY <2>1 DEF Claimable, ClaimableStatuses
    <2>4. ClaimSettled(c)'
      BY <1>d, <2>1, <2>2
    <2>5. ASSUME NEW d \in DOMAIN lease
          PROVE  ClaimSettled(d)'
      <3>1. ClaimSettled(d) /\ attempt[d].job \in Jobs
        BY <1>a, <1>b
      <3>2. CASE attempt[d].job = j
        BY <2>1, <2>3, <3>1, <3>2
      <3>3. CASE attempt[d].job # j
        BY <2>1, <3>1, <3>3
      <3> QED
        BY <3>2, <3>3
    <2>6. ASSUME NEW i \in Jobs
          PROVE  JobSettled(i)'
      <3>1. CASE i = j
        BY <2>1, <3>1, NullsAreDistinct
      <3>2. CASE i # j
        BY <1>a, <1>b, <2>1, <3>2
      <3> QED
        BY <3>1, <3>2
    <2> QED
      BY <2>1, <2>4, <2>5, <2>6
  <1>2. ASSUME NEW r \in Heartbeats, NEW run \in BOOLEAN, NEW timeout \in LeaseTimeouts,
               NEW at \in Nows, Heartbeat(r, run, timeout, at)
        PROVE  /\ \A d \in DOMAIN lease' : ClaimSettled(d)'
               /\ \A i \in Jobs : JobSettled(i)'
    <2>1. /\ DOMAIN lease' = DOMAIN lease /\ r.job \in Jobs
          /\ \A d \in DOMAIN lease : lease'[d].status = lease[d].status
          /\ \A d \in DOMAIN lease : attempt'[d].job = attempt[d].job
          /\ \A i \in Jobs : job'[i].token = job[i].token
          /\ \A i \in Jobs : \/ job'[i].status = job[i].status
                             \/ /\ job[i].status \in {"CLAIMED", "RUNNING"}
                                /\ job'[i].status = "RUNNING"
      BY <1>2, HeartbeatEffect
    <2>2. \A d \in DOMAIN lease :
             /\ attempt'[d].status \in ActiveAttemptStatuses
                  <=> attempt[d].status \in ActiveAttemptStatuses
             /\ attempt'[d].status = "COMPLETED" <=> attempt[d].status = "COMPLETED"
             /\ attempt'[d].status \in FailedAttemptStatuses
                  <=> attempt[d].status \in FailedAttemptStatuses
      BY <1>2, <1>d, HeartbeatAttempts
    <2>3. \A i \in Jobs : job'[i].status = "SUCCEEDED" <=> job[i].status = "SUCCEEDED"
      BY <2>1
    <2>4. ASSUME NEW d \in DOMAIN lease
          PROVE  ClaimSettled(d)'
      BY <1>a, <1>b, <2>1, <2>2, <2>3
    <2>5. ASSUME NEW i \in Jobs
          PROVE  JobSettled(i)'
      BY <1>a, <1>b, <2>1
    <2> QED
      BY <2>1, <2>4, <2>5
  <1>3. ASSUME NEW r \in Reports,
               \/ CompleteJob(r)
               \/ \E ending \in FailedAttemptStatuses, next \in FailureNextStatuses,
                     expire \in BOOLEAN, at \in Nows : FailJob(r, ending, next, expire, at)
        PROVE  /\ \A d \in DOMAIN lease' : ClaimSettled(d)'
               /\ \A i \in Jobs : JobSettled(i)'
    <2>1. /\ DOMAIN lease' = DOMAIN lease /\ r.job \in Jobs /\ r.token \in DOMAIN lease
          /\ \A d \in DOMAIN lease : d # r.token => lease'[d] = lease[d]
          /\ \A d \in DOMAIN lease : attempt'[d].job = attempt[d].job
          /\ \A i \in Jobs : i # r.job => job'[i] = job[i]
          /\ job'[r.job].token = job[r.job].token
      BY <1>3, ReportEffect
    <2>2. /\ lease[r.token].job = r.job /\ job[r.job].token = r.token
          /\ job[r.job].status # "SUCCEEDED"
      BY <1>3, ReportEffect
         DEF MayReport, HoldsLease, OwnsClaim, NotTerminal, TerminalJobStatuses
    <2>3. /\ \A d \in DOMAIN lease : d # r.token => attempt'[d] = attempt[d]
          /\ \/ /\ attempt'[r.token].status = "COMPLETED"
                /\ job'[r.job].status = "SUCCEEDED"
                /\ lease'[r.token].status = "RELEASED"
             \/ /\ attempt'[r.token].status \in FailedAttemptStatuses
                /\ job'[r.job].status \in FailureNextStatuses
                /\ lease'[r.token].status \in {"RELEASED", "EXPIRED"}
      BY <1>3, ReportSettles
    <2>4. ClaimSettled(r.token)'
      BY <1>b, <1>d, <2>1, <2>2, <2>3 DEF FailureNextStatuses
    <2>5. ASSUME NEW d \in DOMAIN lease, d # r.token
          PROVE  ClaimSettled(d)'
      <3>1. ClaimSettled(d) /\ attempt[d].job \in Jobs
        BY <1>a, <1>b
      <3>2. CASE attempt[d].job = r.job
        BY <2>1, <2>2, <2>3, <2>5, <3>1, <3>2
      <3>3. CASE attempt[d].job # r.job
        BY <2>1, <2>3, <2>5, <3>1, <3>3
      <3> QED
        BY <3>2, <3>3
    <2>6. ASSUME NEW i \in Jobs
          PROVE  JobSettled(i)'
      <3>1. CASE i = r.job
        BY <1>b, <2>1, <2>2, <2>3, <3>1, NullsAreDistinct DEF FailureNextStatuses, TypeOK
      <3>2. CASE i # r.job
        BY <1>a, <1>b, <2>1, <2>2, <3>2
      <3> QED
        BY <3>1, <3>2
    <2> QED
      BY <2>1, <2>4, <2>5, <2>6
  <1>4. ASSUME NEW j \in Jobs,
               \/ \E status \in {"CREATED", "QUEUED"} : CreateJob(j, status)
               \/ MarkCancelRequested(j)
        PROVE  /\ \A d \in DOMAIN lease' : ClaimSettled(d)'
               /\ \A i \in Jobs : JobSettled(i)'
    <2>1. /\ \A i \in Jobs : i # j => job'[i] = job[i]
          /\ job'[j].token = job[j].token
          /\ UNCHANGED <<attempt, lease>>
      BY <1>4, JobWriteEffect
    <2>2. /\ job[j].status # "SUCCEEDED"
          /\ job'[j].status \in {"CREATED", "QUEUED", "CANCEL_REQUESTED"}
      <3>1. job[j] \in JobRows /\ DOMAIN job = Jobs
        BY DEF TypeOK
      <3> QED
        BY <1>4, <3>1 DEF CreateJob, MarkCancelRequested, NotTerminal, TerminalJobStatuses, JobRows
    <2>3. ASSUME NEW d \in DOMAIN lease
          PROVE  ClaimSettled(d)'
      BY <1>a, <1>b, <2>1, <2>2
    <2>4. ASSUME NEW i \in Jobs
          PROVE  JobSettled(i)'
      BY <1>a, <2>1, <2>2
    <2> QED
      BY <2>1, <2>3, <2>4
  <1>5. CASE UNCHANGED <<job, attempt, lease>>
    BY <1>5, <1>a
  <1> QED
    BY <1>1, <1>2, <1>3, <1>4, <1>5 DEF ServiceNext, ClaimNothing, SetHealth, Tick, vars

\* The services alone are runs of the kernel.
LEMMA ServicesAreKernel == ServiceSpec => Spec
  <1>1. [ServiceNext]_vars => [Next]_vars
    BY DEF Next
  <1> QED
    BY <1>1, PTL DEF ServiceSpec, Spec

\* The services settle the job, the attempt and the lease of a claim together: no
\* report leaves an open lease, an attempt without an end or a job without an owner.
THEOREM RowsSettledTogether == ServiceSpec => []SettledTogether
  <1>1. Init => SettledTogether
    BY DEF Init, SettledTogether
  <1>2. ServiceSpec => []TypeOK /\ []CurrentClaimIsLatest
    BY ServicesAreKernel, TypeCorrect, CurrentClaimLatest, PTL
  <1> QED
    BY <1>1, <1>2, StepSettledTogether, PTL DEF ServiceSpec

=============================================================================
