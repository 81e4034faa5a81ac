-------------------------- MODULE ClaimQueueProofs --------------------------
(***************************************************************************)
(* Proofs about ClaimQueue, for every set of jobs, workers and sessions:   *)
(* the transactions of the kernel, whose statements interleave, implement  *)
(* the one-step rules of ClaimRules.                                       *)
(*                                                                         *)
(* A transaction acts on what it read some statements before.  The         *)
(* invariant SessionInv says what it still knows at each point, and which  *)
(* lock lets it know: the picked job is still queued and the slot free,    *)
(* the lease of a report is still there and its job still the token's.     *)
(* StepFrame is why: a step changes rows only under locks of its own, and  *)
(* takes no lock away from another transaction.                            *)
(***************************************************************************)
EXTENDS ClaimQueue, FiniteSetTheorems, TLAPS

\* What a session knows of the rows it read, by the locks it holds.
SessionInv(s) ==
    LET w == WorkerOf[s]
        j == session[s].job
        t == session[s].token
    IN
    /\ session[s].phase \in {"start", "absent", "locked", "picked"} => lease[s] = NoJob
    /\ session[s].phase \in {"locked", "picked", "allLocked"} => workerLock[w] = s
    /\ At(s, "picked") /\ j # NoJob =>
          /\ jobLock[j] = s /\ job[j].status = "QUEUED"
          /\ j \in CanDo[w] /\ load[w] < Capacity[w]
    /\ session[s].phase \in {"reporting", "leaseLocked", "jobLocked", "allLocked"} =>
          t \in Sessions /\ WorkerOf[t] = w
    /\ session[s].phase \in {"leaseLocked", "jobLocked", "allLocked"} =>
          leaseLock[t] = s /\ lease[t] # NoJob
    /\ session[s].phase \in {"jobLocked", "allLocked"} => jobLock[lease[t]] = s

\* The job of an active lease is claimed, and by the token of the lease.
LeaseHoldsJob ==
    \A t \in Sessions : lease[t] # NoJob =>
        job[lease[t]].status = "CLAIMED" /\ job[lease[t]].token = t

LeasesOf(w) == {t \in Sessions : WorkerOf[t] = w /\ lease[t] # NoJob}

\* current_job_count is the number of the worker's active leases.
LoadIsLeases ==
    \A w \in Workers : IsFiniteSet(LeasesOf(w)) /\ load[w] = Cardinality(LeasesOf(w))

LockInv == TypeOK /\ (\A s \in Sessions : SessionInv(s)) /\ LeaseHoldsJob /\ LoadIsLeases

----------------------------------------------------------------------------
(* Types *)

SessionRecords ==
    [phase: Phases, job: Jobs \cup {NoJob}, token: Sessions \cup {NoSession}]

\* A session moves on, and keeps a job or a token of its own.
LEMMA SessionType ==
    ASSUME session \in [Sessions -> SessionRecords], NEW s \in Sessions, NEW p \in Phases
    PROVE  /\ [session EXCEPT ![s].phase = p] \in [Sessions -> SessionRecords]
           /\ \A j \in Jobs \cup {NoJob} :
                 [session EXCEPT ![s].phase = p, ![s].job = j] \in [Sessions -> SessionRecords]
           /\ \A t \in Sessions :
                 [session EXCEPT ![s].phase = p, ![s].token = t]
                     \in [Sessions -> SessionRecords]
  BY DEF SessionRecords

\* The initial rows, locks and sessions have their types.
LEMMA InitType == Init => TypeOK
  BY SessionsAreTyped DEF Init, TypeOK, Phases

\* The end of a transaction gives back locks and nothing else.
LEMMA ReleaseType ==
    ASSUME TypeOK, NEW s \in Sessions, ReleaseLocks(s)
    PROVE  /\ jobLock' \in [Jobs -> Sessions \cup {NoSession}]
           /\ leaseLock' \in [Sessions -> Sessions \cup {NoSession}]
           /\ workerLock' \in [Workers -> Sessions \cup {NoSession}]
  BY DEF TypeOK, ReleaseLocks

\* Every step keeps the types.
LEMMA StepType == TypeOK /\ [Next]_vars => TypeOK'
  <1> SUFFICES ASSUME TypeOK, [Next]_vars PROVE TypeOK'
    OBVIOUS
  <1> USE SessionsAreTyped
  <1>0. CASE UNCHANGED vars
    BY <1>0 DEF vars, TypeOK
  <1>1. CASE Next
    <2>1. PICK s \in Sessions : Step(s) \/ StartReport(s) \/ Abort(s)
      BY <1>1 DEF Next
    <2>2. /\ session \in [Sessions -> SessionRecords] /\ WorkerOf[s] \in Workers
          /\ session[s].job \in Jobs \cup {NoJob}
          /\ session[s].token \in Sessions \cup {NoSession}
      BY DEF TypeOK, SessionRecords
    <2>3. ASSUME NEW p \in Phases, Goto(s, p) PROVE session' \in [Sessions -> SessionRecords]
      BY <2>2, <2>3, SessionType DEF Goto
    <2>4. ASSUME Rollback(s) PROVE TypeOK'
      <3>1. session' \in [Sessions -> SessionRecords]
        BY <2>3, <2>4 DEF Rollback, Phases
      <3> QED
        BY <2>4, <3>1, ReleaseType DEF Rollback, TypeOK, rows, SessionRecords
    <2>5. CASE FindNoWorker(s)
      <3>1. session' \in [Sessions -> SessionRecords]
        BY <2>3, <2>5 DEF FindNoWorker, Phases
      <3> QED
        BY <2>5, <3>1 DEF FindNoWorker, TypeOK, rows, locks, SessionRecords
    <2>6. CASE LockWorker(s)
      <3>1. session' \in [Sessions -> SessionRecords]
        BY <2>3, <2>6 DEF LockWorker, Phases
      <3> QED
        BY <2>2, <2>6, <3>1 DEF LockWorker, TypeOK, rows, SessionRecords
    <2>7. CASE InsertRefused(s) \/ Refuse(s) \/ Abort(s)
      BY <2>4, <2>7 DEF InsertRefused, Refuse, Abort
    <2>8. CASE PickJob(s)
      <3>1. jobLock' \in [Jobs -> Sessions \cup {NoSession}]
        BY <2>8 DEF PickJob, TypeOK
      <3>2. PICK j \in Jobs \cup {NoJob} :
               session' = [session EXCEPT ![s].phase = "picked", ![s].job = j]
        BY <2>8 DEF PickJob, Candidates
      <3>3. session' \in [Sessions -> SessionRecords]
        <4>1. "picked" \in Phases
          BY DEF Phases
        <4> QED
          BY <2>2, <3>2, <4>1, SessionType
      <3> QED
        BY <2>8, <3>1, <3>3 DEF PickJob, TypeOK, rows, SessionRecords
    <2>9. CASE CommitClaim(s)
      <3>1. session' \in [Sessions -> SessionRecords]
        BY <2>3, <2>9 DEF CommitClaim, Phases
      <3>2. /\ job' \in [Jobs -> [status: {"QUEUED", "CLAIMED", "ENDED"},
                                  token: Sessions \cup {NoSession}]]
            /\ lease' \in [Sessions -> Jobs \cup {NoJob}]
            /\ load' \in [Workers -> Nat]
        <4>1. CASE UNCHANGED <<job, lease, load>>
          BY <4>1 DEF TypeOK
        <4>2. CASE ~UNCHANGED <<job, lease, load>>
          <5>1. /\ session[s].job \in Jobs
                /\ job' = [job EXCEPT ![session[s].job] = [status |-> "CLAIMED", token |-> s]]
                /\ lease' = [lease EXCEPT ![s] = session[s].job]
                /\ load' = [load EXCEPT ![WorkerOf[s]] = @ + 1]
            BY <2>2, <2>9, <4>2 DEF CommitClaim
          <5>2. job' \in [Jobs -> [status: {"QUEUED", "CLAIMED", "ENDED"},
                                   token: Sessions \cup {NoSession}]]
            BY <5>1 DEF TypeOK
          <5>3. lease' \in [Sessions -> Jobs \cup {NoJob}]
            BY <5>1 DEF TypeOK
          <5>4. load' \in [Workers -> Nat]
            BY <2>2, <5>1 DEF TypeOK
          <5> QED
            BY <5>2, <5>3, <5>4
        <4> QED
          BY <4>1, <4>2
      <3> QED
        BY <2>2, <2>9, <3>1, <3>2, ReleaseType DEF CommitClaim, TypeOK, SessionRecords
    <2>10. CASE StartReport(s)
      <3>1. PICK t \in Sessions :
               session' = [session EXCEPT ![s].phase = "reporting", ![s].token = t]
        BY <2>10 DEF StartReport
      <3>2. session' \in [Sessions -> SessionRecords]
        <4>1. "reporting" \in Phases
          BY DEF Phases
        <4> QED
          BY <2>2, <3>1, <4>1, SessionType
      <3> QED
        BY <2>10, <3>2 DEF StartReport, TypeOK, rows, locks, SessionRecords
    <2>11. CASE LockLease(s)
      <3>1. CASE Rollback(s)
        BY <2>4, <3>1
      <3>2. CASE ~Rollback(s)
        <4>1. session' \in [Sessions -> SessionRecords]
          BY <2>3, <2>11, <3>2 DEF LockLease, Phases
        <4> QED
          BY <2>2, <2>11, <3>2, <4>1 DEF LockLease, TypeOK, rows, SessionRecords
      <3> QED
        BY <3>1, <3>2
    <2>12. CASE LockJob(s)
      <3>1. CASE Rollback(s)
        BY <2>4, <3>1
      <3>2. CASE ~Rollback(s)
        <4>1. session' \in [Sessions -> SessionRecords]
          BY <2>3, <2>12, <3>2 DEF LockJob, Phases
        <4> QED
          BY <2>2, <2>12, <3>2, <4>1 DEF LockJob, TypeOK, rows, SessionRecords
      <3> QED
        BY <3>1, <3>2
    <2>13. CASE LockOwnWorker(s)
      <3>1. session' \in [Sessions -> SessionRecords]
        BY <2>3, <2>13 DEF LockOwnWorker, Phases
      <3> QED
        BY <2>2, <2>13, <3>1 DEF LockOwnWorker, TypeOK, rows, SessionRecords
    <2>14. CASE CommitReport(s)
      <3>1. session' \in [Sessions -> SessionRecords]
        BY <2>3, <2>14 DEF CommitReport, Phases
      <3>2. /\ job' \in [Jobs -> [status: {"QUEUED", "CLAIMED", "ENDED"},
                                  token: Sessions \cup {NoSession}]]
            /\ lease' \in [Sessions -> Jobs \cup {NoJob}]
            /\ load' \in [Workers -> Nat] /\ worker' \subseteq Workers
        <4>1. CASE UNCHANGED rows
          BY <4>1 DEF TypeOK, rows
        <4>2. CASE ~UNCHANGED rows
          <5> DEFINE t == session[s].token
          <5>1. PICK status \in {"ENDED", "QUEUED"} :
                   job' = [job EXCEPT ![lease[t]].status = status]
            BY <2>14, <4>2 DEF CommitReport
          <5>2. /\ lease' = [lease EXCEPT ![t] = NoJob] /\ UNCHANGED worker
                /\ load' = [load EXCEPT ![WorkerOf[s]] = IF @ > 0 THEN @ - 1 ELSE 0]
            BY <2>14, <4>2 DEF CommitReport
          <5>3. job' \in [Jobs -> [status: {"QUEUED", "CLAIMED", "ENDED"},
                                   token: Sessions \cup {NoSession}]]
            <6> DEFINE rowType == [status: {"QUEUED", "CLAIMED", "ENDED"},
                                   token: Sessions \cup {NoSession}]
            <6>1. \A row \in rowType : [row EXCEPT !.status = status] \in rowType
              OBVIOUS
            <6>2. job \in [Jobs -> rowType]
              BY DEF TypeOK
            <6> HIDE DEF rowType
            <6>3. job' \in [Jobs -> rowType]
              BY <5>1, <6>1, <6>2
            <6> QED
              BY <6>3 DEF rowType
          <5>4. lease' \in [Sessions -> Jobs \cup {NoJob}]
            BY <5>2 DEF TypeOK
          <5>5. load' \in [Workers -> Nat]
            BY <2>2, <5>2 DEF TypeOK
          <5> QED
            BY <5>2, <5>3, <5>4, <5>5 DEF TypeOK
        <4> QED
          BY <4>1, <4>2
      <3> QED
        BY <2>14, <3>1, <3>2, ReleaseType DEF CommitReport, TypeOK, SessionRecords
    <2> QED
      BY <2>1, <2>5, <2>6, <2>7, <2>8, <2>9, <2>10, <2>11, <2>12, <2>13, <2>14 DEF Step
  <1> QED
    BY <1>0, <1>1

----------------------------------------------------------------------------
(* Locks *)

\* A step changes rows only under its own locks, takes no lock from another session,
\* and ends no lease but one it has locked.
Frame(s) ==
    /\ \A u \in Sessions : u # s => session'[u] = session[u]
    /\ \A j \in Jobs :
          /\ jobLock[j] \notin {s, NoSession} => jobLock'[j] = jobLock[j]
          /\ jobLock[j] # s => job'[j] = job[j]
    /\ \A t \in Sessions :
          /\ leaseLock[t] \notin {s, NoSession} => leaseLock'[t] = leaseLock[t]
          /\ lease[t] # NoJob /\ leaseLock[t] # s => lease'[t] = lease[t]
          /\ lease[t] = NoJob /\ t # s => lease'[t] = NoJob
    /\ \A w \in Workers :
          /\ workerLock[w] \notin {s, NoSession} => workerLock'[w] = workerLock[w]
          /\ workerLock[w] # s => load'[w] = load[w]

\* A rollback is such a step.
LEMMA RollbackFrame ==
    ASSUME TypeOK, NEW s \in Sessions, Rollback(s)
    PROVE  Frame(s) /\ UNCHANGED rows /\ At(s, "done")'
  <1>1. session \in [Sessions -> SessionRecords]
    BY DEF TypeOK, SessionRecords
  <1>2. (\A u \in Sessions : u # s => session'[u] = session[u]) /\ At(s, "done")'
    BY <1>1 DEF Rollback, Goto, At, SessionRecords
  <1>3. UNCHANGED rows /\ ReleaseLocks(s)
    BY DEF Rollback
  <1> QED
    BY <1>2, <1>3 DEF Frame, ReleaseLocks, TypeOK, rows

\* What a committing claim writes, if it found a job.
LEMMA CommitClaimEffect ==
    ASSUME LockInv, NEW s \in Sessions, CommitClaim(s)
    PROVE  \/ /\ UNCHANGED <<job, lease, load>> /\ At(s, "done")'
              /\ \A u \in Sessions : u # s => session'[u] = session[u]
           \/ /\ session[s].job \in Jobs /\ session[s].job # NoJob
              /\ jobLock[session[s].job] = s /\ workerLock[WorkerOf[s]] = s
              /\ job[session[s].job].status = "QUEUED" /\ lease[s] = NoJob
              /\ session[s].job \in CanDo[WorkerOf[s]]
              /\ load[WorkerOf[s]] < Capacity[WorkerOf[s]]
              /\ job' = [job EXCEPT ![session[s].job] = [status |-> "CLAIMED", token |-> s]]
              /\ lease' = [lease EXCEPT ![s] = session[s].job]
              /\ load' = [load EXCEPT ![WorkerOf[s]] = @ + 1]
              /\ At(s, "holding")'
              /\ \A u \in Sessions : u # s => session'[u] = session[u]
  <1>1. /\ session \in [Sessions -> SessionRecords] /\ session[s].job \in Jobs \cup {NoJob}
        /\ SessionInv(s) /\ At(s, "picked")
    BY DEF LockInv, TypeOK, SessionRecords, CommitClaim
  <1>2. CASE session[s].job = NoJob
    BY <1>1, <1>2 DEF CommitClaim, Goto, At, SessionRecords
  <1>3. CASE session[s].job # NoJob
    <2>1. At(s, "holding")' /\ \A u \in Sessions : u # s => session'[u] = session[u]
      BY <1>1, <1>3 DEF CommitClaim, Goto, At, SessionRecords
    <2>2. /\ jobLock[session[s].job] = s /\ workerLock[WorkerOf[s]] = s
          /\ job[session[s].job].status = "QUEUED" /\ lease[s] = NoJob
          /\ session[s].job \in CanDo[WorkerOf[s]]
          /\ load[WorkerOf[s]] < Capacity[WorkerOf[s]]
      BY <1>1, <1>3 DEF SessionInv, At
    <2> QED
      BY <1>1, <1>3, <2>1, <2>2 DEF CommitClaim
  <1> QED
    BY <1>2, <1>3

\* What a committing report writes, unless it is a heartbeat.
LEMMA CommitReportEffect ==
    ASSUME LockInv, NEW s \in Sessions, CommitReport(s), NEW t, t = session[s].token
    PROVE  /\ At(s, "done")'
           /\ \A u \in Sessions : u # s => session'[u] = session[u]
           /\ \/ UNCHANGED rows
              \/ /\ t \in Sessions /\ WorkerOf[t] = WorkerOf[s]
                 /\ lease[t] \in Jobs /\ lease[t] # NoJob
                 /\ leaseLock[t] = s /\ jobLock[lease[t]] = s
                 /\ workerLock[WorkerOf[s]] = s
                 /\ job[lease[t]].status = "CLAIMED" /\ job[lease[t]].token = t
                 /\ job'[lease[t]].status \in {"ENDED", "QUEUED"}
                 /\ \A j \in Jobs : j # lease[t] => job'[j] = job[j]
                 /\ lease' = [lease EXCEPT ![t] = NoJob]
                 /\ load' = [load EXCEPT ![WorkerOf[s]] = IF @ > 0 THEN @ - 1 ELSE 0]
  <1>1. /\ session \in [Sessions -> SessionRecords]
        /\ SessionInv(s) /\ At(s, "allLocked") /\ LeaseHoldsJob /\ TypeOK
    BY DEF LockInv, TypeOK, SessionRecords, CommitReport
  <1>2. At(s, "done")' /\ \A u \in Sessions : u # s => session'[u] = session[u]
    BY <1>1 DEF CommitReport, Goto, At, SessionRecords
  <1>3. /\ t \in Sessions /\ WorkerOf[t] = WorkerOf[s] /\ lease[t] # NoJob
        /\ leaseLock[t] = s /\ jobLock[lease[t]] = s /\ workerLock[WorkerOf[s]] = s
    BY <1>1 DEF SessionInv, At
  <1>4. /\ lease[t] \in Jobs
        /\ job[lease[t]].status = "CLAIMED" /\ job[lease[t]].token = t
    BY <1>1, <1>3 DEF LeaseHoldsJob, TypeOK
  <1>5. CASE UNCHANGED rows
    BY <1>2, <1>5
  <1>6. CASE ~UNCHANGED rows
    <2>1. PICK status \in {"ENDED", "QUEUED"} :
             job' = [job EXCEPT ![lease[t]].status = status]
      BY <1>6 DEF CommitReport
    <2>2. /\ lease' = [lease EXCEPT ![t] = NoJob]
          /\ load' = [load EXCEPT ![WorkerOf[s]] = IF @ > 0 THEN @ - 1 ELSE 0]
      BY <1>6 DEF CommitReport
    <2>3. /\ job'[lease[t]].status \in {"ENDED", "QUEUED"}
          /\ \A j \in Jobs : j # lease[t] => job'[j] = job[j]
      BY <1>1, <1>4, <2>1 DEF TypeOK
    <2> QED
      BY <1>2, <1>3, <1>4, <2>2, <2>3
  <1> QED
    BY <1>5, <1>6

\* Every step stays within the frame of its session.
LEMMA StepFrame ==
    ASSUME LockInv, NEW s \in Sessions, Step(s) \/ StartReport(s) \/ Abort(s)
    PROVE  Frame(s)
  <1>0. /\ TypeOK /\ session \in [Sessions -> SessionRecords] /\ WorkerOf[s] \in Workers
    BY SessionsAreTyped DEF LockInv, TypeOK, SessionRecords
  <1>1. CASE Rollback(s)
    BY <1>0, <1>1, RollbackFrame
  <1>2. CASE FindNoWorker(s) \/ LockWorker(s) \/ LockOwnWorker(s)
    BY <1>0, <1>2
       DEF FindNoWorker, LockWorker, LockOwnWorker, Frame, Goto, TypeOK, rows, locks,
           SessionRecords
  <1>3. CASE PickJob(s)
    <2>1. \A u \in Sessions : u # s => session'[u] = session[u]
      BY <1>0, <1>3 DEF PickJob, SessionRecords
    <2>2. \A j \in Jobs : jobLock[j] \notin {s, NoSession} => jobLock'[j] = jobLock[j]
      BY <1>3 DEF PickJob, Candidates
    <2> QED
      BY <1>3, <2>1, <2>2 DEF PickJob, Frame, rows
  <1>4. CASE StartReport(s)
    BY <1>0, <1>4 DEF StartReport, Frame, rows, locks, SessionRecords
  <1>5. CASE LockLease(s) \/ LockJob(s)
    BY <1>0, <1>1, <1>5 DEF LockLease, LockJob, Frame, Goto, TypeOK, rows, SessionRecords
  <1>6. CASE CommitClaim(s)
    <2>1. ReleaseLocks(s)
      BY <1>6 DEF CommitClaim
    <2>2. \A u \in Sessions : u # s => session'[u] = session[u]
      BY <1>6, CommitClaimEffect
    <2>3. /\ \A j \in Jobs : jobLock[j] # s => job'[j] = job[j]
          /\ \A t \in Sessions : t # s \/ lease[t] # NoJob => lease'[t] = lease[t]
          /\ \A w \in Workers : workerLock[w] # s => load'[w] = load[w]
      <3>1. CASE UNCHANGED <<job, lease, load>>
        BY <3>1
      <3>2. CASE ~UNCHANGED <<job, lease, load>>
        <4>1. /\ jobLock[session[s].job] = s /\ workerLock[WorkerOf[s]] = s
              /\ lease[s] = NoJob
              /\ job' = [job EXCEPT ![session[s].job] = [status |-> "CLAIMED", token |-> s]]
              /\ lease' = [lease EXCEPT ![s] = session[s].job]
              /\ load' = [load EXCEPT ![WorkerOf[s]] = @ + 1]
          BY <1>6, <3>2, CommitClaimEffect
        <4> QED
          BY <1>0, <4>1 DEF TypeOK
      <3> QED
        BY <3>1, <3>2
    <2> QED
      BY <1>0, <2>1, <2>2, <2>3 DEF Frame, ReleaseLocks, TypeOK
  <1>7. CASE CommitReport(s)
    <2>1. ReleaseLocks(s)
      BY <1>7 DEF CommitReport
    <2> QED
      BY <1>0, <1>7, <2>1, CommitReportEffect DEF Frame, ReleaseLocks, TypeOK, rows
  <1> QED
    BY <1>1, <1>2, <1>3, <1>4, <1>5, <1>6, <1>7 DEF Step, InsertRefused, Refuse, Abort

\* What a session knows stays true whatever another session does.
LEMMA OthersKeepKnowing ==
    ASSUME LockInv, NEW s \in Sessions, Frame(s), NEW u \in Sessions, u # s
    PROVE  SessionInv(u)'
  <1>1. /\ SessionInv(u) /\ session'[u] = session[u] /\ u \notin {s, NoSession}
        /\ WorkerOf[u] \in Workers
    BY SessionsAreTyped DEF LockInv, Frame
  <1>2. lease[u] = NoJob => lease'[u] = NoJob
    BY DEF Frame
  <1>3. \A w \in Workers : workerLock[w] = u => workerLock'[w] = u /\ load'[w] = load[w]
    BY <1>1 DEF Frame
  <1>4. \A j \in Jobs : jobLock[j] = u => jobLock'[j] = u /\ job'[j] = job[j]
    BY <1>1 DEF Frame
  <1>5. \A t \in Sessions :
           leaseLock[t] = u /\ lease[t] # NoJob => leaseLock'[t] = u /\ lease'[t] = lease[t]
    BY <1>1 DEF Frame
  <1>6. /\ session[u].job \in Jobs \cup {NoJob}
        /\ \A t \in Sessions : lease[t] \in Jobs \cup {NoJob}
    BY DEF LockInv, TypeOK
  <1> QED
    BY <1>1, <1>2, <1>3, <1>4, <1>5, <1>6 DEF SessionInv, At

----------------------------------------------------------------------------
(* The invariant *)

\* What the session of a step knows after it.
LEMMA StepSession ==
    ASSUME LockInv, NEW s \in Sessions, Step(s) \/ StartReport(s) \/ Abort(s)
    PROVE  SessionInv(s)'
  <1>0. /\ TypeOK /\ session \in [Sessions -> SessionRecords] /\ SessionInv(s)
        /\ WorkerOf[s] \in Workers
    BY SessionsAreTyped DEF LockInv, TypeOK, SessionRecords
  <1>1. ASSUME At(s, "done")' PROVE SessionInv(s)'
    BY <1>1 DEF SessionInv, At
  <1>2. CASE Rollback(s)
    BY <1>0, <1>1, <1>2, RollbackFrame
  <1>3. CASE FindNoWorker(s)
    <2>1. /\ session'[s].phase = "absent" /\ UNCHANGED lease
          /\ session[s].phase = "start"
      BY <1>0, <1>3 DEF FindNoWorker, Goto, At, SessionRecords, rows
    <2> QED
      BY <1>0, <2>1 DEF SessionInv, At
  <1>4. CASE LockWorker(s)
    <2>1. /\ session'[s].phase = "locked" /\ UNCHANGED lease
          /\ session[s].phase \in {"start", "absent"} /\ workerLock'[WorkerOf[s]] = s
      BY <1>0, <1>4 DEF LockWorker, Goto, At, SessionRecords, rows, TypeOK
    <2> QED
      BY <1>0, <2>1 DEF SessionInv, At
  <1>5. CASE PickJob(s)
    <2> DEFINE fit == Candidates(s) \cap CanDo[WorkerOf[s]]
    <2>1. PICK j \in IF fit = {} THEN {NoJob} ELSE fit :
             session' = [session EXCEPT ![s].phase = "picked", ![s].job = j]
      BY <1>5 DEF PickJob
    <2>2. /\ session'[s].phase = "picked" /\ session'[s].job = j
          /\ session[s].phase = "locked" /\ UNCHANGED <<rows, workerLock>>
      BY <1>0, <1>5, <2>1 DEF PickJob, At, SessionRecords
    <2>3. j # NoJob => /\ j \in Candidates(s) /\ j \in CanDo[WorkerOf[s]]
      BY <2>1
    <2>4. j # NoJob => jobLock'[j] = s /\ job[j].status = "QUEUED"
      BY <1>5, <2>3 DEF PickJob, Candidates
    <2>5. load[WorkerOf[s]] < Capacity[WorkerOf[s]]
      BY <1>5 DEF PickJob
    <2> QED
      BY <1>0, <2>2, <2>3, <2>4, <2>5 DEF SessionInv, At, rows
  <1>6. CASE CommitClaim(s)
    <2>1. session'[s].phase \in {"done", "holding"}
      BY <1>6, CommitClaimEffect DEF At
    <2> QED
      BY <2>1 DEF SessionInv, At
  <1>7. CASE StartReport(s)
    <2>1. PICK t \in Sessions :
             /\ WorkerOf[t] = WorkerOf[s]
             /\ session' = [session EXCEPT ![s].phase = "reporting", ![s].token = t]
      BY <1>7 DEF StartReport
    <2>2. session'[s].phase = "reporting" /\ session'[s].token = t
      BY <1>0, <2>1 DEF SessionRecords
    <2> QED
      BY <2>1, <2>2 DEF SessionInv, At
  <1>8. CASE LockLease(s) /\ ~Rollback(s)
    <2>1. /\ session'[s].phase = "leaseLocked" /\ session'[s].token = session[s].token
          /\ session[s].phase = "reporting" /\ UNCHANGED lease
          /\ lease[session[s].token] # NoJob
          /\ leaseLock' = [leaseLock EXCEPT ![session[s].token] = s]
      BY <1>0, <1>8 DEF LockLease, Goto, At, SessionRecords, rows
    <2>2. /\ session[s].token \in Sessions /\ WorkerOf[session[s].token] = WorkerOf[s]
          /\ leaseLock'[session[s].token] = s
      BY <1>0, <2>1 DEF SessionInv, TypeOK
    <2> QED
      BY <2>1, <2>2 DEF SessionInv, At
  <1>9. CASE LockJob(s) /\ ~Rollback(s)
    <2>1. /\ session'[s].phase = "jobLocked" /\ session'[s].token = session[s].token
          /\ session[s].phase = "leaseLocked" /\ UNCHANGED <<lease, leaseLock>>
          /\ jobLock' = [jobLock EXCEPT ![lease[session[s].token]] = s]
      BY <1>0, <1>9 DEF LockJob, Goto, At, SessionRecords, rows
    <2>2. /\ session[s].token \in Sessions /\ WorkerOf[session[s].token] = WorkerOf[s]
          /\ leaseLock[session[s].token] = s /\ lease[session[s].token] # NoJob
      BY <1>0, <2>1 DEF SessionInv
    <2>3. jobLock'[lease[session[s].token]] = s
      BY <1>0, <2>1, <2>2 DEF TypeOK
    <2> QED
      BY <2>1, <2>2, <2>3 DEF SessionInv, At
  <1>10. CASE LockOwnWorker(s)
    <2>1. /\ session'[s].phase = "allLocked" /\ session'[s].token = session[s].token
          /\ session[s].phase = "jobLocked" /\ UNCHANGED <<lease, leaseLock, jobLock>>
          /\ workerLock'[WorkerOf[s]] = s
      BY <1>0, <1>10 DEF LockOwnWorker, Goto, At, SessionRecords, rows, TypeOK
    <2> QED
      BY <1>0, <2>1 DEF SessionInv, At
  <1>11. CASE CommitReport(s)
    BY <1>1, <1>11, CommitReportEffect
  <1> QED
    BY <1>2, <1>3, <1>4, <1>5, <1>6, <1>7, <1>8, <1>9, <1>10, <1>11
       DEF Step, InsertRefused, Refuse, Abort

\* Only the commits of claims and reports change a job, a lease or a load.
LEMMA StepWrites ==
    ASSUME LockInv, NEW s \in Sessions, Step(s) \/ StartReport(s) \/ Abort(s),
           ~CommitClaim(s), ~CommitReport(s)
    PROVE  UNCHANGED <<job, lease, load>>
  <1>1. CASE Rollback(s)
    BY <1>1 DEF Rollback, rows
  <1>2. CASE ~Rollback(s)
    BY <1>2
       DEF Step, StartReport, Abort, FindNoWorker, LockWorker, InsertRefused, Refuse,
           PickJob, LockLease, LockJob, LockOwnWorker, rows
  <1> QED
    BY <1>1, <1>2

\* A lease is made with its claim and ends with it.
LEMMA StepLeaseHoldsJob ==
    ASSUME LockInv, NEW s \in Sessions, Step(s) \/ StartReport(s) \/ Abort(s)
    PROVE  LeaseHoldsJob'
  <1>0. TypeOK /\ LeaseHoldsJob
    BY DEF LockInv
  <1>1. CASE UNCHANGED <<job, lease, load>>
    BY <1>0, <1>1 DEF LeaseHoldsJob
  <1>2. CASE CommitClaim(s) /\ ~UNCHANGED <<job, lease, load>>
    <2>1. /\ session[s].job \in Jobs /\ job[session[s].job].status = "QUEUED"
          /\ job' = [job EXCEPT ![session[s].job] = [status |-> "CLAIMED", token |-> s]]
          /\ lease' = [lease EXCEPT ![s] = session[s].job]
      BY <1>2, CommitClaimEffect
    <2> QED
      BY <1>0, <2>1 DEF LeaseHoldsJob, TypeOK
  <1>3. CASE CommitReport(s) /\ ~UNCHANGED <<job, lease, load>>
    <2> DEFINE t == session[s].token
    <2>1. /\ t \in Sessions /\ job[lease[t]].token = t
          /\ \A j \in Jobs : j # lease[t] => job'[j] = job[j]
          /\ lease' = [lease EXCEPT ![t] = NoJob]
      BY <1>3, CommitReportEffect DEF rows
    <2> QED
      BY <1>0, <2>1 DEF LeaseHoldsJob, TypeOK
  <1> QED
    BY <1>1, <1>2, <1>3, StepWrites

\* A claim adds one lease of its worker, a report takes one away.
LEMMA StepLoadIsLeases ==
    ASSUME LockInv, NEW s \in Sessions, Step(s) \/ StartReport(s) \/ Abort(s)
    PROVE  LoadIsLeases'
  <1>0. TypeOK /\ LoadIsLeases /\ WorkerOf[s] \in Workers
    BY SessionsAreTyped DEF LockInv
  <1>1. CASE UNCHANGED <<job, lease, load>>
    BY <1>0, <1>1 DEF LoadIsLeases, LeasesOf
  <1>2. CASE CommitClaim(s) /\ ~UNCHANGED <<job, lease, load>>
    <2>1. /\ session[s].job # NoJob /\ lease[s] = NoJob
          /\ lease' = [lease EXCEPT ![s] = session[s].job]
          /\ load' = [load EXCEPT ![WorkerOf[s]] = @ + 1]
      BY <1>2, CommitClaimEffect
    <2> SUFFICES ASSUME NEW w \in Workers
                 PROVE  IsFiniteSet(LeasesOf(w)') /\ load'[w] = Cardinality(LeasesOf(w)')
      BY DEF LoadIsLeases
    <2>2. IsFiniteSet(LeasesOf(w)) /\ load[w] = Cardinality(LeasesOf(w))
      BY <1>0 DEF LoadIsLeases
    <2>3. CASE w = WorkerOf[s]
      <3>1. LeasesOf(w)' = LeasesOf(w) \cup {s} /\ s \notin LeasesOf(w)
        BY <1>0, <2>1, <2>3 DEF LeasesOf, TypeOK
      <3>2. /\ IsFiniteSet(LeasesOf(w)')
            /\ Cardinality(LeasesOf(w)') = Cardinality(LeasesOf(w)) + 1
        BY <2>2, <3>1, FS_AddElement
      <3>3. load'[w] = load[w] + 1
        BY <1>0, <2>1, <2>3 DEF TypeOK
      <3> QED
        BY <2>2, <3>2, <3>3
    <2>4. CASE w # WorkerOf[s]
      <3>1. LeasesOf(w)' = LeasesOf(w) /\ load'[w] = load[w]
        BY <1>0, <2>1, <2>4 DEF LeasesOf, TypeOK
      <3> QED
        BY <2>2, <3>1
    <2> QED
      BY <2>3, <2>4
  <1>3. CASE CommitReport(s) /\ ~UNCHANGED <<job, lease, load>>
    <2> DEFINE t == session[s].token
    <2>1. /\ t \in Sessions /\ WorkerOf[t] = WorkerOf[s] /\ lease[t] # NoJob
          /\ lease' = [lease EXCEPT ![t] = NoJob]
          /\ load' = [load EXCEPT ![WorkerOf[s]] = IF @ > 0 THEN @ - 1 ELSE 0]
      BY <1>3, CommitReportEffect DEF rows
    <2> SUFFICES ASSUME NEW w \in Workers
                 PROVE  IsFiniteSet(LeasesOf(w)') /\ load'[w] = Cardinality(LeasesOf(w)')
      BY DEF LoadIsLeases
    <2>2. IsFiniteSet(LeasesOf(w)) /\ load[w] = Cardinality(LeasesOf(w))
      BY <1>0 DEF LoadIsLeases
    <2>3. CASE w = WorkerOf[s]
      <3>1. LeasesOf(w)' = LeasesOf(w) \ {t} /\ t \in LeasesOf(w)
        BY <1>0, <2>1, <2>3 DEF LeasesOf, TypeOK
      <3>2. /\ IsFiniteSet(LeasesOf(w)')
            /\ Cardinality(LeasesOf(w)') = Cardinality(LeasesOf(w)) - 1
        BY <2>2, <3>1, FS_RemoveElement
      <3>3. Cardinality(LeasesOf(w)) > 0
        <4>1. Cardinality(LeasesOf(w)) \in Nat /\ LeasesOf(w) # {}
          BY <2>2, <3>1, FS_CardinalityType
        <4>2. Cardinality(LeasesOf(w)) # 0
          BY <2>2, <4>1, FS_EmptySet
        <4> QED
          BY <4>1, <4>2
      <3>4. load'[w] = load[w] - 1
        BY <1>0, <2>1, <2>2, <2>3, <3>3 DEF TypeOK
      <3> QED
        BY <2>2, <3>2, <3>4
    <2>4. CASE w # WorkerOf[s]
      <3>1. LeasesOf(w)' = LeasesOf(w) /\ load'[w] = load[w]
        BY <1>0, <2>1, <2>4 DEF LeasesOf, TypeOK
      <3> QED
        BY <2>2, <3>1
    <2> QED
      BY <2>3, <2>4
  <1> QED
    BY <1>1, <1>2, <1>3, StepWrites

\* At the start no row is locked and nothing is leased.
LEMMA InitLockInv == Init => LockInv
  <1> SUFFICES ASSUME Init PROVE LockInv
    OBVIOUS
  <1>1. \A s \in Sessions : SessionInv(s)
    BY DEF Init, SessionInv, At
  <1>2. LeaseHoldsJob
    BY DEF Init, LeaseHoldsJob
  <1>3. \A w \in Workers : LeasesOf(w) = {}
    BY DEF Init, LeasesOf
  <1>4. LoadIsLeases
    BY <1>3, FS_EmptySet DEF Init, LoadIsLeases
  <1> QED
    BY <1>1, <1>2, <1>4, InitType DEF LockInv

\* The invariant is inductive.
LEMMA StepLockInv == LockInv /\ [Next]_vars => LockInv'
  <1> SUFFICES ASSUME LockInv, [Next]_vars PROVE LockInv'
    OBVIOUS
  <1>1. TypeOK'
    BY StepType DEF LockInv
  <1>2. CASE UNCHANGED vars
    <2>1. (\A s \in Sessions : SessionInv(s)')
      BY <1>2 DEF LockInv, vars, SessionInv, At
    <2>2. LeaseHoldsJob' /\ LoadIsLeases'
      BY <1>2 DEF LockInv, vars, LeaseHoldsJob, LoadIsLeases, LeasesOf
    <2> QED
      BY <1>1, <2>1, <2>2 DEF LockInv
  <1>3. CASE Next
    <2>1. PICK s \in Sessions : Step(s) \/ StartReport(s) \/ Abort(s)
      BY <1>3 DEF Next
    <2>2. \A u \in Sessions : SessionInv(u)'
      BY <2>1, StepSession, StepFrame, OthersKeepKnowing
    <2> QED
      BY <1>1, <2>1, <2>2, StepLeaseHoldsJob, StepLoadIsLeases DEF LockInv
  <1> QED
    BY <1>2, <1>3

\* What every transaction knows of the rows it has locked, in every run.
THEOREM LocksKeepKnowledge == Spec => []LockInv
  BY InitLockInv, StepLockInv, PTL DEF Spec

----------------------------------------------------------------------------
(* The rules *)

\* The rules start with no job held and none ended.
LEMMA InitRules == Init => Rules!Init
  BY DEF Init, Rules!Init, Holder

HolderOf == [j \in Jobs |-> Holder(j)]
Ended == {j \in Jobs : job[j].status = "ENDED"}

\* Every step is a claim or a report of the rules, or none of their business.
LEMMA StepRules ==
    ASSUME LockInv, [Next]_vars
    PROVE  Rules!Next \/ UNCHANGED <<HolderOf, Ended, load>>
  <1>0. TypeOK /\ LoadIsLeases
    BY DEF LockInv
  <1> USE SessionsAreTyped
  <1>1. CASE UNCHANGED <<job, lease, load>>
    BY <1>1 DEF HolderOf, Holder, Ended
  <1>2. CASE UNCHANGED vars
    BY <1>1, <1>2 DEF vars
  <1>3. CASE Next /\ ~UNCHANGED <<job, lease, load>>
    <2>1. PICK s \in Sessions : Step(s) \/ StartReport(s) \/ Abort(s)
      BY <1>3 DEF Next
    <2> DEFINE w == WorkerOf[s]
    <2>2. w \in Workers
      OBVIOUS
    <2>3. CASE CommitClaim(s)
      <3>0. PICK j \in Jobs : j = session[s].job
        BY <1>3, <2>3, CommitClaimEffect
      <3>1. /\ job[j].status = "QUEUED" /\ j \in CanDo[w]
            /\ load[w] < Capacity[w]
            /\ job' = [job EXCEPT ![j] = [status |-> "CLAIMED", token |-> s]]
            /\ load' = [load EXCEPT ![w] = @ + 1]
        BY <1>3, <2>3, <3>0, CommitClaimEffect
      <3> HIDE DEF w
      <3>2. /\ job'[j] = [status |-> "CLAIMED", token |-> s]
            /\ \A k \in Jobs : k # j => job'[k] = job[k]
        BY <1>0, <3>1 DEF TypeOK
      <3>3. HolderOf' = [HolderOf EXCEPT ![j] = w]
        <4>1. Holder(j)' = w
          BY <3>2 DEF Holder, w
        <4>2. \A k \in Jobs : k # j => Holder(k)' = Holder(k)
          BY <3>2 DEF Holder
        <4> QED
          BY <4>1, <4>2 DEF HolderOf
      <3>4. Ended' = Ended /\ j \notin Ended
        BY <3>1, <3>2 DEF Ended
      <3>5. HolderOf[j] = NoWorker
        BY <3>1 DEF HolderOf, Holder
      <3>6. Rules!Claim(w, j)
        BY <3>1, <3>3, <3>4, <3>5 DEF Rules!Claim, HolderOf, Ended
      <3> QED
        BY <2>2, <3>1, <3>6 DEF Rules!Next
    <2>4. CASE CommitReport(s)
      <3> DEFINE t == session[s].token
      <3>0. PICK j \in Jobs : j = lease[t]
        BY <1>3, <2>4, CommitReportEffect DEF rows
      <3>1. /\ t \in Sessions /\ WorkerOf[t] = w /\ lease[t] # NoJob
            /\ job[j].status = "CLAIMED" /\ job[j].token = t
            /\ job'[j].status \in {"ENDED", "QUEUED"}
            /\ \A k \in Jobs : k # j => job'[k] = job[k]
            /\ load' = [load EXCEPT ![w] = IF @ > 0 THEN @ - 1 ELSE 0]
        BY <1>3, <2>4, <3>0, CommitReportEffect DEF rows
      <3>2. load[w] > 0
        <4>1. t \in LeasesOf(w)
          BY <3>1 DEF LeasesOf
        <4>2. IsFiniteSet(LeasesOf(w)) /\ load[w] = Cardinality(LeasesOf(w))
          BY <1>0, <2>2 DEF LoadIsLeases
        <4>3. Cardinality(LeasesOf(w)) \in Nat /\ Cardinality(LeasesOf(w)) # 0
          BY <4>1, <4>2, FS_CardinalityType, FS_EmptySet
        <4> QED
          BY <4>2, <4>3
      <3> HIDE DEF t, w
      <3>3. load' = [load EXCEPT ![w] = @ - 1]
        BY <1>0, <2>2, <3>1, <3>2 DEF TypeOK
      <3>4. HolderOf' = [HolderOf EXCEPT ![j] = NoWorker] /\ HolderOf[j] = w
        BY <3>1 DEF HolderOf, Holder
      <3>5. Ended' \in {Ended, Ended \cup {j}}
        BY <3>1 DEF Ended
      <3>6. Rules!Report(w, j)
        BY <3>3, <3>4, <3>5 DEF Rules!Report, HolderOf, Ended
      <3> QED
        BY <2>2, <3>6 DEF Rules!Next
    <2> QED
      BY <1>3, <2>1, <2>3, <2>4, StepWrites
  <1> QED
    BY <1>1, <1>2, <1>3

\* The locks make one step of each transaction: a claim takes a job that is still queued
\* with a slot that is still free, and only the holder of a job ends it or puts it back.
THEOREM TransactionsFollowTheRules == Spec => FollowsTheRules
  <1>1. LockInv /\ [Next]_vars => [Rules!Next]_<<HolderOf, Ended, load>>
    BY StepRules
  <1> QED
    BY <1>1, InitRules, InitLockInv, StepLockInv, PTL
       DEF Spec, FollowsTheRules, Rules!Spec, HolderOf, Ended

=============================================================================
