------------------------- MODULE RuntimeAssetsProofs -------------------------
(***************************************************************************)
(* Proofs about RuntimeAssets, for every set of jobs and of runs.          *)
(*                                                                         *)
(* MaterializedHasObject is not inductive: what keeps the etag of a row    *)
(* and the object apart is that a run looks for the object, uploads it and *)
(* writes the row under one row lock (LockIsHeld), so that nobody else     *)
(* stores the object after the look (UploadsToFreeKey) and the object the  *)
(* run has seen is still the one stored (EtagIsCurrent).                   *)
(*                                                                         *)
(* JobAndArtifactAgree is about runs that skip a write, as the row they    *)
(* loaded had the value already.  What they loaded was committed by a run  *)
(* that has ended, and it is still there as long as no second one has:     *)
(* AgreementInv counts the outcomes committed, not the runs.               *)
(***************************************************************************)
EXTENDS RuntimeAssets, TLAPS

\* Past the flush of the registration, up to the commit.
LockPhases == {"checking", "uploading", "storing"}

\* Between the flush and the commit a run has the row, or its key, to itself.
LockIsHeld == \A r \in Runs : run[r].phase \in LockPhases => writer[JobOf[r]] = r

\* Nothing was stored since the run looked.
UploadsToFreeKey == \A r \in Runs : At(r, "uploading") => ~Stored(JobOf[r])

\* What a run is about to commit as the etag is the object's.
EtagIsCurrent ==
    \A r \in Runs :
        At(r, "storing") => Stored(JobOf[r]) /\ run[r].etag = object[JobOf[r]]

ObjectInv ==
    TypeOK /\ LockIsHeld /\ UploadsToFreeKey /\ EtagIsCurrent /\ MaterializedHasObject

----------------------------------------------------------------------------
(* What the runs of a job know of each other *)

\* Some run of the job has committed its outcome; not more than one has.
HasDone(j) == Settled(j) # {}
OneDone(j) == \A s, t \in Settled(j) : s = t

\* A run that committed its outcome left a row.
DoneHasRow == \A j \in Jobs : HasDone(j) => asset[j].status \in {"materialized", "failed"}

\* Only a run makes a job or an artifact failed.
FailedByRun ==
    \A j \in Jobs : job[j] = "failed" \/ asset[j].status = "failed" => HasDone(j)

\* The run has marked the job running, or has seen it marked, and no exception was raised.
Marked(r) ==
    \/ At(r, "starting") /\ run[r].loaded = "running"
    \/ run[r].phase \in SuccessPhases \ {"starting"}

\* A success next to a run that has marked the job is another run's.
SucceededByRun ==
    \A r \in Runs : Marked(r) /\ job[JobOf[r]] = "succeeded" => HasDone(JobOf[r])

\* The run will not write the status of the job, as it has loaded the one it would write.
Skips(r) ==
    \/ /\ run[r].phase \in {"registering", "checking", "uploading", "storing"}
       /\ run[r].loaded = "succeeded"
    \/ run[r].phase \in {"handling", "failing"} /\ run[r].loaded = "failed"

\* If only one run has committed, what was loaded then is still the job's status, unless
\* a further run has started.
SkippedIsCurrent ==
    \A r \in Runs : LET j == JobOf[r] IN
        Skips(r) => HasDone(j) /\ (OneDone(j) => job[j] \in {run[r].loaded, "running"})

\* And the same of a failed artifact that was found.
FoundIsCurrent ==
    \A r \in Runs : LET j == JobOf[r] IN
        At(r, "failing") /\ run[r].found = "failed" =>
            HasDone(j) /\ (OneDone(j) => asset[j].status = "failed")

AgreementInv ==
    /\ DoneHasRow /\ FailedByRun /\ SucceededByRun /\ SkippedIsCurrent /\ FoundIsCurrent
    /\ JobAndArtifactAgree

----------------------------------------------------------------------------
(* Types *)

\* A step of a run rewrites its own record only, with fields of their types.
LEMMA RecordType ==
    ASSUME NEW f \in [Runs -> RunRecords], NEW r \in Runs,
           NEW p \in Busy \cup EndPhases \cup {"waiting"}
    PROVE  /\ [f EXCEPT ![r].phase = p] \in [Runs -> RunRecords]
           /\ \A l \in JobStatuses : [f EXCEPT ![r].loaded = l] \in [Runs -> RunRecords]
           /\ \A a \in AssetStatuses : [f EXCEPT ![r].found = a] \in [Runs -> RunRecords]
           /\ \A b \in {"none", "bytes", "empty"} :
                 [f EXCEPT ![r].payload = b] \in [Runs -> RunRecords]
           /\ \A e \in Contents : [f EXCEPT ![r].etag = e] \in [Runs -> RunRecords]
           /\ \A i \in SUBSET Jobs : [f EXCEPT ![r].inputs = i] \in [Runs -> RunRecords]
           /\ \A k \in 0..MaxLooks - 1 :
                 [f EXCEPT ![r].looks = k] \in [Runs -> RunRecords]
  BY DEF RunRecords

\* The same for the updates of several fields that the actions make.
LEMMA RecordsType ==
    ASSUME NEW f \in [Runs -> RunRecords], NEW r \in Runs,
           NEW p \in Busy \cup EndPhases \cup {"waiting"}
    PROVE  /\ \A l \in JobStatuses :
                 [f EXCEPT ![r].phase = p, ![r].loaded = l] \in [Runs -> RunRecords]
           /\ \A b \in {"none", "bytes", "empty"} :
                 /\ [f EXCEPT ![r].payload = b, ![r].phase = p] \in [Runs -> RunRecords]
                 /\ [f EXCEPT ![r].phase = p, ![r].payload = b] \in [Runs -> RunRecords]
           /\ \A e \in Contents :
                 [f EXCEPT ![r].phase = p, ![r].etag = e] \in [Runs -> RunRecords]
           /\ \A i \in SUBSET Jobs, k \in 0..MaxLooks - 1 :
                 [f EXCEPT ![r].inputs = i, ![r].looks = k, ![r].phase = p]
                     \in [Runs -> RunRecords]
  BY RecordType

\* A session that ends or is rolled back forgets what it had.
LEMMA ResetEffect ==
    ASSUME TypeOK, NEW r \in Runs, NEW p \in Busy \cup EndPhases, Reset(r, p)
    PROVE  /\ run' \in [Runs -> RunRecords]
           /\ run'[r].phase = p /\ run'[r].loaded = "dispatched" /\ run'[r].found = "ABSENT"
  <1>1. Waiting \in RunRecords
    BY SizesAreNatural DEF Waiting, RunRecords, JobStatuses, AssetStatuses, Contents
  <1>2. [Waiting EXCEPT !.phase = p] \in RunRecords
    BY <1>1 DEF RunRecords
  <1>3. run' \in [Runs -> RunRecords] /\ run'[r] = [Waiting EXCEPT !.phase = p]
    BY <1>2 DEF Reset, TypeOK
  <1> QED
    BY <1>3 DEF Waiting

\* The initial rows, objects and runs have their types.
LEMMA InitType == Init => TypeOK
  <1> SUFFICES ASSUME Init PROVE TypeOK
    OBVIOUS
  <1>1. Waiting \in RunRecords
    BY SizesAreNatural DEF Waiting, RunRecords, JobStatuses, AssetStatuses, Contents
  <1>2. /\ [status |-> "materialized", etag |-> "inherited"] \in AssetRows
        /\ [status |-> "ABSENT", etag |-> NoRun] \in AssetRows
    BY DEF AssetRows, AssetStatuses, Contents
  <1> QED
    BY <1>1, <1>2, SizesAreNatural DEF Init, TypeOK, JobStatuses, Contents

\* Every step keeps the types.
LEMMA StepType == TypeOK /\ [Next]_vars => TypeOK'
  <1> SUFFICES ASSUME TypeOK, [Next]_vars PROVE TypeOK'
    OBVIOUS
  <1>0. CASE UNCHANGED vars
    BY <1>0 DEF vars, TypeOK
  <1>1. CASE Next
    <2>1. PICK r \in Runs : Work(r) \/ Crash(r)
      BY <1>1 DEF Next
    <2> USE RunsHaveJobs
    <2>2. /\ JobOf[r] \in Jobs /\ run[r] \in RunRecords
          /\ job[JobOf[r]] \in JobStatuses
          /\ asset[JobOf[r]].status \in AssetStatuses
          /\ object[JobOf[r]] \in Contents /\ r \in Contents
      BY DEF TypeOK, AssetRows, Contents
    <2>3. /\ run[r].etag \in Contents /\ run[r].inputs \in SUBSET Jobs
          /\ run[r].looks \in 0..MaxLooks - 1
      BY <2>2 DEF RunRecords
    <2>4. ASSUME NEW p \in Busy \cup EndPhases \cup {"waiting"}, Goto(r, p)
          PROVE  run' \in [Runs -> RunRecords]
      BY <2>2, <2>4, RecordsType, RecordType DEF TypeOK, Goto
    <2>20. ASSUME NEW p \in Busy \cup EndPhases, Reset(r, p)
           PROVE  run' \in [Runs -> RunRecords]
      BY <2>20, ResetEffect
    <2>5. ASSUME Raise(r) PROVE run' \in [Runs -> RunRecords]
      BY <2>5, <2>20 DEF Raise, Busy, FailurePhases
    <2> USE DEF Busy, SuccessPhases, FailurePhases, EndPhases, JobStatuses, Unchanged
    <2>6. CASE StartRun(r)
      <3>1. run' = [run EXCEPT ![r].phase = "starting", ![r].loaded = job[JobOf[r]]]
        BY <2>6 DEF StartRun
      <3>2. run' \in [Runs -> RunRecords]
        BY <2>2, <3>1, RecordsType DEF TypeOK
      <3> QED
        BY <2>6, <3>2 DEF StartRun, TypeOK
    <2>7. CASE CommitStart(r)
      <3>1. Raise(r) \/ Goto(r, "looking") \/ Goto(r, "executing")
        BY <2>7 DEF CommitStart
      <3>2. job' \in [Jobs -> JobStatuses]
        BY <2>2, <2>7 DEF CommitStart, TypeOK
      <3> QED
        BY <2>4, <2>5, <2>7, <3>1, <3>2 DEF CommitStart, TypeOK
    <2>8. CASE Execute(r)
      <3>1. ASSUME NEW payload \in {"bytes", "empty"},
                   run' = [run EXCEPT
                             ![r].payload = payload,
                             ![r].phase = IF ValidResult(payload) THEN "loading" ELSE "raised"]
            PROVE  run' \in [Runs -> RunRecords]
        <4> DEFINE p == IF ValidResult(payload) THEN "loading" ELSE "raised"
        <4>1. p \in {"loading", "raised"}
          OBVIOUS
        <4>2. run' = [run EXCEPT ![r].payload = payload, ![r].phase = p]
          BY <3>1
        <4> HIDE DEF p
        <4> QED
          BY <4>1, <4>2, RecordsType DEF TypeOK
      <3>2. run' \in [Runs -> RunRecords]
        BY <2>5, <2>8, <3>1 DEF Execute
      <3> QED
        BY <2>8, <3>2 DEF Execute, TypeOK
    <2>9. CASE Look(r)
      <3>1. 0 \in 0..MaxLooks - 1
            /\ (run[r].looks < MaxLooks - 1 => run[r].looks + 1 \in 0..MaxLooks - 1)
        BY <2>3, SizesAreNatural
      <3>2. \A j \in FindRuntimeAsset(Wanted(r)) : run[r].inputs \cup {j} \in SUBSET Jobs
        BY <2>3 DEF FindRuntimeAsset
      <3>3. ASSUME NEW j \in FindRuntimeAsset(Wanted(r)),
                   run' = [run EXCEPT
                             ![r].inputs = @ \cup {j}, ![r].looks = 0,
                             ![r].phase = IF run[r].inputs = {} THEN "looking" ELSE "fetching"]
            PROVE  run' \in [Runs -> RunRecords]
        <4> DEFINE p == IF run[r].inputs = {} THEN "looking" ELSE "fetching"
        <4> DEFINE i == run[r].inputs \cup {j}
        <4>1. p \in {"looking", "fetching"} /\ i \in SUBSET Jobs
          BY <3>2
        <4>2. run' = [run EXCEPT ![r].inputs = i, ![r].looks = 0, ![r].phase = p]
          BY <3>3
        <4> HIDE DEF p, i
        <4> QED
          BY <3>1, <4>1, <4>2, RecordsType DEF TypeOK
      <3>4. ASSUME run[r].looks < MaxLooks - 1
            PROVE  [run EXCEPT ![r].looks = @ + 1] \in [Runs -> RunRecords]
        BY <2>2, <3>1, <3>4, RecordType DEF TypeOK
      <3>5. run' \in [Runs -> RunRecords]
        BY <2>5, <2>9, <3>3, <3>4 DEF Look
      <3> QED
        BY <2>9, <3>5 DEF Look, TypeOK
    <2>10. CASE Fetch(r)
      BY <2>4, <2>5, <2>10 DEF Fetch, TypeOK
    <2>11. CASE Mux(r)
      <3>1. [run EXCEPT ![r].phase = "loading", ![r].payload = "bytes"]
                \in [Runs -> RunRecords]
        BY <2>2, RecordsType DEF TypeOK
      <3> QED
        BY <2>5, <2>11, <3>1 DEF Mux, TypeOK
    <2>12. CASE LoadArtifact(r)
      <3> DEFINE f == [run EXCEPT ![r].phase = "registering", ![r].loaded = job[JobOf[r]]]
      <3>1. f \in [Runs -> RunRecords]
        BY <2>2, RecordsType DEF TypeOK
      <3>2. run' = [f EXCEPT ![r].found = asset[JobOf[r]].status]
        BY <2>12 DEF LoadArtifact
      <3> HIDE DEF f
      <3>3. run' \in [Runs -> RunRecords]
        BY <2>2, <3>1, <3>2, RecordType DEF TypeOK
      <3> QED
        BY <2>12, <3>3 DEF LoadArtifact, TypeOK
    <2>13. CASE Register(r)
      BY <2>2, <2>4, <2>5, <2>13 DEF Register, TypeOK
    <2>14. CASE CheckObject(r)
      <3>1. \A e \in Contents :
               [run EXCEPT ![r].phase = "storing", ![r].etag = e] \in [Runs -> RunRecords]
        BY RecordsType DEF TypeOK
      <3>2. run' \in [Runs -> RunRecords]
        BY <2>2, <2>4, <2>5, <2>14, <3>1 DEF CheckObject
      <3> QED
        BY <2>14, <3>2 DEF CheckObject, TypeOK
    <2>15. CASE Upload(r)
      <3>1. [run EXCEPT ![r].phase = "storing", ![r].etag = r] \in [Runs -> RunRecords]
        BY <2>2, RecordsType DEF TypeOK
      <3>2. run' \in [Runs -> RunRecords]
        BY <2>5, <2>15, <3>1 DEF Upload
      <3>3. object' \in [Jobs -> Contents]
        BY <2>2, <2>15 DEF Upload, Put, TypeOK
      <3> QED
        BY <2>15, <3>2, <3>3 DEF Upload, TypeOK
    <2>16. CASE CommitSuccess(r)
      <3>1. [status |-> "materialized", etag |-> run[r].etag] \in AssetRows
        BY <2>3 DEF AssetRows, AssetStatuses
      <3>2. run' \in [Runs -> RunRecords]
        BY <2>5, <2>16, <2>20 DEF CommitSuccess
      <3> QED
        BY <2>2, <2>16, <3>1, <3>2 DEF CommitSuccess, TypeOK
    <2>17. CASE Rollback(r)
      <3>1. run' = [run EXCEPT ![r].phase = "handling", ![r].loaded = job[JobOf[r]]]
        BY <2>17 DEF Rollback
      <3>2. run' \in [Runs -> RunRecords]
        BY <2>2, <3>1, RecordsType DEF TypeOK
      <3>3. writer' \in [Jobs -> Runs \cup {NoRun}]
        BY <2>2, <2>17 DEF Rollback, Released, TypeOK
      <3> QED
        BY <2>17, <3>2, <3>3 DEF Rollback, TypeOK
    <2>21. CASE LoadFailed(r)
      <3>1. ASSUME run' = [run EXCEPT ![r].phase = "failing",
                                      ![r].found = asset[JobOf[r]].status]
            PROVE  run' \in [Runs -> RunRecords]
        <4> DEFINE f == [run EXCEPT ![r].phase = "failing"]
        <4>1. f \in [Runs -> RunRecords]
          BY RecordType DEF TypeOK
        <4>2. run' = [f EXCEPT ![r].found = asset[JobOf[r]].status]
          BY <3>1
        <4> HIDE DEF f
        <4> QED
          BY <2>2, <4>1, <4>2, RecordType DEF TypeOK
      <3>2. run' \in [Runs -> RunRecords]
        BY <2>20, <2>21, <3>1 DEF LoadFailed, Abandon
      <3> QED
        BY <2>21, <3>2 DEF LoadFailed, TypeOK
    <2>18. CASE CommitFailure(r)
      <3>1. \A row \in AssetRows : [row EXCEPT !.status = "failed"] \in AssetRows
        BY DEF AssetRows, AssetStatuses
      <3>2. run' \in [Runs -> RunRecords]
        BY <2>18, <2>20 DEF CommitFailure, Abandon
      <3> QED
        BY <2>2, <2>18, <3>1, <3>2 DEF CommitFailure, TypeOK
    <2>19. CASE Crash(r)
      <3>1. run' \in [Runs -> RunRecords]
        BY <2>19, <2>20 DEF Crash
      <3> QED
        BY <2>2, <2>19, <3>1, SizesAreNatural DEF Crash, Released, TypeOK
    <2> QED
      BY <2>1, <2>6, <2>7, <2>8, <2>9, <2>10, <2>11, <2>12, <2>13, <2>14, <2>15,
         <2>16, <2>17, <2>18, <2>19, <2>21 DEF Work
  <1> QED
    BY <1>0, <1>1 DEF vars

\* Rows, objects, locks and runs keep their types in every run.
THEOREM TypeCorrect == Spec => []TypeOK
  BY InitType, StepType, PTL DEF Spec

----------------------------------------------------------------------------
(* Rows and objects *)

\* A step of a run is about its own record and the rows and object of its job.
LEMMA StepFrame ==
    ASSUME TypeOK, NEW r \in Runs, Work(r) \/ Crash(r)
    PROVE  /\ \A s \in Runs : s # r => run'[s] = run[s]
           /\ \A j \in Jobs : j # JobOf[r] =>
                 /\ job'[j] = job[j] /\ asset'[j] = asset[j]
                 /\ writer'[j] = writer[j] /\ object'[j] = object[j]
  <1> USE RunsHaveJobs DEF TypeOK, Unchanged, Goto, Reset, Raise, Abandon
  <1>1. CASE StartRun(r) \/ CommitStart(r) \/ Execute(r) \/ Look(r)
    BY <1>1 DEF StartRun, CommitStart, Execute, Look
  <1>2. CASE Fetch(r) \/ Mux(r) \/ LoadArtifact(r) \/ Register(r) \/ CheckObject(r)
    BY <1>2 DEF Fetch, Mux, LoadArtifact, Register, CheckObject
  <1>3. CASE Upload(r) \/ CommitSuccess(r)
    BY <1>3 DEF Upload, Put, CommitSuccess
  <1>4. CASE Rollback(r) \/ LoadFailed(r) \/ CommitFailure(r) \/ Crash(r)
    BY <1>4 DEF Rollback, LoadFailed, Released, CommitFailure, Crash
  <1> QED
    BY <1>1, <1>2, <1>3, <1>4 DEF Work

\* What a step of r must do for the job's row, its lock and its object to agree.
KeepsObject(r) ==
    LET j == JobOf[r] IN
    /\ \A s \in Runs : s # r => run'[s] = run[s]
    /\ \A k \in Jobs : k # j =>
          asset'[k] = asset[k] /\ writer'[k] = writer[k] /\ object'[k] = object[k]
    /\ \A s \in Runs : s # r /\ writer[j] = s => writer'[j] = s /\ object'[j] = object[j]
    /\ run'[r].phase \in LockPhases => writer'[j] = r
    /\ At(r, "uploading")' => ~Stored(j)'
    /\ At(r, "storing")' => Stored(j)' /\ run'[r].etag = object'[j]
    /\ asset'[j].status = "materialized" => Stored(j)' /\ asset'[j].etag = object'[j]

\* A step that does keeps the invariant.
LEMMA KeepsObjectInv ==
    ASSUME ObjectInv, TypeOK', NEW r \in Runs, KeepsObject(r)
    PROVE  ObjectInv'
  <1> USE RunsHaveJobs
  <1>1. ASSUME NEW s \in Runs, s # r, run[s].phase \in LockPhases
        PROVE  /\ run'[s] = run[s] /\ writer'[JobOf[s]] = s
               /\ object'[JobOf[s]] = object[JobOf[s]]
    <2>1. writer[JobOf[s]] = s /\ JobOf[s] \in Jobs
      BY <1>1 DEF ObjectInv, LockIsHeld
    <2> QED
      BY <1>1, <2>1 DEF KeepsObject
  <1>2. ASSUME NEW s \in Runs, s # r PROVE run'[s] = run[s]
    BY <1>2 DEF KeepsObject
  <1>3. LockIsHeld'
    BY <1>1, <1>2 DEF LockIsHeld, KeepsObject
  <1>4. UploadsToFreeKey'
    <2> SUFFICES ASSUME NEW s \in Runs, At(s, "uploading")' PROVE ~Stored(JobOf[s])'
      BY DEF UploadsToFreeKey
    <2>1. CASE s = r
      BY <2>1 DEF KeepsObject
    <2>2. CASE s # r
      BY <1>1, <1>2, <2>2 DEF ObjectInv, UploadsToFreeKey, At, LockPhases, Stored
    <2> QED
      BY <2>1, <2>2
  <1>5. EtagIsCurrent'
    <2> SUFFICES ASSUME NEW s \in Runs, At(s, "storing")'
                 PROVE  Stored(JobOf[s])' /\ run'[s].etag = object'[JobOf[s]]
      BY DEF EtagIsCurrent
    <2>1. CASE s = r
      BY <2>1 DEF KeepsObject
    <2>2. CASE s # r
      BY <1>1, <1>2, <2>2 DEF ObjectInv, EtagIsCurrent, At, LockPhases, Stored
    <2> QED
      BY <2>1, <2>2
  <1>6. MaterializedHasObject'
    <2> SUFFICES ASSUME NEW k \in Jobs, asset'[k].status = "materialized"
                 PROVE  Stored(k)' /\ asset'[k].etag = object'[k]
      BY DEF MaterializedHasObject
    <2>1. CASE k = JobOf[r]
      BY <2>1 DEF KeepsObject
    <2>2. CASE k # JobOf[r]
      BY <2>2 DEF KeepsObject, ObjectInv, MaterializedHasObject, Stored
    <2> QED
      BY <2>1, <2>2
  <1> QED
    BY <1>3, <1>4, <1>5, <1>6 DEF ObjectInv

\* Outside the locked part of a run nothing of the job changes.
LEMMA QuietKeepsObject ==
    ASSUME ObjectInv, NEW r \in Runs, Work(r) \/ Crash(r),
           run'[r].phase \notin LockPhases, UNCHANGED <<asset, writer, object>>
    PROVE  KeepsObject(r)
  BY StepFrame, RunsHaveJobs
     DEF ObjectInv, MaterializedHasObject, KeepsObject, At, LockPhases, Stored

\* A look finds, finds nothing yet, or gives up.
LEMMA LookPhases ==
    ASSUME TypeOK, NEW r \in Runs, Look(r)
    PROVE  run'[r].phase \in {"looking", "fetching", "raised"}
  <1>0. run[r] \in RunRecords /\ run \in [Runs -> RunRecords]
    BY DEF TypeOK
  <1> USE DEF At
  <1>1. \/ Raise(r) \/ run' = [run EXCEPT ![r].looks = @ + 1]
        \/ \E k \in Jobs :
              run' = [run EXCEPT
                        ![r].inputs = @ \cup {k}, ![r].looks = 0,
                        ![r].phase = IF run[r].inputs = {} THEN "looking" ELSE "fetching"]
    BY DEF Look, FindRuntimeAsset
  <1>2. CASE Raise(r)
    BY <1>2, ResetEffect DEF Raise, Busy, FailurePhases
  <1>3. CASE run' = [run EXCEPT ![r].looks = @ + 1]
    <2>1. run'[r].phase = run[r].phase
      BY <1>0, <1>3 DEF RunRecords
    <2> QED
      BY <2>1 DEF Look
  <1>4. ASSUME NEW k \in Jobs,
               run' = [run EXCEPT
                        ![r].inputs = @ \cup {k}, ![r].looks = 0,
                        ![r].phase = IF run[r].inputs = {} THEN "looking" ELSE "fetching"]
        PROVE  run'[r].phase \in {"looking", "fetching"}
    BY <1>0, <1>4 DEF RunRecords
  <1> QED
    BY <1>1, <1>2, <1>3, <1>4

\* Every step of a run keeps row, lock and object together.
LEMMA StepKeepsObject ==
    ASSUME ObjectInv, NEW r \in Runs, Work(r) \/ Crash(r)
    PROVE  KeepsObject(r)
  <1> DEFINE j == JobOf[r]
  <1> USE RunsHaveJobs
  <1>0. /\ j \in Jobs /\ run[r] \in RunRecords /\ run \in [Runs -> RunRecords]
        /\ TypeOK /\ NoRun \notin Runs
    BY DEF ObjectInv, TypeOK
  <1>1. /\ \A s \in Runs : s # r => run'[s] = run[s]
        /\ \A k \in Jobs : k # j =>
              asset'[k] = asset[k] /\ writer'[k] = writer[k] /\ object'[k] = object[k]
    BY <1>0, StepFrame
  <1>2. run[r].phase \in LockPhases => writer[j] = r
    BY DEF ObjectInv, LockIsHeld
  <1>3. asset[j].status = "materialized" => Stored(j) /\ asset[j].etag = object[j]
    BY <1>0 DEF ObjectInv, MaterializedHasObject
  <1>13. /\ Raise(r) => run'[r].phase = "raised"
         /\ Reset(r, "done") => run'[r].phase = "done"
         /\ Reset(r, "killed") => run'[r].phase = "killed"
         /\ Abandon(r) => run'[r].phase = "abandoned"
    BY <1>0, ResetEffect DEF Raise, Abandon, Busy, FailurePhases, EndPhases
  <1> USE <1>13 DEF At, Goto, Unchanged
  <1>4. CASE StartRun(r) \/ CommitStart(r) \/ Execute(r)
    <2>1. run'[r].phase \in {"starting", "looking", "executing", "loading", "raised"}
      BY <1>0, <1>4 DEF StartRun, CommitStart, Execute, RunRecords
    <2>2. UNCHANGED <<asset, writer, object>>
      BY <1>4 DEF StartRun, CommitStart, Execute
    <2> QED
      BY <2>1, <2>2, QuietKeepsObject DEF LockPhases
  <1>5. CASE Look(r)
    <2>1. run'[r].phase \in {"looking", "fetching", "raised"}
      BY <1>0, <1>5, LookPhases
    <2> QED
      BY <1>5, <2>1, QuietKeepsObject DEF LockPhases, Look
  <1>6. CASE Fetch(r) \/ Mux(r) \/ LoadArtifact(r)
    <2>1. run'[r].phase \in {"muxing", "loading", "raised", "registering"}
      BY <1>0, <1>6 DEF Fetch, Mux, LoadArtifact, RunRecords
    <2>2. UNCHANGED <<asset, writer, object>>
      BY <1>6 DEF Fetch, Mux, LoadArtifact
    <2> QED
      BY <2>1, <2>2, QuietKeepsObject DEF LockPhases
  <1>7. CASE Register(r)
    <2>1. /\ writer[j] = NoRun /\ UNCHANGED <<asset, object>>
          /\ \/ run'[r].phase = "raised" /\ UNCHANGED writer
             \/ run'[r].phase = "checking" /\ writer'[j] = r
      BY <1>0, <1>7 DEF Register, ObjectInv, TypeOK, RunRecords
    <2> QED
      BY <1>0, <1>1, <1>3, <2>1 DEF KeepsObject, LockPhases, Stored
  <1>8. CASE CheckObject(r)
    <2>1. /\ writer[j] = r /\ UNCHANGED <<asset, writer, object>>
          /\ \/ run'[r].phase = "raised"
             \/ run'[r].phase = "uploading" /\ ~Stored(j)
             \/ run'[r].phase = "storing" /\ Stored(j) /\ run'[r].etag = object[j]
      BY <1>0, <1>2, <1>8 DEF CheckObject, LockPhases, RunRecords
    <2> QED
      BY <1>0, <1>1, <1>3, <2>1 DEF KeepsObject, LockPhases, Stored
  <1>9. CASE Upload(r)
    <2>1. /\ writer[j] = r /\ UNCHANGED <<asset, writer>> /\ ~Stored(j)
          /\ \/ run'[r].phase = "raised"
             \/ run'[r].phase = "storing" /\ object'[j] = r /\ run'[r].etag = r
      BY <1>0, <1>2, <1>9
         DEF Upload, Put, LockPhases, RunRecords, ObjectInv, UploadsToFreeKey, TypeOK
    <2> QED
      BY <1>0, <1>1, <1>3, <2>1 DEF KeepsObject, LockPhases, Stored
  <1>10. CASE CommitSuccess(r)
    <2>1. writer[j] = r /\ UNCHANGED object /\ Stored(j) /\ run[r].etag = object[j]
      BY <1>2, <1>10 DEF CommitSuccess, LockPhases, ObjectInv, EtagIsCurrent
    <2>2. \/ run'[r].phase = "raised" /\ UNCHANGED <<asset, writer>>
          \/ /\ run'[r].phase = "done" /\ writer'[j] = NoRun
             /\ asset'[j].etag = run[r].etag
      BY <1>0, <1>10 DEF CommitSuccess, ObjectInv, TypeOK, RunRecords
    <2> QED
      BY <1>0, <1>1, <1>3, <2>1, <2>2 DEF KeepsObject, LockPhases, Stored
  <1>11. CASE Rollback(r) \/ Crash(r)
    <2>1. run'[r].phase \in {"handling", "killed"} /\ UNCHANGED <<asset, object>>
      BY <1>0, <1>11 DEF Rollback, Crash, RunRecords
    <2>2. \A s \in Runs : s # r /\ writer[j] = s => writer'[j] = s
      BY <1>0, <1>11 DEF Rollback, Crash, Released, ObjectInv, TypeOK
    <2> QED
      BY <1>0, <1>1, <1>3, <2>1, <2>2 DEF KeepsObject, LockPhases, Stored
  <1>14. CASE LoadFailed(r)
    <2>1. run'[r].phase \in {"failing", "abandoned"} /\ UNCHANGED <<asset, writer, object>>
      BY <1>0, <1>14 DEF LoadFailed, RunRecords
    <2> QED
      BY <2>1, QuietKeepsObject DEF LockPhases
  <1>12. CASE CommitFailure(r)
    <2>1. run'[r].phase \in {"done", "abandoned"} /\ UNCHANGED <<writer, object>>
      BY <1>0, <1>12 DEF CommitFailure, RunRecords
    <2>2. asset'[j] = asset[j] \/ asset'[j].status = "failed"
      BY <1>0, <1>12 DEF CommitFailure, ObjectInv, TypeOK, AssetRows
    <2> QED
      BY <1>0, <1>1, <1>3, <2>1, <2>2 DEF KeepsObject, LockPhases, Stored
  <1> QED
    BY <1>4, <1>5, <1>6, <1>7, <1>8, <1>9, <1>10, <1>11, <1>12,
       <1>14 DEF Work

\* No run has started, and what is inherited is stored.
LEMMA InitObjectInv == Init => ObjectInv
  <1> SUFFICES ASSUME Init PROVE ObjectInv
    OBVIOUS
  <1>1. \A r \in Runs : run[r].phase = "waiting"
    BY DEF Init, Waiting
  <1>2. LockIsHeld /\ UploadsToFreeKey /\ EtagIsCurrent
    BY <1>1 DEF LockIsHeld, UploadsToFreeKey, EtagIsCurrent, LockPhases, At
  <1>3. MaterializedHasObject
    BY RunsHaveJobs DEF Init, MaterializedHasObject, Stored
  <1> QED
    BY <1>2, <1>3, InitType DEF ObjectInv

\* The invariant is inductive.
LEMMA StepObjectInv == ObjectInv /\ [Next]_vars => ObjectInv'
  <1> SUFFICES ASSUME ObjectInv, [Next]_vars PROVE ObjectInv'
    OBVIOUS
  <1>1. TypeOK'
    BY StepType DEF ObjectInv
  <1>2. CASE UNCHANGED vars
    BY <1>1, <1>2
       DEF vars, ObjectInv, LockIsHeld, UploadsToFreeKey, EtagIsCurrent,
           MaterializedHasObject, At, Stored
  <1>3. CASE Next
    BY <1>1, <1>3, StepKeepsObject, KeepsObjectInv DEF Next
  <1> QED
    BY <1>2, <1>3

\* An asset row that says materialized has its object, and carries its etag.
THEOREM MaterializedAssetsHaveObjects == Spec => []MaterializedHasObject
  <1>1. ObjectInv => MaterializedHasObject
    BY DEF ObjectInv
  <1> QED
    BY <1>1, InitObjectInv, StepObjectInv, PTL DEF Spec

\* Whatever the runs of its job do, an object that is stored stays what it is.
LEMMA StepKeepsStored ==
    ObjectInv /\ [Next]_vars => [\A j \in Jobs : Stored(j) => object'[j] = object[j]]_vars
  <1> SUFFICES ASSUME ObjectInv, Next, NEW j \in Jobs, Stored(j)
               PROVE  object'[j] = object[j]
    BY DEF vars
  <1>1. PICK r \in Runs : Work(r) \/ Crash(r)
    BY DEF Next
  <1>2. CASE UNCHANGED object
    BY <1>2
  <1>3. CASE Upload(r)
    BY <1>3 DEF Upload, Put, ObjectInv, TypeOK, UploadsToFreeKey
  <1> QED
    BY <1>1, <1>2, <1>3
       DEF Work, Crash, StartRun, CommitStart, Execute, Look, Fetch, Mux, LoadArtifact,
           Register, CheckObject, CommitSuccess, Rollback, LoadFailed, CommitFailure,
           Unchanged

\* Two runs of a job never store the object one after the other.
THEOREM StoredOnce == Spec => ObjectsAreNotRewritten
  BY InitObjectInv, StepObjectInv, StepKeepsStored, PTL DEF Spec, ObjectsAreNotRewritten

----------------------------------------------------------------------------
(* Jobs and artifacts *)

\* What a step of r must do for the job and its artifact to agree.  It leaves the asset
\* and at most marks the job running; or it commits a success, or a failure, and what it
\* does not write is another run's outcome.
KeepsAgreement(r) ==
    LET j == JobOf[r] IN
    /\ ~At(r, "done") /\ (Stored(j) => Stored(j)')
    /\ \/ ~At(r, "done")' /\ asset'[j] = asset[j] /\ job'[j] \in {job[j], "running"}
       \/ /\ At(r, "done")' /\ asset'[j].status = "materialized" /\ Stored(j)'
          /\ \/ job'[j] = "succeeded"
             \/ /\ job'[j] = job[j] /\ HasDone(j)
                /\ OneDone(j) => job[j] \in {"succeeded", "running"}
       \/ /\ At(r, "done")'
          /\ \/ job'[j] = "failed"
             \/ /\ job'[j] = job[j] /\ HasDone(j)
                /\ OneDone(j) => job[j] \in {"failed", "running"}
          /\ \/ asset'[j].status = "failed"
             \/ /\ asset'[j] = asset[j] /\ HasDone(j)
                /\ OneDone(j) => asset[j].status = "failed"
    /\ Marked(r)' /\ job'[j] = "succeeded" => Marked(r)
    /\ Skips(r)' =>
          /\ job'[j] = job[j]
          /\ \/ Skips(r) /\ run'[r].loaded = run[r].loaded
             \/ /\ run'[r].loaded = job[j]
                /\ job[j] = "failed" \/ (job[j] = "succeeded" /\ Marked(r))
    /\ At(r, "failing")' /\ run'[r].found = "failed" =>
          asset'[j] = asset[j] /\ asset[j].status = "failed"

\* A step that does keeps the invariant.
LEMMA KeepsAgreementInv ==
    ASSUME TypeOK, AgreementInv, NEW r \in Runs, Work(r) \/ Crash(r), KeepsAgreement(r)
    PROVE  AgreementInv'
  <1> DEFINE j == JobOf[r]
  <1> USE RunsHaveJobs
  <1>0. /\ j \in Jobs
        /\ \A s \in Runs : s # r => run'[s] = run[s]
        /\ \A k \in Jobs : k # j =>
              job'[k] = job[k] /\ asset'[k] = asset[k] /\ object'[k] = object[k]
    BY StepFrame
  <1>1. ~At(r, "done") /\ (Stored(j) => Stored(j)')
    BY DEF KeepsAgreement
  <1>2. \A k \in Jobs : k # j => Settled(k)' = Settled(k)
    BY <1>0 DEF Settled, At
  <1>3. Settled(j)' = IF At(r, "done")' THEN Settled(j) \cup {r} ELSE Settled(j)
    BY <1>0, <1>1 DEF Settled, At
  <1>4. r \notin Settled(j)
    BY <1>1 DEF Settled
  <1>5. /\ At(r, "done")' => HasDone(j)'
        /\ At(r, "done")' /\ HasDone(j) => ~OneDone(j)'
    BY <1>3, <1>4 DEF HasDone, OneDone
  <1>6. /\ \A k \in Jobs : HasDone(k) => HasDone(k)'
        /\ \A k \in Jobs : k # j => OneDone(k)' = OneDone(k)
        /\ ~At(r, "done")' => HasDone(j)' = HasDone(j) /\ OneDone(j)' = OneDone(j)
    BY <1>2, <1>3 DEF HasDone, OneDone
  <1>7. \A k \in Jobs : k # j => HasDone(k)' = HasDone(k)
    BY <1>2 DEF HasDone
  <1>8. \/ ~At(r, "done")' /\ asset'[j] = asset[j] /\ job'[j] \in {job[j], "running"}
        \/ /\ At(r, "done")' /\ asset'[j].status = "materialized" /\ Stored(j)'
           /\ \/ job'[j] = "succeeded"
              \/ /\ job'[j] = job[j] /\ HasDone(j)
                 /\ OneDone(j) => job[j] \in {"succeeded", "running"}
        \/ /\ At(r, "done")'
           /\ \/ job'[j] = "failed"
              \/ /\ job'[j] = job[j] /\ HasDone(j)
                 /\ OneDone(j) => job[j] \in {"failed", "running"}
           /\ \/ asset'[j].status = "failed"
              \/ /\ asset'[j] = asset[j] /\ HasDone(j)
                 /\ OneDone(j) => asset[j].status = "failed"
    BY DEF KeepsAgreement
  <1>9. DoneHasRow'
    <2> SUFFICES ASSUME NEW k \in Jobs, HasDone(k)'
                 PROVE  asset'[k].status \in {"materialized", "failed"}
      BY DEF DoneHasRow
    <2>1. HasDone(k) => asset[k].status \in {"materialized", "failed"}
      BY DEF AgreementInv, DoneHasRow
    <2> QED
      BY <1>0, <1>6, <1>7, <1>8, <2>1
  <1>10. FailedByRun'
    <2> SUFFICES ASSUME NEW k \in Jobs, job'[k] = "failed" \/ asset'[k].status = "failed"
                 PROVE  HasDone(k)'
      BY DEF FailedByRun
    <2>1. job[k] = "failed" \/ asset[k].status = "failed" => HasDone(k)
      BY DEF AgreementInv, FailedByRun
    <2> QED
      BY <1>0, <1>5, <1>6, <1>8, <2>1
  <1>11. SucceededByRun'
    <2> SUFFICES ASSUME NEW s \in Runs, Marked(s)', job'[JobOf[s]] = "succeeded"
                 PROVE  HasDone(JobOf[s])'
      BY DEF SucceededByRun
    <2>1. Marked(s) /\ job[JobOf[s]] = "succeeded" => HasDone(JobOf[s])
      BY DEF AgreementInv, SucceededByRun
    <2>2. s # r => Marked(s)
      BY <1>0 DEF Marked, At
    <2>3. s = r => Marked(s)
      BY DEF KeepsAgreement
    <2>4. CASE JobOf[s] # j
      BY <1>0, <1>6, <2>1, <2>2, <2>4
    <2>5. CASE JobOf[s] = j
      BY <1>5, <1>6, <1>8, <2>1, <2>2, <2>3, <2>5
    <2> QED
      BY <2>4, <2>5
  <1>12. SkippedIsCurrent'
    <2> SUFFICES ASSUME NEW s \in Runs, Skips(s)'
                 PROVE  /\ HasDone(JobOf[s])'
                        /\ OneDone(JobOf[s])' =>
                              job'[JobOf[s]] \in {run'[s].loaded, "running"}
      BY DEF SkippedIsCurrent
    <2>1. Skips(s) =>
             /\ HasDone(JobOf[s])
             /\ OneDone(JobOf[s]) => job[JobOf[s]] \in {run[s].loaded, "running"}
      BY DEF AgreementInv, SkippedIsCurrent
    <2>2. s # r => Skips(s) /\ run'[s] = run[s]
      BY <1>0 DEF Skips
    <2>3. CASE JobOf[s] # j
      BY <1>0, <1>6, <2>1, <2>2, <2>3
    <2>4. CASE s # r /\ JobOf[s] = j
      BY <1>5, <1>6, <1>8, <2>1, <2>2, <2>4
    <2>5. CASE s = r
      <3>1. ~At(r, "done")'
        BY <2>5 DEF Skips, At
      <3>2. /\ job'[j] = job[j]
            /\ \/ Skips(r) /\ run'[r].loaded = run[r].loaded
               \/ /\ run'[r].loaded = job[j]
                  /\ job[j] = "failed" \/ (job[j] = "succeeded" /\ Marked(r))
        BY <2>5 DEF KeepsAgreement
      <3>3. job[j] = "failed" \/ (job[j] = "succeeded" /\ Marked(r)) => HasDone(j)
        BY <1>0 DEF AgreementInv, FailedByRun, SucceededByRun
      <3> QED
        BY <1>6, <2>1, <2>5, <3>1, <3>2, <3>3
    <2> QED
      BY <2>3, <2>4, <2>5
  <1>13. FoundIsCurrent'
    <2> SUFFICES ASSUME NEW s \in Runs, At(s, "failing")', run'[s].found = "failed"
                 PROVE  /\ HasDone(JobOf[s])'
                        /\ OneDone(JobOf[s])' => asset'[JobOf[s]].status = "failed"
      BY DEF FoundIsCurrent
    <2>1. At(s, "failing") /\ run[s].found = "failed" =>
             HasDone(JobOf[s]) /\ (OneDone(JobOf[s]) => asset[JobOf[s]].status = "failed")
      BY DEF AgreementInv, FoundIsCurrent
    <2>2. s # r => At(s, "failing") /\ run[s].found = "failed"
      BY <1>0 DEF At
    <2>3. CASE JobOf[s] # j
      BY <1>0, <1>6, <2>1, <2>2, <2>3
    <2>4. CASE s # r /\ JobOf[s] = j
      BY <1>5, <1>6, <1>8, <2>1, <2>2, <2>4
    <2>5. CASE s = r
      <3>1. asset'[j] = asset[j] /\ asset[j].status = "failed"
        BY <2>5 DEF KeepsAgreement
      <3>2. HasDone(j)
        BY <1>0, <3>1 DEF AgreementInv, FailedByRun
      <3> QED
        BY <1>6, <2>5, <3>1, <3>2
    <2> QED
      BY <2>3, <2>4, <2>5
  <1>14. JobAndArtifactAgree'
    <2> DEFINE AtMostTwo(k) == \A q, s, u \in Settled(k) : q = s \/ s = u \/ q = u
    <2> SUFFICES ASSUME NEW k \in Jobs
                 PROVE  /\ job'[k] = "succeeded" => Stored(k)'
                        /\ job'[k] \in {"succeeded", "failed"} =>
                              asset'[k].status \in {"materialized", "failed"}
                        /\ AtMostTwo(k)' =>
                              /\ job'[k] = "succeeded" => asset'[k].status = "materialized"
                              /\ job'[k] = "failed" => asset'[k].status = "failed"
      BY DEF JobAndArtifactAgree
    <2>1. /\ job[k] = "succeeded" => Stored(k)
          /\ job[k] \in {"succeeded", "failed"} =>
                asset[k].status \in {"materialized", "failed"}
          /\ AtMostTwo(k) =>
                /\ job[k] = "succeeded" => asset[k].status = "materialized"
                /\ job[k] = "failed" => asset[k].status = "failed"
      BY DEF AgreementInv, JobAndArtifactAgree
    <2>2. HasDone(k) => asset[k].status \in {"materialized", "failed"}
      BY DEF AgreementInv, DoneHasRow
    <2>3. CASE k # j
      <3>1. Stored(k)' = Stored(k) /\ AtMostTwo(k)' = AtMostTwo(k)
        BY <1>0, <1>2, <2>3 DEF Stored
      <3> HIDE DEF AtMostTwo
      <3> QED
        BY <1>0, <2>1, <2>3, <3>1
    <2>4. CASE k = j /\ ~At(r, "done")'
      <3>1. AtMostTwo(k)' = AtMostTwo(k)
        BY <1>3, <2>4
      <3> HIDE DEF AtMostTwo
      <3> QED
        BY <1>1, <1>8, <2>1, <2>4, <3>1
    <2>5. CASE k = j /\ At(r, "done")'
      <3>1. AtMostTwo(k)' => OneDone(k)
        BY <1>3, <1>4, <2>5 DEF OneDone
      <3> HIDE DEF AtMostTwo
      <3> QED
        BY <1>1, <1>8, <2>1, <2>2, <2>5, <3>1
    <2> QED
      BY <2>3, <2>4, <2>5
  <1> QED
    BY <1>9, <1>10, <1>11, <1>12, <1>13, <1>14 DEF AgreementInv

\* Until it commits its outcome a run at most marks the job running; one that raised, is
\* killed or gives up forgets what it has loaded.
LEMMA QuietKeepsAgreement ==
    ASSUME NEW r \in Runs, ~At(r, "done"), ~At(r, "done")', UNCHANGED asset,
           job'[JobOf[r]] \in {job[JobOf[r]], "running"},
           Stored(JobOf[r]) => Stored(JobOf[r])',
           Marked(r)' /\ job'[JobOf[r]] = "succeeded" => Marked(r),
           ~Skips(r)', ~(At(r, "failing")' /\ run'[r].found = "failed")
    PROVE  KeepsAgreement(r)
  BY DEF KeepsAgreement

\* Every step of a run keeps the job and its artifact in agreement.
LEMMA StepKeepsAgreement ==
    ASSUME ObjectInv, AgreementInv, NEW r \in Runs, Work(r) \/ Crash(r)
    PROVE  KeepsAgreement(r)
  <1> DEFINE j == JobOf[r]
  <1> USE RunsHaveJobs
  <1>0. /\ j \in Jobs /\ run[r] \in RunRecords /\ run \in [Runs -> RunRecords]
        /\ job \in [Jobs -> JobStatuses] /\ asset \in [Jobs -> AssetRows] /\ TypeOK
    BY DEF ObjectInv, TypeOK
  <1>1. \A p \in Busy \cup EndPhases : Reset(r, p) =>
           /\ run'[r].phase = p /\ run'[r].loaded = "dispatched"
           /\ run'[r].found = "ABSENT"
    BY <1>0, ResetEffect
  <1> USE DEF At, Marked, Skips, Busy, SuccessPhases, FailurePhases, EndPhases
  <1>2. /\ Raise(r) => run'[r].phase = "raised"
        /\ Reset(r, "done") => run'[r].phase = "done"
        /\ Reset(r, "killed") => run'[r].phase = "killed"
        /\ Abandon(r) => run'[r].phase = "abandoned"
    BY <1>1 DEF Raise, Abandon
  <1>3. ASSUME run'[r].phase \in {"raised", "killed", "abandoned", "looking", "executing",
                                  "fetching", "muxing", "loading"},
               run[r].phase # "done", UNCHANGED asset, job'[j] \in {job[j], "running"},
               UNCHANGED object \/ Stored(j)',
               run[r].phase \in SuccessPhases \/ run'[r].phase \notin SuccessPhases,
               run[r].phase = "starting" =>
                  \/ run'[r].phase \in {"raised", "killed"} \/ run[r].loaded = "running"
                  \/ job'[j] = "running"
        PROVE  KeepsAgreement(r)
    BY <1>3, QuietKeepsAgreement DEF Stored
  <1> USE DEF Goto, Unchanged
  <1>4. CASE StartRun(r)
    <2>1. /\ run[r].phase = "waiting" /\ UNCHANGED <<job, asset, object>>
          /\ run'[r].phase = "starting" /\ run'[r].loaded = job[j]
      BY <1>0, <1>4 DEF StartRun, RunRecords
    <2> QED
      BY <2>1, QuietKeepsAgreement DEF Stored
  <1>5. CASE CommitStart(r)
    <2>1. /\ run[r].phase = "starting" /\ UNCHANGED <<asset, object>>
          /\ \/ run'[r].phase = "raised" /\ UNCHANGED job
             \/ /\ run'[r].phase \in {"looking", "executing"}
                /\ \/ run[r].loaded = "running" /\ UNCHANGED job
                   \/ job'[j] = "running"
      BY <1>0, <1>2, <1>5 DEF CommitStart, RunRecords
    <2> QED
      BY <1>3, <2>1
  <1>6. CASE Execute(r)
    <2>1. /\ run[r].phase = "executing" /\ UNCHANGED <<job, asset, object>>
          /\ run'[r].phase \in {"loading", "raised"}
      BY <1>0, <1>2, <1>6 DEF Execute, RunRecords
    <2> QED
      BY <1>3, <2>1
  <1>7. CASE Look(r)
    <2>1. run[r].phase = "looking" /\ UNCHANGED <<job, asset, object>>
      BY <1>7 DEF Look
    <2>2. run'[r].phase \in {"looking", "fetching", "raised"}
      BY <1>0, <1>7, LookPhases
    <2> QED
      BY <1>3, <2>1, <2>2
  <1>8. CASE Fetch(r) \/ Mux(r)
    <2>1. /\ run[r].phase \in {"fetching", "muxing"} /\ UNCHANGED <<job, asset, object>>
          /\ run'[r].phase \in {"muxing", "loading", "raised"}
      BY <1>0, <1>2, <1>8 DEF Fetch, Mux, RunRecords
    <2> QED
      BY <1>3, <2>1
  <1>9. CASE LoadArtifact(r)
    <2>1. /\ run[r].phase = "loading" /\ UNCHANGED <<job, asset, object>>
          /\ run'[r].phase = "registering" /\ run'[r].loaded = job[j]
      BY <1>0, <1>9 DEF LoadArtifact, RunRecords
    <2> QED
      BY <2>1 DEF KeepsAgreement, Stored
  <1>10. CASE Register(r) \/ CheckObject(r) \/ Upload(r)
    <2>1. /\ run[r].phase \in {"registering", "checking", "uploading"}
          /\ UNCHANGED <<job, asset>> /\ (Stored(j) => Stored(j)')
          /\ \/ run'[r].phase = "raised"
             \/ /\ run'[r].phase \in {"checking", "uploading", "storing"}
                /\ run'[r].loaded = run[r].loaded
      <3>1. CASE Register(r)
        BY <1>0, <1>2, <3>1 DEF Register, RunRecords, Stored
      <3>2. CASE CheckObject(r)
        BY <1>0, <1>2, <3>2 DEF CheckObject, RunRecords, Stored
      <3>3. CASE Upload(r)
        <4>1. Stored(j) => Stored(j)'
          BY <1>0, <3>3 DEF Upload, Put, Stored, ObjectInv, TypeOK
        <4> QED
          BY <1>0, <1>2, <3>3, <4>1 DEF Upload, RunRecords
      <3> QED
        BY <1>10, <3>1, <3>2, <3>3
    <2> QED
      BY <2>1 DEF KeepsAgreement
  <1>11. CASE CommitSuccess(r)
    <2>1. run[r].phase = "storing" /\ UNCHANGED object /\ Stored(j)
      BY <1>11 DEF CommitSuccess, ObjectInv, EtagIsCurrent
    <2>2. run[r].loaded = "succeeded" =>
             HasDone(j) /\ (OneDone(j) => job[j] \in {"succeeded", "running"})
      BY <2>1 DEF AgreementInv, SkippedIsCurrent
    <2>3. \/ run'[r].phase = "raised" /\ UNCHANGED <<job, asset>>
          \/ /\ run'[r].phase = "done" /\ asset'[j].status = "materialized"
             /\ job'[j] = "succeeded" \/ (run[r].loaded = "succeeded" /\ UNCHANGED job)
      BY <1>0, <1>2, <1>11 DEF CommitSuccess
    <2> QED
      BY <2>1, <2>2, <2>3 DEF KeepsAgreement, Stored
  <1>12. CASE Rollback(r)
    <2>1. /\ run[r].phase = "raised" /\ UNCHANGED <<job, asset, object>>
          /\ run'[r].phase = "handling" /\ run'[r].loaded = job[j]
      BY <1>0, <1>12 DEF Rollback, RunRecords
    <2> QED
      BY <2>1 DEF KeepsAgreement, Stored
  <1>13. CASE LoadFailed(r)
    <2>1. /\ run[r].phase = "handling" /\ UNCHANGED <<job, asset, object>>
          /\ \/ run'[r].phase = "abandoned"
             \/ /\ run'[r].phase = "failing" /\ run'[r].loaded = run[r].loaded
                /\ run'[r].found = asset[j].status
      BY <1>0, <1>2, <1>13 DEF LoadFailed, RunRecords
    <2> QED
      BY <2>1 DEF KeepsAgreement, Stored
  <1>14. CASE CommitFailure(r)
    <2>1. run[r].phase = "failing" /\ UNCHANGED object
      BY <1>14 DEF CommitFailure
    <2>2. /\ run[r].loaded = "failed" =>
                HasDone(j) /\ (OneDone(j) => job[j] \in {"failed", "running"})
          /\ run[r].found = "failed" =>
                HasDone(j) /\ (OneDone(j) => asset[j].status = "failed")
      BY <2>1 DEF AgreementInv, SkippedIsCurrent, FoundIsCurrent
    <2>3. \/ run'[r].phase = "abandoned" /\ UNCHANGED <<job, asset>>
          \/ /\ run'[r].phase = "done"
             /\ job'[j] = "failed" \/ (run[r].loaded = "failed" /\ UNCHANGED job)
             /\ asset'[j].status = "failed" \/ (run[r].found = "failed" /\ UNCHANGED asset)
      <3>1. [asset[j] EXCEPT !.status = "failed"].status = "failed"
        BY <1>0 DEF AssetRows
      <3> QED
        BY <1>0, <1>2, <1>14, <3>1 DEF CommitFailure
    <2> QED
      BY <2>1, <2>2, <2>3 DEF KeepsAgreement, Stored
  <1>15. CASE Crash(r)
    <2>1. /\ run[r].phase \in Busy /\ run'[r].phase = "killed"
          /\ UNCHANGED <<job, asset, object>>
      BY <1>0, <1>2, <1>15 DEF Crash
    <2> QED
      BY <1>3, <2>1
  <1> QED
    BY <1>4, <1>5, <1>6, <1>7, <1>8, <1>9, <1>10, <1>11, <1>12, <1>13, <1>14,
       <1>15 DEF Work

\* No run has started: what is succeeded, and materialized, is inherited.
LEMMA InitAgreementInv == Init => AgreementInv
  <1> SUFFICES ASSUME Init PROVE AgreementInv
    OBVIOUS
  <1>1. \A r \in Runs : run[r].phase = "waiting"
    BY DEF Init, Waiting
  <1>2. SucceededByRun /\ SkippedIsCurrent /\ FoundIsCurrent /\ DoneHasRow
    BY <1>1 DEF SucceededByRun, SkippedIsCurrent, FoundIsCurrent, DoneHasRow, HasDone,
                Settled, Marked, Skips, At, SuccessPhases
  <1>3. FailedByRun /\ JobAndArtifactAgree
    BY RunsHaveJobs DEF Init, FailedByRun, JobAndArtifactAgree, Stored
  <1> QED
    BY <1>2, <1>3 DEF AgreementInv

\* With what is known of the objects the invariant is inductive.
LEMMA StepAgreementInv == ObjectInv /\ AgreementInv /\ [Next]_vars => AgreementInv'
  <1> SUFFICES ASSUME ObjectInv, AgreementInv, [Next]_vars PROVE AgreementInv'
    OBVIOUS
  <1>1. TypeOK
    BY DEF ObjectInv
  <1>2. CASE UNCHANGED vars
    BY <1>2
       DEF vars, AgreementInv, DoneHasRow, FailedByRun, SucceededByRun, SkippedIsCurrent,
           FoundIsCurrent, JobAndArtifactAgree, HasDone, OneDone, Settled, Marked, Skips,
           Stored, At
  <1>3. CASE Next
    BY <1>1, <1>3, StepKeepsAgreement, KeepsAgreementInv DEF Next
  <1> QED
    BY <1>2, <1>3

\* However often a job is delivered, it is not reported succeeded without its object, nor
\* ended without its row; and until a third of its runs commits an outcome, a job that is
\* reported succeeded has its artifact, and one that is reported failed has none that a
\* merge would take.
THEOREM JobsAgreeWithArtifacts == Spec => []JobAndArtifactAgree
  <1>1. AgreementInv => JobAndArtifactAgree
    BY DEF AgreementInv
  <1> QED
    BY <1>1, InitObjectInv, StepObjectInv, InitAgreementInv, StepAgreementInv, PTL DEF Spec

=============================================================================
