---------------------------- MODULE RuntimeAssets ----------------------------
(***************************************************************************)
(* The artifacts of the jobs of one runtime version: a worker runs a job,  *)
(* registers an asset row, puts the bytes into the object store and        *)
(* commits; a merge job waits for the artifacts of other jobs              *)
(* (app/workers/tasks.py, app/workers/executors.py,                        *)
(* app/services/runtime_artifact_service.py).                              *)
(*                                                                         *)
(* The object store takes part in no transaction.  What orders two runs of *)
(* one job is the asset row: the flush of the registration takes its row   *)
(* lock, or its entry in the unique index on (bucket, key), and keeps it   *)
(* until the commit or the rollback.                                       *)
(*                                                                         *)
(* The object key of an artifact ends in the identifier of its job, and    *)
(* the jobs the compiler creates name their sequence, so a failure and a   *)
(* success of a job have one key: a job stands for its row, its key and    *)
(* its object.  Messages are acknowledged when a run starts, but one that  *)
(* waits too long in a worker's prefetch buffer is delivered again, and    *)
(* again: a job may have any number of runs.                               *)
(***************************************************************************)
EXTENDS Integers, FiniteSets

CONSTANTS
    Jobs, Runs, NoRun,
    JobOf,          \* the job each delivered message names
    KindOf,         \* the job_type of each job
    Inherited,      \* jobs whose artifact was made before the first run
    PoolSize,       \* worker processes
    MaxLooks,       \* how often the merge looks for an asset (91 in the code)
    MaxCrashes      \* bound on killed worker processes

ASSUME RunsHaveJobs == JobOf \in [Runs -> Jobs] /\ NoRun \notin Runs \cup {"inherited"}

ASSUME KindsAreJobTypes ==
    KindOf \in [Jobs -> {"render_image", "render_video", "render_voice", "merge"}]

ASSUME InheritedAreJobs == Inherited \subseteq Jobs

ASSUME SizesAreNatural ==
    PoolSize \in Nat \ {0} /\ MaxLooks \in Nat \ {0} /\ MaxCrashes \in Nat

VARIABLES
    run,        \* the worker session of each message
    job,        \* status of the jobs rows
    asset,      \* the committed assets rows
    writer,     \* the run whose uncommitted write holds the row or its key
    object,     \* what is stored under the key: the run that made it
    crashes

vars == <<run, job, asset, writer, object, crashes>>

----------------------------------------------------------------------------
JobStatuses == {"dispatched", "running", "succeeded", "failed"}

AssetStatuses == {"ABSENT", "registered", "materialized", "failed"}

\* The bytes of an inherited artifact are nobody's of the runs at hand.
Contents == Runs \cup {NoRun, "inherited"}

AssetRows == [status: AssetStatuses, etag: Contents]

\* From the message to the commit of a success, and from an exception to the
\* commit of a failure.
SuccessPhases ==
    {"starting", "executing", "looking", "fetching", "muxing", "loading", "registering",
     "checking", "uploading", "storing"}
FailurePhases == {"raised", "handling", "failing"}
EndPhases == {"done", "abandoned", "killed"}

Busy == SuccessPhases \cup FailurePhases

\* loaded, found: the job's and the asset's status as this session read them;
\* inputs: the jobs whose artifacts a merge has found; looks: for the next one.
RunRecords ==
    [phase: Busy \cup EndPhases \cup {"waiting"},
     loaded: JobStatuses, found: AssetStatuses,
     payload: {"none", "bytes", "empty"}, etag: Contents,
     inputs: SUBSET Jobs, looks: 0..MaxLooks - 1]

Waiting ==
    [phase |-> "waiting", loaded |-> "dispatched", found |-> "ABSENT",
     payload |-> "none", etag |-> NoRun, inputs |-> {}, looks |-> 0]

Init ==
    /\ run = [r \in Runs |-> Waiting]
    /\ job = [j \in Jobs |-> IF j \in Inherited THEN "succeeded" ELSE "dispatched"]
    /\ asset = [j \in Jobs |-> IF j \in Inherited
                               THEN [status |-> "materialized", etag |-> "inherited"]
                               ELSE [status |-> "ABSENT", etag |-> NoRun]]
    /\ writer = [j \in Jobs |-> NoRun]
    /\ object = [j \in Jobs |-> IF j \in Inherited THEN "inherited" ELSE NoRun]
    /\ crashes = 0

At(r, phase) == run[r].phase = phase

Goto(r, phase) == run' = [run EXCEPT ![r].phase = phase]

\* What a session has read or got is gone when it ends, and when it is rolled back.
Reset(r, phase) == run' = [run EXCEPT ![r] = [Waiting EXCEPT !.phase = phase]]

\* An exception anywhere in the try block of _run_job.
Raise(r) == Reset(r, "raised")

Unchanged == UNCHANGED <<job, asset, writer, object, crashes>>

\* The store: stat_object and put_object.
Stored(j) == object[j] # NoRun

Put(r) == object' = [object EXCEPT ![JobOf[r]] = r]

----------------------------------------------------------------------------
(* The first transaction *)

\* A free worker takes the message and loads the job.
StartRun(r) ==
    /\ At(r, "waiting")
    /\ Cardinality({s \in Runs : run[s].phase \in Busy}) < PoolSize
    /\ run' = [run EXCEPT ![r].phase = "starting", ![r].loaded = job[JobOf[r]]]
    /\ Unchanged

\* _mark_job_running and the commit, unless something in between raises; the column is
\* written only if it differs from what was loaded.
CommitStart(r) ==
    /\ At(r, "starting")
    /\ \/ Raise(r) /\ UNCHANGED job
       \/ /\ job' = IF run[r].loaded = "running" THEN job
                    ELSE [job EXCEPT ![JobOf[r]] = "running"]
          /\ Goto(r, IF KindOf[JobOf[r]] = "merge" THEN "looking" ELSE "executing")
    /\ UNCHANGED <<asset, writer, object, crashes>>

----------------------------------------------------------------------------
(* The execution *)

\* _validate_execution_result: a binary artifact needs bytes.
ValidResult(payload) == payload = "bytes"

\* A render executor returns or raises.  The configured relay has no speech.
Execute(r) ==
    /\ At(r, "executing")
    /\ \/ Raise(r)
       \/ \E payload \in {"bytes", "empty"} :
             /\ KindOf[JobOf[r]] # "render_voice"
             /\ run' = [run EXCEPT
                          ![r].payload = payload,
                          ![r].phase = IF ValidResult(payload) THEN "loading" ELSE "raised"]
    /\ Unchanged

\* What the merge needs next: a video, then audio.
Wanted(r) ==
    IF run[r].inputs = {} THEN {"render_video"}
    ELSE {"render_video", "render_voice"} \ {KindOf[j] : j \in run[r].inputs}

\* _find_runtime_asset may return any of these, the newest.
FindRuntimeAsset(kinds) == {j \in Jobs : KindOf[j] \in kinds /\ asset[j].status = "materialized"}

\* Mutant: a look that finds nothing is not counted.
LookForEver(r) ==
    /\ At(r, "looking")
    /\ LET found == FindRuntimeAsset(Wanted(r)) IN
       \/ \E j \in found :
             run' = [run EXCEPT
                       ![r].inputs = @ \cup {j}, ![r].looks = 0,
                       ![r].phase = IF run[r].inputs = {} THEN "looking" ELSE "fetching"]
       \/ found = {} /\ run' = [run EXCEPT ![r].looks = 0]
    /\ Unchanged

\* Mutant: one look too many.
LookOnceMore(r) ==
    /\ At(r, "looking")
    /\ LET found == FindRuntimeAsset(Wanted(r)) IN
       \/ \E j \in found :
             run' = [run EXCEPT
                       ![r].inputs = @ \cup {j}, ![r].looks = 0,
                       ![r].phase = IF run[r].inputs = {} THEN "looking" ELSE "fetching"]
       \/ /\ found = {}
          /\ IF run[r].looks < MaxLooks
             THEN run' = [run EXCEPT ![r].looks = @ + 1]
             ELSE Raise(r)
    /\ Unchanged

\* One look of _wait_for_runtime_asset.  When it gives up on the video it still
\* looks for audio; the outcome, a failed merge, is the same.
Look(r) ==
    /\ At(r, "looking")
    /\ LET found == FindRuntimeAsset(Wanted(r)) IN
       \/ \E j \in found :
             run' = [run EXCEPT
                       ![r].inputs = @ \cup {j}, ![r].looks = 0,
                       ![r].phase = IF run[r].inputs = {} THEN "looking" ELSE "fetching"]
       \/ /\ found = {}
          /\ IF run[r].looks < MaxLooks - 1
             THEN run' = [run EXCEPT ![r].looks = @ + 1]
             ELSE Raise(r)
    /\ Unchanged

\* get_bytes of both inputs: a missing object raises.
Fetch(r) ==
    /\ At(r, "fetching")
    /\ \/ Raise(r)
       \/ /\ \A j \in run[r].inputs : Stored(j)
          /\ Goto(r, "muxing")
    /\ Unchanged

\* _mux_video_and_audio: ffmpeg fails, writes nothing, or writes the export.
Mux(r) ==
    /\ At(r, "muxing")
    /\ \/ Raise(r)
       \/ run' = [run EXCEPT ![r].phase = "loading", ![r].payload = "bytes"]
    /\ Unchanged

----------------------------------------------------------------------------
(* The second transaction, when all goes well *)

\* The job is loaded again, and _find_existing_runtime_asset reads the row.
LoadArtifact(r) ==
    /\ At(r, "loading")
    /\ run' = [run EXCEPT ![r].phase = "registering", ![r].loaded = job[JobOf[r]],
                          ![r].found = asset[JobOf[r]].status]
    /\ Unchanged

\* Mutant: the object is looked for before the row is locked.
RegisterAfterCheck(r) ==
    LET j == JobOf[r] IN
    /\ At(r, "registering")
    /\ IF run[r].found = "ABSENT" /\ asset[j].status # "ABSENT"
       THEN Raise(r) /\ UNCHANGED writer
       ELSE Goto(r, "checking") /\ writer' = [writer EXCEPT ![j] = r]
    /\ UNCHANGED <<job, asset, object, crashes>>

\* The flush of _register_generated_asset: an update, or an insert that the unique
\* constraint refuses if another run's row was committed after the look.
Register(r) ==
    LET j == JobOf[r] IN
    /\ At(r, "registering")
    /\ writer[j] = NoRun
    /\ IF run[r].found = "ABSENT" /\ asset[j].status # "ABSENT"
       THEN Raise(r) /\ UNCHANGED writer
       ELSE Goto(r, "checking") /\ writer' = [writer EXCEPT ![j] = r]
    /\ UNCHANGED <<job, asset, object, crashes>>

\* object_exists and stat_object; an object that is there is not written again.
CheckObject(r) ==
    /\ At(r, "checking")
    /\ \/ Raise(r)
       \/ /\ ~Stored(JobOf[r])
          /\ Goto(r, "uploading")
       \/ /\ Stored(JobOf[r])
          /\ run' = [run EXCEPT ![r].phase = "storing", ![r].etag = object[JobOf[r]]]
    /\ Unchanged

\* materialize_bytes; an upload that raises may have stored the object.
Upload(r) ==
    /\ At(r, "uploading")
    /\ \/ /\ Put(r)
          /\ \/ run' = [run EXCEPT ![r].phase = "storing", ![r].etag = r]
             \/ Raise(r)
       \/ Raise(r) /\ UNCHANGED object
    /\ UNCHANGED <<job, asset, writer, crashes>>

\* Mutant: the job is committed before the asset.
CommitJobOnly(r) ==
    LET j == JobOf[r] IN
    /\ At(r, "storing")
    /\ job' = IF run[r].loaded = "succeeded" THEN job ELSE [job EXCEPT ![j] = "succeeded"]
    /\ Reset(r, "done")
    /\ writer' = [writer EXCEPT ![j] = NoRun]
    /\ UNCHANGED <<asset, object, crashes>>

\* _mark_job_succeeded and the commit, which may be refused.
CommitSuccess(r) ==
    LET j == JobOf[r] IN
    /\ At(r, "storing")
    /\ \/ Raise(r) /\ UNCHANGED <<job, asset, writer>>
       \/ /\ asset' = [asset EXCEPT ![j] = [status |-> "materialized", etag |-> run[r].etag]]
          /\ job' = IF run[r].loaded = "succeeded" THEN job
                    ELSE [job EXCEPT ![j] = "succeeded"]
          /\ writer' = [writer EXCEPT ![j] = NoRun]
          /\ Reset(r, "done")
    /\ UNCHANGED <<object, crashes>>

----------------------------------------------------------------------------
(* The second transaction, after an exception *)

Released(r) == [writer EXCEPT ![JobOf[r]] = IF @ = r THEN NoRun ELSE @]

\* The rollback; then the job is loaded.
Rollback(r) ==
    /\ At(r, "raised")
    /\ writer' = Released(r)
    /\ run' = [run EXCEPT ![r].phase = "handling", ![r].loaded = job[JobOf[r]]]
    /\ UNCHANGED <<job, asset, object, crashes>>

\* The handler itself raises, in a query or its commit: nothing of this run is committed.
Abandon(r) == Reset(r, "abandoned")

\* _find_existing_runtime_asset reads the row.
LoadFailed(r) ==
    /\ At(r, "handling")
    /\ \/ Abandon(r)
       \/ run' = [run EXCEPT ![r].phase = "failing", ![r].found = asset[JobOf[r]].status]
    /\ Unchanged

\* The asset is registered as failed and committed with the job.  The insert may be
\* refused like the one above, and so may the commit.
CommitFailure(r) ==
    LET j == JobOf[r] IN
    /\ At(r, "failing")
    /\ writer[j] = NoRun
    /\ \/ Abandon(r) /\ UNCHANGED <<job, asset>>
       \/ /\ run[r].found = "ABSENT" => asset[j].status = "ABSENT"
          /\ asset' = IF run[r].found = "failed" THEN asset
                      ELSE [asset EXCEPT ![j].status = "failed"]
          /\ job' = IF run[r].loaded = "failed" THEN job ELSE [job EXCEPT ![j] = "failed"]
          /\ Reset(r, "done")
    /\ UNCHANGED <<writer, object, crashes>>

\* The worker process is killed: the database rolls back, the object stays.
Crash(r) ==
    /\ crashes < MaxCrashes
    /\ run[r].phase \in Busy
    /\ crashes' = crashes + 1
    /\ writer' = Released(r)
    /\ Reset(r, "killed")
    /\ UNCHANGED <<job, asset, object>>

----------------------------------------------------------------------------
Work(r) ==
    \/ StartRun(r) \/ CommitStart(r)
    \/ Execute(r) \/ Look(r) \/ Fetch(r) \/ Mux(r)
    \/ LoadArtifact(r) \/ Register(r) \/ CheckObject(r) \/ Upload(r) \/ CommitSuccess(r)
    \/ Rollback(r) \/ LoadFailed(r) \/ CommitFailure(r)

Next == \E r \in Runs : Work(r) \/ Crash(r)

Spec == Init /\ [][Next]_vars

\* A live worker goes on with the task it holds and takes the next message; calls of
\* the provider, the database and the store return or raise in the end.
FairSpec == Spec /\ \A r \in Runs : WF_vars(Work(r))

----------------------------------------------------------------------------
(* Properties *)

TypeOK ==
    /\ run \in [Runs -> RunRecords]
    /\ job \in [Jobs -> JobStatuses]
    /\ asset \in [Jobs -> AssetRows]
    /\ writer \in [Jobs -> Runs \cup {NoRun}]
    /\ object \in [Jobs -> Contents]
    /\ crashes \in 0..MaxCrashes

\* An asset row that says materialized has its object, and carries the etag of what
\* is stored, whichever runs were killed, refused or redelivered in between.
MaterializedHasObject ==
    \A j \in Jobs : asset[j].status = "materialized" =>
        Stored(j) /\ asset[j].etag = object[j]

\* The runs of a job that have committed their outcome.
Settled(j) == {r \in Runs : JobOf[r] = j /\ At(r, "done")}

\* However often a job is delivered, it is not reported succeeded without its object, nor
\* reported to have ended without its row.  And until a third of its runs commits an
\* outcome, whatever the others do, a job that is reported succeeded has its artifact,
\* and a job that is reported failed has none that a merge would take.  (The third may
\* skip the write of a status that another one has changed since it loaded it.)
JobAndArtifactAgree ==
    \A j \in Jobs :
        /\ job[j] = "succeeded" => Stored(j)
        /\ job[j] \in {"succeeded", "failed"} => asset[j].status \in {"materialized", "failed"}
        /\ (\A r, s, t \in Settled(j) : r = s \/ s = t \/ r = t) =>
              /\ job[j] = "succeeded" => asset[j].status = "materialized"
              /\ job[j] = "failed" => asset[j].status = "failed"

\* An object is never written twice: a second run of the job takes over what it
\* finds, and two runs cannot both find nothing.
ObjectsAreNotRewritten ==
    [][\A j \in Jobs : Stored(j) => object'[j] = object[j]]_vars

\* Every run ends, unless its worker is killed: a merge gives up after a bounded
\* number of looks although it may hold the only worker its inputs need, and nobody
\* waits for a row lock for ever.
RunsEnd == \A r \in Runs : <>(run[r].phase \in EndPhases)

=============================================================================
