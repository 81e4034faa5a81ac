-------------------------- MODULE DispatchPipeline --------------------------
(***************************************************************************)
(* The path of one compiled runtime: the compile request creates the       *)
(* runtime and its jobs, sends each job to the Celery broker and commits   *)
(* the dispatch; workers run the jobs and each of them recomputes the      *)
(* aggregate columns of the runtime row from the job rows it sees          *)
(* (app/compilers/orchestrator/compiler_service.py, app/workers/tasks.py,  *)
(* app/services/runtime_state_service.py).                                 *)
(*                                                                         *)
(* No row is locked before it is written.  Transactions read committed     *)
(* rows one statement at a time, and the ORM writes a column only where    *)
(* the new value differs from the one this session loaded.  So a worker's  *)
(* transaction is three steps: load the runtime, read the jobs, commit.    *)
(***************************************************************************)
EXTENDS Integers, FiniteSets

CONSTANTS
    PipelineSize,   \* the number of jobs a compile request creates (3 in the code)
    MaxExports,     \* bound on the export jobs created for the runtime
    Codes,          \* the error codes an execution may fail with
    NoCode,         \* the null error code
    MaxCrashes      \* bound on the tasks that stop without committing their end

ASSUME SizesAreNatural ==
    PipelineSize \in Nat \ {0} /\ MaxExports \in Nat /\ MaxCrashes \in Nat

ASSUME NoCodeIsNone == NoCode \notin Codes /\ "ok" \notin Codes /\ "none" \notin Codes

VARIABLES
    request,    \* where the compile request is
    sent,       \* how many jobs it has handed to the broker
    job,        \* jobs rows, in the order of created_at
    runtime,    \* the compiled_runtimes row
    broker,     \* jobs whose message waits in the broker
    session,    \* the worker session of each job
    crashes,    \* tasks that stopped without committing their end so far
    overrun     \* history: the jobs with a worker's commit that the last commit of
                \* the compile request wrote over

vars == <<request, sent, job, runtime, broker, session, crashes, overrun>>

----------------------------------------------------------------------------
Pipeline == 1..PipelineSize

Jobs == 1..(PipelineSize + MaxExports)

ActiveStatuses == {"queued", "dispatched", "running"}

EndedStatuses == {"succeeded", "failed"}

JobStatuses == {"ABSENT"} \cup ActiveStatuses \cup EndedStatuses

CompileStatuses == {"ABSENT", "compiled", "dispatched", "running"} \cup EndedStatuses

DispatchStatuses == {"not_dispatched", "partially_dispatched", "fully_dispatched"}

Outcomes == {"ok"} \cup Codes

JobRows == [status : JobStatuses, error : Codes \cup {NoCode}]

\* dispatch_summary, as far as it matters: the status of each job it lists.
Summaries == UNION {[S -> JobStatuses \ {"ABSENT"}] : S \in SUBSET Jobs}

RuntimeRows ==
    [compile : CompileStatuses, dispatch : DispatchStatuses,
     summary : Summaries, code : Codes \cup {NoCode}]

EmptySummary == [j \in {} |-> "queued"]

NewRuntime(compile) ==
    [compile |-> compile, dispatch |-> "not_dispatched",
     summary |-> EmptySummary, code |-> NoCode]

\* Where the task of a job is: each of the two transactions loads the runtime
\* row, reads the job rows and commits; the execution is between them.
LoadedPhases == {"starting", "ending"}
ReadPhases == {"start_read", "end_read"}
LivePhases == LoadedPhases \cup ReadPhases \cup {"executing"}

\* outcome: how the execution ended; loaded: the runtime row as the session
\* loaded it; new: the same row after the session's own assignments.
Sessions ==
    [phase : LivePhases \cup {"none", "done", "lost"},
     outcome : Outcomes \cup {"none"},
     loaded : RuntimeRows, new : RuntimeRows]

Idle == [phase |-> "none", outcome |-> "none",
         loaded |-> NewRuntime("ABSENT"), new |-> NewRuntime("ABSENT")]

Init ==
    /\ request = "idle"
    /\ sent = 0
    /\ job = [j \in Jobs |-> [status |-> "ABSENT", error |-> NoCode]]
    /\ runtime = NewRuntime("ABSENT")
    /\ broker = {}
    /\ session = [j \in Jobs |-> Idle]
    /\ crashes = 0
    /\ overrun = {}

----------------------------------------------------------------------------
(* The aggregate columns *)

Having(summary, statuses) == {j \in DOMAIN summary : summary[j] \in statuses}

\* Mutant: one job that is through counts as the runtime being through.
DeriveCompileOnFirstSuccess(summary, current) ==
    IF Having(summary, {"failed"}) # {} THEN "failed"
    ELSE IF Having(summary, {"succeeded"}) # {} THEN "succeeded"
    ELSE IF Having(summary, ActiveStatuses) # {} THEN "running"
    ELSE current

DeriveCompileStatus(summary, current) ==
    IF DOMAIN summary = {} THEN current
    ELSE IF Having(summary, {"failed"}) # {} THEN "failed"
    ELSE IF Having(summary, {"succeeded"}) = DOMAIN summary THEN "succeeded"
    ELSE IF Having(summary, ActiveStatuses) # {} THEN "running"
    ELSE current

\* Mutant: queued jobs count as dispatched.
DeriveDispatchCountingQueued(summary, current) ==
    IF DOMAIN summary = {} THEN current ELSE "fully_dispatched"

\* Mutant: a runtime-level word in the dispatch column.
DeriveDispatchAsCompile(summary, current) ==
    IF Having(summary, {"queued"}) = {} THEN "dispatched" ELSE "partially_dispatched"

DeriveDispatchStatus(summary, current) ==
    LET beyond == Having(summary, {"dispatched", "running"} \cup EndedStatuses) IN
    IF DOMAIN summary = {} THEN current
    ELSE IF beyond = {} THEN "not_dispatched"
    ELSE IF beyond = DOMAIN summary THEN "fully_dispatched"
    ELSE "partially_dispatched"

BuildSummary(rows) ==
    [j \in {k \in Jobs : rows[k].status # "ABSENT"} |-> rows[j].status]

\* The last job of the summary that failed.
LatestFailed(summary) ==
    CHOOSE j \in Having(summary, {"failed"}) :
        \A k \in Having(summary, {"failed"}) : k <= j

\* refresh_runtime_status on a runtime object and the job rows it can see.
RefreshRuntimeStatus(row, rows) ==
    LET summary == BuildSummary(rows)
        compile == DeriveCompileStatus(summary, row.compile)
        failed  == Having(summary, {"failed"})
    IN  [compile  |-> compile,
         dispatch |-> DeriveDispatchStatus(summary, row.dispatch),
         summary  |-> summary,
         code     |-> IF failed # {}
                      THEN LET code == rows[LatestFailed(summary)].error
                           IN IF code = NoCode THEN row.code ELSE code
                      ELSE IF compile = "failed" THEN row.code ELSE NoCode]

\* The UPDATE of a flush: only the columns whose value differs from the loaded one.
Flush(row, loaded, new) ==
    [c \in DOMAIN row |-> IF new[c] = loaded[c] THEN row[c] ELSE new[c]]

----------------------------------------------------------------------------
(* The compile request *)

\* compile_project with dispatch_jobs: the runtime and its queued jobs are
\* committed before anything is sent.
CreateJobs ==
    /\ request = "idle"
    /\ request' = "dispatching"
    /\ runtime' = NewRuntime("compiled")
    /\ job' = [j \in Jobs |->
                 IF j \in Pipeline THEN [job[j] EXCEPT !.status = "queued"] ELSE job[j]]
    /\ UNCHANGED <<sent, broker, session, crashes, overrun>>

\* compile_project without dispatch_jobs.
CompileOnly ==
    /\ request = "idle"
    /\ request' = "done"
    /\ runtime' = NewRuntime("compiled")
    /\ UNCHANGED <<sent, job, broker, session, crashes, overrun>>

\* JobDispatchService.dispatch hands the next job's message to the broker; the new
\* status of the job is only in the request's session until FinalCommit.
Dispatch ==
    /\ request = "dispatching"
    /\ sent < PipelineSize
    /\ sent' = sent + 1
    /\ broker' = broker \cup {sent + 1}
    /\ UNCHANGED <<request, job, runtime, session, crashes, overrun>>

\* The broker refuses a message or the API process dies: the request's session is
\* rolled back, and what was sent stays sent.
AbortRequest ==
    /\ request = "dispatching"
    /\ request' = "aborted"
    /\ UNCHANGED <<sent, job, runtime, broker, session, crashes, overrun>>

\* Mutant: the export jobs of the project are marked too.
FinalCommitOfAll ==
    /\ request = "dispatching"
    /\ sent = PipelineSize
    /\ request' = "done"
    /\ job' = [j \in Jobs |->
                 IF job[j].status = "queued" THEN [job[j] EXCEPT !.status = "dispatched"]
                 ELSE job[j]]
    /\ runtime' = [runtime EXCEPT
                     !.compile = "dispatched",
                     !.dispatch = "fully_dispatched",
                     !.summary = [j \in Pipeline |-> "dispatched"]]
    /\ overrun' = {j \in Pipeline : job[j].status # "queued"}
    /\ UNCHANGED <<sent, broker, session, crashes>>

\* The end of compile_project: every job it sent is written "dispatched" and the
\* runtime columns are written, whatever the workers have written meanwhile.
FinalCommit ==
    /\ request = "dispatching"
    /\ sent = PipelineSize
    /\ request' = "done"
    /\ job' = [j \in Jobs |->
                 IF j \in Pipeline THEN [job[j] EXCEPT !.status = "dispatched"] ELSE job[j]]
    /\ runtime' = [runtime EXCEPT
                     !.compile = "dispatched",
                     !.dispatch = "fully_dispatched",
                     !.summary = [j \in Pipeline |-> "dispatched"]]
    /\ overrun' = {j \in Pipeline : job[j].status # "queued"}
    /\ UNCHANGED <<sent, broker, session, crashes>>

\* ExportService.create_export_job: a queued job of the runtime that no task runs.
CreateExport ==
    /\ runtime.compile # "ABSENT"
    /\ \E j \in Jobs \ Pipeline :
          /\ job[j].status = "ABSENT"
          /\ \A k \in Jobs \ Pipeline : k < j => job[k].status # "ABSENT"
          /\ job' = [job EXCEPT ![j].status = "queued"]
    /\ UNCHANGED <<request, sent, runtime, broker, session, crashes, overrun>>

Request == CreateJobs \/ CompileOnly \/ Dispatch \/ AbortRequest \/ FinalCommit

----------------------------------------------------------------------------
(* The worker session of job j *)

\* The job's own row as its session will write it.
Marked(j) ==
    CASE session[j].outcome = "none" -> [status |-> "running", error |-> NoCode]
      [] session[j].outcome = "ok"   -> [job[j] EXCEPT !.status = "succeeded"]
      [] OTHER -> [status |-> "failed", error |-> session[j].outcome]

\* What _update_runtime_status assigns before the refresh.  The None it passes for
\* the error columns at the start of a task means "leave alone".
Assigned(row, outcome) ==
    CASE outcome = "none" -> [row EXCEPT !.compile = "running"]
      [] outcome = "ok"   -> row
      [] OTHER -> [row EXCEPT !.compile = "failed", !.code = outcome]

\* A worker takes the message (acknowledging it) and loads the job and the runtime,
\* be the compile request still at work or not.
TakeTask(j) ==
    /\ j \in broker
    /\ broker' = broker \ {j}
    /\ session' = [session EXCEPT ![j] =
                     [@ EXCEPT !.phase = "starting", !.loaded = runtime]]
    /\ UNCHANGED <<request, sent, job, runtime, crashes, overrun>>

\* Mutant: a task that succeeds does not recompute the aggregate.
RefreshUnlessSucceeded(j) ==
    /\ session[j].phase \in LoadedPhases
    /\ LET row  == Assigned(session[j].loaded, session[j].outcome)
           rows == [job EXCEPT ![j] = Marked(j)]
       IN  session' = [session EXCEPT ![j] =
                         [session[j] EXCEPT
                            !.phase = IF session[j].phase = "starting" THEN "start_read"
                                      ELSE "end_read",
                            !.new = IF session[j].outcome = "ok" THEN row
                                    ELSE RefreshRuntimeStatus(row, rows)]]
    /\ UNCHANGED <<request, sent, job, runtime, broker, crashes, overrun>>

\* The session reads the committed rows of the other jobs and its own as it will
\* write it, and sets the runtime columns.
Refresh(j) ==
    /\ session[j].phase \in LoadedPhases
    /\ LET row  == Assigned(session[j].loaded, session[j].outcome)
           rows == [job EXCEPT ![j] = Marked(j)]
       IN  session' = [session EXCEPT ![j] =
                         [session[j] EXCEPT
                            !.phase = IF session[j].phase = "starting" THEN "start_read"
                                      ELSE "end_read",
                            !.new = RefreshRuntimeStatus(row, rows)]]
    /\ UNCHANGED <<request, sent, job, runtime, broker, crashes, overrun>>

\* Mutant: a task that fails commits nothing.
CommitUnlessFailed(j) ==
    /\ session[j].phase \in ReadPhases
    /\ session[j].outcome \notin Codes
    /\ job' = [job EXCEPT ![j] = Marked(j)]
    /\ runtime' = Flush(runtime, session[j].loaded, session[j].new)
    /\ session' = [session EXCEPT ![j] =
                     [Idle EXCEPT !.phase = IF session[j].phase = "start_read"
                                            THEN "executing" ELSE "done",
                                  !.outcome = session[j].outcome]]
    /\ UNCHANGED <<request, sent, broker, crashes, overrun>>

\* The commit of either transaction.
Commit(j) ==
    /\ session[j].phase \in ReadPhases
    /\ job' = [job EXCEPT ![j] = Marked(j)]
    /\ runtime' = Flush(runtime, session[j].loaded, session[j].new)
    /\ session' = [session EXCEPT ![j] =
                     [Idle EXCEPT !.phase = IF session[j].phase = "start_read"
                                            THEN "executing" ELSE "done",
                                  !.outcome = session[j].outcome]]
    /\ UNCHANGED <<request, sent, broker, crashes, overrun>>

\* Mutant: the error code is committed before the job is marked.
ExecuteReportingAtOnce(j, outcome) ==
    /\ session[j].phase = "executing"
    /\ runtime' = IF outcome = "ok" THEN runtime ELSE [runtime EXCEPT !.code = outcome]
    /\ session' = [session EXCEPT ![j] =
                     [@ EXCEPT !.phase = "ending", !.outcome = outcome,
                               !.loaded = runtime']]
    /\ UNCHANGED <<request, sent, job, broker, crashes, overrun>>

\* The executor and the materialization return or raise, and the second
\* transaction loads the runtime again.
Execute(j, outcome) ==
    /\ session[j].phase = "executing"
    /\ session' = [session EXCEPT ![j] =
                     [@ EXCEPT !.phase = "ending", !.outcome = outcome,
                               !.loaded = runtime]]
    /\ UNCHANGED <<request, sent, job, runtime, broker, crashes, overrun>>

\* Either transaction raises before its commit is through, the commit itself included:
\* the session is rolled back and the failure handler loads the runtime again.
Raise(j, code) ==
    /\ \/ session[j].phase \in {"starting", "start_read"}
       \/ session[j].phase \in {"ending", "end_read"} /\ session[j].outcome = "ok"
    /\ session' = [session EXCEPT ![j] =
                     [Idle EXCEPT !.phase = "ending", !.outcome = code, !.loaded = runtime]]
    /\ UNCHANGED <<request, sent, job, runtime, broker, crashes, overrun>>

\* The worker process is killed, or the failure handler itself raises: what the session
\* has not committed is gone.  The message was acknowledged when it was taken, so
\* nobody runs the task again.
WorkerCrash(j) ==
    /\ crashes < MaxCrashes
    /\ session[j].phase \in LivePhases
    /\ crashes' = crashes + 1
    /\ session' = [session EXCEPT ![j] =
                     [Idle EXCEPT !.phase = "lost", !.outcome = session[j].outcome]]
    /\ UNCHANGED <<request, sent, job, runtime, broker, overrun>>

Work(j) ==
    \/ TakeTask(j) \/ Refresh(j) \/ Commit(j)
    \/ \E o \in Outcomes : Execute(j, o)
    \/ \E code \in Codes : Raise(j, code)

----------------------------------------------------------------------------
Next ==
    \/ Request
    \/ CreateExport
    \/ \E j \in Pipeline : Work(j) \/ WorkerCrash(j)

Spec == Init /\ [][Next]_vars

\* The request thread and the worker processes keep running: the server does not
\* drop a request, and a worker that is alive finishes the task it holds and takes
\* the next.  Exports and crashes are never forced.
Fairness ==
    /\ WF_vars(Request)
    /\ \A j \in Pipeline : WF_vars(Work(j))

FairSpec == Spec /\ Fairness

----------------------------------------------------------------------------
(* Invariants *)

TypeOK ==
    /\ request \in {"idle", "dispatching", "done", "aborted"}
    /\ sent \in 0..PipelineSize
    /\ job \in [Jobs -> JobRows]
    /\ runtime \in RuntimeRows
    /\ broker \subseteq Pipeline
    /\ session \in [Jobs -> Sessions]
    /\ crashes \in 0..MaxCrashes
    /\ overrun \subseteq Pipeline

\* Task j ended and its end was committed.
EndedAs(j, outcome) == session[j].phase = "done" /\ session[j].outcome = outcome

\* A runtime is reported succeeded only if the task of every job of the pipeline
\* was executed without error: not by a summary that misses jobs, a worker that
\* crashed or a stale write, and even when workers overtake the compile request.
NoFalseSuccess ==
    runtime.compile = "succeeded" => \A j \in Pipeline : EndedAs(j, "ok")

\* The runtime's last_error_code is the code some task of the runtime really failed
\* with, although each worker writes it from the rows it happened to see.
ErrorCodeIsReal ==
    runtime.code # NoCode => \E j \in Pipeline : EndedAs(j, runtime.code)

\* fully_dispatched is never reported while a job of the pipeline has not been
\* handed to the broker: an aborted request stays partially dispatched.
FullyDispatchedMeansSent ==
    runtime.dispatch = "fully_dispatched" => sent = PipelineSize

Quiescent ==
    /\ request \in {"done", "aborted"}
    /\ broker = {}
    /\ \A j \in Jobs : session[j].phase \in {"none", "done", "lost"}

\* A failure is never lost among the workers, with however many of them at once and
\* also while the compile request is still at work: when all tasks are through and each
\* committed its end, a runtime with a failed job is failed and carries the code of one
\* of its failed jobs, whichever workers wrote over each other.  The one writer it must
\* be protected from is the request's last commit: nothing is said once that wrote over
\* a worker's commit.
FailureIsReported ==
    crashes = 0 /\ overrun = {} /\ Quiescent /\ (\E j \in Jobs : job[j].status = "failed") =>
        /\ runtime.compile = "failed"
        /\ \E j \in Jobs : job[j].status = "failed" /\ job[j].error = runtime.code

\* Once a runtime is reported succeeded nothing about it changes any more, but by the
\* request's last commit when it writes over the workers' commits.
SuccessIsFinal ==
    [][runtime.compile = "succeeded" => runtime' = runtime \/ overrun' # overrun]_vars

\* The status column of the jobs follows the job contract's lifecycle, and the request's
\* last commit is the only write that takes a job back, once.
Lifecycle ==
    INSTANCE JobLifecycle WITH
        Dispatchable <- Pipeline, status <- [j \in Jobs |-> job[j].status]

StatusesAdvance == Lifecycle!Spec

\* Every task the broker took from the request ends with its job in a final status,
\* unless its worker is killed or its failure handler raises.
TasksEnd ==
    \A j \in Pipeline :
        (j \in broker) ~> (job[j].status \in EndedStatuses \/ session[j].phase = "lost")

\* What docs/contracts/job_contract.md says of "dispatched": the task id is there
\* and the job waits for a worker, so no worker is executing it or through with it.
DispatchedAwaitsExecution ==
    \A j \in Jobs : job[j].status = "dispatched" =>
        session[j].phase \notin {"executing", "done"}

\* What docs/contracts/runtime_state_contract.md says of "succeeded": all jobs of
\* the runtime succeeded.  Read when nothing is under way any more, and where the
\* request's last commit wrote over nothing.
AllSucceededIsSuccess ==
    Quiescent /\ overrun = {} /\ (\A j \in Jobs : job[j].status = "succeeded") =>
        runtime.compile = "succeeded"

=============================================================================
