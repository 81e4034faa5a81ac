----------------------- MODULE DispatchPipelineProofs -----------------------
(***************************************************************************)
(* Proofs about DispatchPipeline for every number of jobs, exports, error  *)
(* codes and tasks that stop, whenever the workers start.                  *)
(***************************************************************************)
EXTENDS DispatchPipeline, FiniteSetTheorems, WellFoundedInduction, TLAPS

----------------------------------------------------------------------------
(* The operators of the aggregate *)

\* A non-empty set of job numbers has a greatest member.
LEMMA GreatestJob ==
    ASSUME NEW S \in SUBSET Jobs, S # {}
    PROVE  \E j \in S : \A k \in S : k <= j
  <1> DEFINE Above(j) == {k \in S : k > j}
             T == {Above(j) : j \in S}
  <1>1. IsFiniteSet(Jobs) /\ Jobs \subseteq Int
    BY SizesAreNatural, FS_Interval DEF Jobs
  <1>2. IsFiniteSet(S)
    BY <1>1, FS_Subset
  <1>3. IsWellFoundedOn(StrictSubsetOrdering(S), SUBSET S)
    BY <1>2, FS_StrictSubsetOrderingWellFounded, FS_FiniteSubsetsOfFinite
  <1>4. T \subseteq SUBSET S /\ T # {}
    OBVIOUS
  <1> HIDE DEF T
  <1>5. \E U \in T : \A V \in T : ~ (<<V, U>> \in StrictSubsetOrdering(S))
    BY <1>3, <1>4, WFMin
  <1> USE DEF T
  <1>6. PICK j \in S : \A k \in S : ~ (<<Above(k), Above(j)>> \in StrictSubsetOrdering(S))
    BY <1>5
  <1>7. ASSUME NEW k \in S, k > j
        PROVE  FALSE
    <2>1. \A i \in S : i \in Int
      BY <1>1
    <2>2. \A i \in S : i > k => i > j
      BY <1>7, <2>1
    <2>3. ~ (k > k)
      BY <2>1
    <2>4. Above(k) \subseteq Above(j) /\ k \in Above(j) /\ k \notin Above(k)
      BY <1>7, <2>2, <2>3
    <2>5. <<Above(k), Above(j)>> \in StrictSubsetOrdering(S)
      BY <2>4 DEF StrictSubsetOrdering
    <2> QED
      BY <1>6, <2>5
  <1> QED
    BY <1>1, <1>7

\* The summary lists exactly the rows that exist.
LEMMA SummaryOfRows ==
    ASSUME NEW rows \in [Jobs -> JobRows]
    PROVE  /\ BuildSummary(rows) \in Summaries
           /\ \A j : j \in DOMAIN BuildSummary(rows)
                        <=> j \in Jobs /\ rows[j].status # "ABSENT"
           /\ \A j \in DOMAIN BuildSummary(rows) : BuildSummary(rows)[j] = rows[j].status
  <1> DEFINE S == {k \in Jobs : rows[k].status # "ABSENT"}
  <1>1. S \in SUBSET Jobs
    OBVIOUS
  <1>2. \A j \in S : rows[j].status \in JobStatuses \ {"ABSENT"}
    BY DEF JobRows
  <1>3. BuildSummary(rows) \in [S -> JobStatuses \ {"ABSENT"}]
    BY <1>2 DEF BuildSummary
  <1> QED
    BY <1>1, <1>3 DEF Summaries, BuildSummary

\* The job whose error code the refresh takes is a failed one.
LEMMA LatestFailedFailed ==
    ASSUME NEW rows \in [Jobs -> JobRows],
           Having(BuildSummary(rows), {"failed"}) # {}
    PROVE  /\ LatestFailed(BuildSummary(rows)) \in Jobs
           /\ rows[LatestFailed(BuildSummary(rows))].status = "failed"
  <1> DEFINE S == Having(BuildSummary(rows), {"failed"})
  <1>1. S \in SUBSET Jobs /\ \A j \in S : rows[j].status = "failed"
    BY SummaryOfRows DEF Having
  <1> HIDE DEF S
  <1>2. \E j \in S : \A k \in S : k <= j
    BY <1>1, GreatestJob DEF S
  <1>3. LatestFailed(BuildSummary(rows)) \in S
    BY <1>2 DEF LatestFailed, S
  <1> QED
    BY <1>1, <1>3

\* What refresh_runtime_status returns: a runtime row whose status is succeeded
\* only if every row it read is, whose error code is one of a failed row or the one
\* it had, and which is fully dispatched only if no row it read is queued.
LEMMA RefreshEffect ==
    ASSUME NEW row \in RuntimeRows, NEW rows \in [Jobs -> JobRows],
           \E j \in Jobs : rows[j].status # "ABSENT"
    PROVE  /\ RefreshRuntimeStatus(row, rows) \in RuntimeRows
           /\ RefreshRuntimeStatus(row, rows).compile = "succeeded" =>
                \A j \in Jobs : rows[j].status \in {"ABSENT", "succeeded"}
           /\ RefreshRuntimeStatus(row, rows).dispatch = "fully_dispatched" =>
                \A j \in Jobs : rows[j].status # "queued"
           /\ \/ RefreshRuntimeStatus(row, rows).code \in {NoCode, row.code}
              \/ \E j \in Jobs : /\ rows[j].status = "failed"
                                 /\ rows[j].error = RefreshRuntimeStatus(row, rows).code
  <1> DEFINE summary == BuildSummary(rows)
             compile == DeriveCompileStatus(summary, row.compile)
             failed  == Having(summary, {"failed"})
             code    == IF failed # {}
                        THEN LET c == rows[LatestFailed(summary)].error
                             IN IF c = NoCode THEN row.code ELSE c
                        ELSE IF compile = "failed" THEN row.code ELSE NoCode
             dispatch == DeriveDispatchStatus(summary, row.dispatch)
  <1>1. RefreshRuntimeStatus(row, rows) =
          [compile |-> compile, dispatch |-> dispatch, summary |-> summary, code |-> code]
    BY DEF RefreshRuntimeStatus
  <1>2. /\ summary \in Summaries
        /\ \A j : j \in DOMAIN summary <=> j \in Jobs /\ rows[j].status # "ABSENT"
        /\ \A j \in DOMAIN summary : summary[j] = rows[j].status
    BY SummaryOfRows
  <1>3. failed # {} => /\ LatestFailed(summary) \in Jobs
                       /\ rows[LatestFailed(summary)].status = "failed"
    BY LatestFailedFailed
  <1> HIDE DEF summary
  <1>4. DOMAIN summary # {}
    BY <1>2
  <1>5. row.compile \in CompileStatuses /\ row.dispatch \in DispatchStatuses
        /\ row.code \in Codes \cup {NoCode}
    BY DEF RuntimeRows
  <1>6. /\ compile \in CompileStatuses
        /\ compile = "succeeded" => \A j \in Jobs : rows[j].status \in {"ABSENT", "succeeded"}
    <2>1. compile \in CompileStatuses
      BY <1>5 DEF DeriveCompileStatus, CompileStatuses, EndedStatuses
    <2>2. CASE \A j \in Jobs : rows[j].status \in {"ABSENT", "succeeded"}
      BY <2>1, <2>2
    <2>3. ASSUME NEW j \in Jobs, rows[j].status \notin {"ABSENT", "succeeded"}
          PROVE  compile # "succeeded"
      <3>1. j \in DOMAIN summary /\ summary[j] \in ActiveStatuses \cup {"failed"}
        BY <1>2, <2>3 DEF JobRows, JobStatuses, EndedStatuses
      <3>2. Having(summary, {"failed"}) # {} \/ Having(summary, ActiveStatuses) # {}
        BY <3>1 DEF Having
      <3>3. Having(summary, {"succeeded"}) # DOMAIN summary
        BY <3>1 DEF Having, ActiveStatuses
      <3> QED
        BY <1>4, <3>2, <3>3 DEF DeriveCompileStatus
    <2> QED
      BY <2>1, <2>2, <2>3
  <1>7. /\ dispatch \in DispatchStatuses
        /\ dispatch = "fully_dispatched" => \A j \in Jobs : rows[j].status # "queued"
    <2>1. dispatch \in DispatchStatuses
      BY <1>5 DEF DeriveDispatchStatus, DispatchStatuses
    <2>2. ASSUME NEW j \in Jobs, rows[j].status = "queued"
          PROVE  dispatch # "fully_dispatched"
      <3>1. /\ j \in DOMAIN summary
            /\ j \notin Having(summary, {"dispatched", "running"} \cup EndedStatuses)
        BY <1>2, <2>2 DEF Having, EndedStatuses
      <3> QED
        BY <1>4, <3>1 DEF DeriveDispatchStatus
    <2> QED
      BY <2>1, <2>2
  <1>8. /\ code \in Codes \cup {NoCode}
        /\ \/ code \in {NoCode, row.code}
           \/ \E j \in Jobs : rows[j].status = "failed" /\ rows[j].error = code
    <2>1. CASE failed = {}
      BY <1>5, <2>1
    <2>2. CASE failed # {}
      BY <1>3, <1>5, <2>2 DEF JobRows
    <2> QED
      BY <2>1, <2>2
  <1> HIDE DEF compile, dispatch, code
  <1> QED
    BY <1>1, <1>2, <1>6, <1>7, <1>8 DEF RuntimeRows

\* An UPDATE leaves a column alone or sets it to the new value.
LEMMA FlushEffect ==
    ASSUME NEW row \in RuntimeRows, NEW loaded \in RuntimeRows, NEW new \in RuntimeRows
    PROVE  /\ Flush(row, loaded, new) \in RuntimeRows
           /\ Flush(row, loaded, new).compile \in {row.compile, new.compile}
           /\ Flush(row, loaded, new).dispatch \in {row.dispatch, new.dispatch}
           /\ Flush(row, loaded, new).code \in {row.code, new.code}
  <1>1. DOMAIN row = {"compile", "dispatch", "summary", "code"}
    BY DEF RuntimeRows
  <1> DEFINE f == Flush(row, loaded, new)
  <1>2. f = [compile |-> f.compile, dispatch |-> f.dispatch,
             summary |-> f.summary, code |-> f.code]
    BY <1>1 DEF Flush
  <1>3. /\ f["compile"] \in {row.compile, new.compile}
        /\ f["dispatch"] \in {row.dispatch, new.dispatch}
        /\ f["summary"] \in {row.summary, new.summary}
        /\ f["code"] \in {row.code, new.code}
    BY <1>1 DEF Flush
  <1> HIDE DEF f
  <1> QED
    BY <1>2, <1>3 DEF RuntimeRows, f

----------------------------------------------------------------------------
(* Types *)

\* The job numbers of the pipeline are jobs.
LEMMA PipelineJobs == Pipeline \subseteq Jobs /\ Jobs \subseteq Int
  BY SizesAreNatural DEF Pipeline, Jobs

\* The idle session is a session.
LEMMA IdleType == Idle \in Sessions /\ NewRuntime("ABSENT") \in RuntimeRows
                  /\ NewRuntime("compiled") \in RuntimeRows
  <1>1. EmptySummary \in Summaries
    <2>1. EmptySummary \in [{} -> JobStatuses \ {"ABSENT"}]
      BY DEF EmptySummary
    <2> QED
      BY <2>1 DEF Summaries
  <1>2. \A s \in {"ABSENT", "compiled"} : NewRuntime(s) \in RuntimeRows
    BY <1>1 DEF NewRuntime, RuntimeRows, CompileStatuses, DispatchStatuses
  <1> QED
    BY <1>2 DEF Idle, Sessions

\* The row a session writes for its job.
LEMMA MarkedType ==
    ASSUME TypeOK, NEW j \in Pipeline
    PROVE  /\ Marked(j) \in JobRows
           /\ Marked(j).status \in {"running"} \cup EndedStatuses
           /\ session[j].outcome = "none" => Marked(j).status = "running"
           /\ Marked(j).status = "succeeded" => session[j].outcome = "ok"
           /\ Marked(j).status = "failed" =>
                session[j].outcome \in Codes /\ Marked(j).error = session[j].outcome
  <1>1. job[j] \in JobRows /\ session[j] \in Sessions
    BY PipelineJobs DEF TypeOK
  <1>2. session[j].outcome \in {"none", "ok"} \cup Codes
    BY <1>1 DEF Sessions, Outcomes
  <1>3. CASE session[j].outcome = "none"
    BY <1>3 DEF Marked, JobRows, JobStatuses, ActiveStatuses, EndedStatuses
  <1>4. CASE session[j].outcome = "ok"
    BY <1>1, <1>4 DEF Marked, JobRows, JobStatuses, ActiveStatuses, EndedStatuses
  <1>5. CASE session[j].outcome \in Codes
    <2>1. Marked(j) = [status |-> "failed", error |-> session[j].outcome]
      BY <1>5, NoCodeIsNone DEF Marked
    <2> QED
      BY <1>5, <2>1, NoCodeIsNone DEF JobRows, JobStatuses, EndedStatuses
  <1> QED
    BY <1>2, <1>3, <1>4, <1>5

\* The row a session refreshes: typed, succeeded only if the loaded one was, and
\* with its own outcome or the loaded code as the error code.
LEMMA AssignedType ==
    ASSUME NEW row \in RuntimeRows, NEW outcome \in Outcomes \cup {"none"}
    PROVE  /\ Assigned(row, outcome) \in RuntimeRows
           /\ Assigned(row, outcome).code = IF outcome \in Codes THEN outcome ELSE row.code
  <1>1. CASE outcome = "none"
    <2>1. Assigned(row, outcome) = [row EXCEPT !.compile = "running"]
      BY <1>1 DEF Assigned
    <2> QED
      BY <1>1, <2>1, NoCodeIsNone DEF RuntimeRows, CompileStatuses
  <1>2. CASE outcome = "ok"
    BY <1>2, NoCodeIsNone DEF Assigned
  <1>3. CASE outcome \in Codes
    <2>1. Assigned(row, outcome) = [row EXCEPT !.compile = "failed", !.code = outcome]
      BY <1>3, NoCodeIsNone DEF Assigned
    <2> QED
      BY <1>3, <2>1 DEF RuntimeRows, CompileStatuses, EndedStatuses
  <1> QED
    BY <1>1, <1>2, <1>3 DEF Outcomes

\* The rows a session reads are typed.
LEMMA RowsRead ==
    ASSUME TypeOK, NEW j \in Pipeline
    PROVE  /\ [job EXCEPT ![j] = Marked(j)] \in [Jobs -> JobRows]
           /\ [job EXCEPT ![j] = Marked(j)][j].status # "ABSENT"
           /\ RefreshRuntimeStatus(Assigned(session[j].loaded, session[j].outcome),
                                   [job EXCEPT ![j] = Marked(j)]) \in RuntimeRows
  <1>1. [job EXCEPT ![j] = Marked(j)] \in [Jobs -> JobRows]
    BY MarkedType, PipelineJobs DEF TypeOK
  <1>2. [job EXCEPT ![j] = Marked(j)][j].status # "ABSENT"
    BY MarkedType, PipelineJobs DEF TypeOK, EndedStatuses
  <1>3. session[j].loaded \in RuntimeRows /\ session[j].outcome \in Outcomes \cup {"none"}
    BY PipelineJobs DEF TypeOK, Sessions
  <1> QED
    BY <1>1, <1>2, <1>3, AssignedType, RefreshEffect, PipelineJobs

\* Each action of a worker keeps the types.
LEMMA WorkType ==
    ASSUME TypeOK, NEW j \in Pipeline, Work(j) \/ WorkerCrash(j)
    PROVE  TypeOK'
  <1>1. j \in Jobs /\ session[j] \in Sessions
    BY PipelineJobs DEF TypeOK
  <1>2. CASE TakeTask(j)
    <2>1. [session[j] EXCEPT !.phase = "starting", !.loaded = runtime] \in Sessions
      BY <1>1 DEF Sessions, LivePhases, LoadedPhases, TypeOK
    <2> QED
      BY <1>1, <1>2, <2>1 DEF TakeTask, TypeOK
  <1>3. CASE Refresh(j)
    <2> DEFINE new == RefreshRuntimeStatus(Assigned(session[j].loaded, session[j].outcome),
                                           [job EXCEPT ![j] = Marked(j)])
    <2>1. new \in RuntimeRows
      BY RowsRead
    <2>2. session' = [session EXCEPT ![j] =
                        [session[j] EXCEPT
                           !.phase = IF session[j].phase = "starting" THEN "start_read"
                                     ELSE "end_read",
                           !.new = new]]
      BY <1>3 DEF Refresh
    <2> HIDE DEF new
    <2>3. session' \in [Jobs -> Sessions]
      BY <1>1, <2>1, <2>2 DEF TypeOK, Sessions, LivePhases, ReadPhases
    <2> QED
      BY <1>3, <2>3 DEF Refresh, TypeOK
  <1>4. CASE Commit(j)
    <2>1. /\ runtime \in RuntimeRows
          /\ session[j].loaded \in RuntimeRows /\ session[j].new \in RuntimeRows
      BY <1>1 DEF TypeOK, Sessions
    <2>2. runtime' \in RuntimeRows
      BY <1>4, <2>1, FlushEffect DEF Commit
    <2>3. job' \in [Jobs -> JobRows]
      BY <1>4, RowsRead DEF Commit
    <2>4. session' \in [Jobs -> Sessions]
      BY <1>1, <1>4, IdleType DEF Commit, TypeOK, Sessions, LivePhases
    <2> QED
      BY <1>4, <2>2, <2>3, <2>4 DEF Commit, TypeOK
  <1>5. CASE \E o \in Outcomes : Execute(j, o)
    <2>1. PICK o \in Outcomes : Execute(j, o)
      BY <1>5
    <2>2. [session[j] EXCEPT !.phase = "ending", !.outcome = o, !.loaded = runtime] \in Sessions
      BY <1>1 DEF Sessions, LivePhases, LoadedPhases, TypeOK
    <2> QED
      BY <1>1, <2>1, <2>2 DEF Execute, TypeOK
  <1>6. ASSUME NEW code \in Codes, Raise(j, code)
        PROVE  TypeOK'
    <2>1. [Idle EXCEPT !.phase = "ending", !.outcome = code, !.loaded = runtime] \in Sessions
      BY <1>1, IdleType DEF Sessions, LivePhases, LoadedPhases, Outcomes, TypeOK
    <2> QED
      BY <1>1, <1>6, <2>1 DEF Raise, TypeOK
  <1>7. CASE WorkerCrash(j)
    <2>1. [Idle EXCEPT !.phase = "lost", !.outcome = session[j].outcome] \in Sessions
      BY <1>1, IdleType DEF Sessions
    <2>2. crashes' \in 0..MaxCrashes
      BY <1>7, SizesAreNatural DEF WorkerCrash, TypeOK
    <2> QED
      BY <1>1, <1>7, <2>1, <2>2 DEF WorkerCrash, TypeOK
  <1> QED
    BY <1>2, <1>3, <1>4, <1>5, <1>6, <1>7 DEF Work

\* The compile request and the export route keep the types.
LEMMA RequestType ==
    ASSUME TypeOK, Request \/ CreateExport
    PROVE  TypeOK'
  <1>1. CASE CreateJobs
    <2>1. job' \in [Jobs -> JobRows]
      BY <1>1 DEF CreateJobs, TypeOK, JobRows, JobStatuses, ActiveStatuses
    <2> QED
      BY <1>1, <2>1, IdleType DEF CreateJobs, TypeOK
  <1>2. CASE CompileOnly
    BY <1>2, IdleType DEF CompileOnly, TypeOK
  <1>3. CASE Dispatch
    <2>1. sent + 1 \in 1..PipelineSize
      BY <1>3, SizesAreNatural DEF Dispatch, TypeOK
    <2> QED
      BY <1>3, <2>1, SizesAreNatural DEF Dispatch, TypeOK, Pipeline
  <1>4. CASE AbortRequest
    BY <1>4 DEF AbortRequest, TypeOK
  <1>5. CASE FinalCommit
    <2>1. job' \in [Jobs -> JobRows]
      BY <1>5 DEF FinalCommit, TypeOK, JobRows, JobStatuses, ActiveStatuses
    <2> DEFINE s == [j \in Pipeline |-> "dispatched"]
    <2>2. s \in [Pipeline -> JobStatuses \ {"ABSENT"}]
      BY DEF JobStatuses, ActiveStatuses
    <2>3. s \in Summaries
      BY <2>2, PipelineJobs DEF Summaries
    <2>4. runtime' = [runtime EXCEPT !.compile = "dispatched",
                                     !.dispatch = "fully_dispatched", !.summary = s]
      BY <1>5 DEF FinalCommit
    <2> HIDE DEF s
    <2>5. runtime' \in RuntimeRows
      BY <2>3, <2>4 DEF TypeOK, RuntimeRows, CompileStatuses, DispatchStatuses
    <2> QED
      BY <1>5, <2>1, <2>5 DEF FinalCommit, TypeOK
  <1>6. CASE CreateExport
    <2>1. job' \in [Jobs -> JobRows]
      BY <1>6 DEF CreateExport, TypeOK, JobRows, JobStatuses, ActiveStatuses
    <2> QED
      BY <1>6, <2>1 DEF CreateExport, TypeOK
  <1> QED
    BY <1>1, <1>2, <1>3, <1>4, <1>5, <1>6 DEF Request

\* The rows, the broker and the sessions keep their types in every run.
THEOREM PipelineTypes == Spec => []TypeOK
  <1>1. Init => TypeOK
    BY IdleType, SizesAreNatural DEF Init, TypeOK, JobRows, JobStatuses
  <1>2. TypeOK /\ [Next]_vars => TypeOK'
    <2>1. CASE UNCHANGED vars
      BY <2>1 DEF vars, TypeOK
    <2> QED
      BY <2>1, WorkType, RequestType DEF Next
  <1> QED
    BY <1>1, <1>2, PTL DEF Spec

----------------------------------------------------------------------------
(* The inductive invariant *)

\* A task is taken once, only after it was sent, and has an outcome from the moment
\* its execution returned.
SessionsInOrder ==
    \A j \in Pipeline :
        /\ j \in broker => session[j].phase = "none"
        /\ j \in broker \/ session[j].phase # "none" => j <= sent
        /\ session[j].phase \in {"none", "starting", "start_read", "executing"}
             => session[j].outcome = "none"
        /\ session[j].phase \in {"ending", "end_read", "done"}
             => session[j].outcome \in Outcomes

\* The job rows: all of the pipeline exist once one was sent, a job that left the
\* queue was sent, and a job is ended only by the commit of its task.
RowsTellTheOutcome ==
    /\ request = "dispatching" \/ sent > 0 => \A j \in Pipeline : job[j].status # "ABSENT"
    /\ \A j \in Pipeline :
          /\ job[j].status \notin {"ABSENT", "queued"} => j <= sent
          /\ job[j].status = "succeeded" => EndedAs(j, "ok")
          /\ job[j].status = "failed" => job[j].error \in Codes /\ EndedAs(j, job[j].error)
    /\ \A j \in Jobs \ Pipeline : job[j].status \in {"ABSENT", "queued"}

\* What the runtime row says is true.
RuntimeIsTrue == NoFalseSuccess /\ ErrorCodeIsReal /\ FullyDispatchedMeansSent

\* What a session is about to write is true once its own task has ended.
EndsAs(j, k, outcome) == EndedAs(k, outcome) \/ (k = j /\ session[j].outcome = outcome)

IsTrueFor(row, j) ==
    /\ row.compile = "succeeded" => \A k \in Pipeline : EndsAs(j, k, "ok")
    /\ row.code # NoCode => \E k \in Pipeline : EndsAs(j, k, row.code)
    /\ row.dispatch = "fully_dispatched" => sent = PipelineSize

WritesAreTrue ==
    \A j \in Pipeline :
        /\ session[j].phase \in ReadPhases => IsTrueFor(session[j].new, j)
        /\ session[j].loaded.code # NoCode =>
              \E k \in Pipeline : EndedAs(k, session[j].loaded.code)

Inv == TypeOK /\ SessionsInOrder /\ RowsTellTheOutcome /\ RuntimeIsTrue /\ WritesAreTrue

\* A worker step touches no session but its own, and its session is a typed record.
LEMMA OtherSessions ==
    ASSUME TypeOK, NEW j \in Pipeline, Work(j) \/ WorkerCrash(j)
    PROVE  /\ \A k \in Pipeline : k # j => session'[k] = session[k]
           /\ request' = request /\ sent' = sent /\ overrun' = overrun
           /\ \A k \in Jobs : k # j => job'[k] = job[k]
           /\ broker' \subseteq broker
  BY PipelineJobs DEF TypeOK, Work, WorkerCrash, TakeTask, Refresh, Commit, Execute, Raise

\* What each worker step does to its own session.
LEMMA OwnSession ==
    ASSUME TypeOK, SessionsInOrder, NEW j \in Pipeline
    PROVE  /\ TakeTask(j) =>
                /\ j \in broker /\ session[j].phase = "none" /\ session'[j].phase = "starting"
                /\ j \notin broker'
                /\ session'[j].outcome = session[j].outcome
                /\ session'[j].loaded = runtime
                /\ job' = job /\ runtime' = runtime
           /\ Refresh(j) =>
                /\ session[j].phase \in LoadedPhases
                /\ session'[j].phase = IF session[j].phase = "starting" THEN "start_read"
                                       ELSE "end_read"
                /\ session'[j].outcome = session[j].outcome
                /\ session'[j].loaded = session[j].loaded
                /\ session'[j].new =
                     RefreshRuntimeStatus(Assigned(session[j].loaded, session[j].outcome),
                                          [job EXCEPT ![j] = Marked(j)])
                /\ job' = job /\ runtime' = runtime /\ broker' = broker
           /\ Commit(j) =>
                /\ session[j].phase \in ReadPhases
                /\ session'[j].phase = IF session[j].phase = "start_read" THEN "executing"
                                       ELSE "done"
                /\ session'[j].outcome = session[j].outcome
                /\ session'[j].loaded.code = NoCode
                /\ job'[j] = Marked(j)
                /\ runtime' = Flush(runtime, session[j].loaded, session[j].new)
                /\ broker' = broker
           /\ \A o \in Outcomes : Execute(j, o) =>
                /\ session[j].phase = "executing" /\ session'[j].phase = "ending"
                /\ session'[j].outcome = o
                /\ session'[j].loaded = runtime
                /\ job' = job /\ runtime' = runtime /\ broker' = broker
           /\ \A code \in Codes : Raise(j, code) =>
                /\ \/ session[j].phase \in {"starting", "start_read"}
                   \/ session[j].phase \in {"ending", "end_read"} /\ session[j].outcome = "ok"
                /\ session'[j].phase = "ending"
                /\ session'[j].outcome = code
                /\ session'[j].loaded = runtime
                /\ job' = job /\ runtime' = runtime /\ broker' = broker
           /\ WorkerCrash(j) =>
                /\ session[j].phase \in LivePhases /\ session'[j].phase = "lost"
                /\ session'[j].loaded.code = NoCode
                /\ job' = job /\ runtime' = runtime /\ broker' = broker
  <1>1. j \in Jobs /\ session[j] \in Sessions
    BY PipelineJobs DEF TypeOK
  <1>2. /\ Idle.loaded.code = NoCode
        /\ \A p, o : /\ [Idle EXCEPT !.phase = p, !.outcome = o].phase = p
                     /\ [Idle EXCEPT !.phase = p, !.outcome = o].outcome = o
                     /\ [Idle EXCEPT !.phase = p, !.outcome = o].loaded.code = NoCode
    BY DEF Idle, NewRuntime
  <1>3. TakeTask(j) =>
          /\ j \in broker /\ session[j].phase = "none" /\ session'[j].phase = "starting"
          /\ j \notin broker'
          /\ session'[j].outcome = session[j].outcome
          /\ session'[j].loaded = runtime
          /\ job' = job /\ runtime' = runtime
    BY <1>1 DEF TakeTask, TypeOK, Sessions, SessionsInOrder
  <1>4. ASSUME Refresh(j)
        PROVE  /\ session[j].phase \in LoadedPhases
               /\ session'[j].phase = IF session[j].phase = "starting" THEN "start_read"
                                      ELSE "end_read"
               /\ session'[j].outcome = session[j].outcome
               /\ session'[j].loaded = session[j].loaded
               /\ session'[j].new =
                    RefreshRuntimeStatus(Assigned(session[j].loaded, session[j].outcome),
                                         [job EXCEPT ![j] = Marked(j)])
               /\ job' = job /\ runtime' = runtime /\ broker' = broker
    <2> DEFINE new == RefreshRuntimeStatus(Assigned(session[j].loaded, session[j].outcome),
                                           [job EXCEPT ![j] = Marked(j)])
    <2>1. session' = [session EXCEPT ![j] =
                        [session[j] EXCEPT
                           !.phase = IF session[j].phase = "starting" THEN "start_read"
                                     ELSE "end_read",
                           !.new = new]]
      BY <1>4 DEF Refresh
    <2> HIDE DEF new
    <2>2. /\ session'[j].phase = IF session[j].phase = "starting" THEN "start_read"
                                 ELSE "end_read"
          /\ session'[j].outcome = session[j].outcome
          /\ session'[j].loaded = session[j].loaded
          /\ session'[j].new = new
      <3> DEFINE p == IF session[j].phase = "starting" THEN "start_read" ELSE "end_read"
      <3>1. session'[j] = [session[j] EXCEPT !.phase = p, !.new = new]
        BY <1>1, <2>1 DEF TypeOK
      <3> HIDE DEF p
      <3>2. session'[j].phase = p /\ session'[j].outcome = session[j].outcome
            /\ session'[j].loaded = session[j].loaded /\ session'[j].new = new
        BY <1>1, <3>1 DEF Sessions
      <3> QED
        BY <3>2 DEF p
    <2> QED
      BY <1>4, <2>2 DEF Refresh, new
  <1>5. ASSUME Commit(j)
        PROVE  /\ session[j].phase \in ReadPhases
               /\ session'[j].phase = IF session[j].phase = "start_read" THEN "executing"
                                      ELSE "done"
               /\ session'[j].outcome = session[j].outcome
               /\ session'[j].loaded.code = NoCode
               /\ job'[j] = Marked(j)
               /\ runtime' = Flush(runtime, session[j].loaded, session[j].new)
               /\ broker' = broker
    <2>1. session'[j] = [Idle EXCEPT !.phase = IF session[j].phase = "start_read"
                                               THEN "executing" ELSE "done",
                                     !.outcome = session[j].outcome]
      BY <1>1, <1>5 DEF Commit, TypeOK
    <2> QED
      BY <1>1, <1>2, <1>5, <2>1 DEF Commit, TypeOK
  <1>6. \A o \in Outcomes : Execute(j, o) =>
          /\ session[j].phase = "executing" /\ session'[j].phase = "ending"
          /\ session'[j].outcome = o
          /\ session'[j].loaded = runtime
          /\ job' = job /\ runtime' = runtime /\ broker' = broker
    BY <1>1 DEF Execute, TypeOK, Sessions
  <1>8. ASSUME NEW code \in Codes, Raise(j, code)
        PROVE  /\ \/ session[j].phase \in {"starting", "start_read"}
                  \/ session[j].phase \in {"ending", "end_read"} /\ session[j].outcome = "ok"
               /\ session'[j].phase = "ending"
               /\ session'[j].outcome = code
               /\ session'[j].loaded = runtime
               /\ job' = job /\ runtime' = runtime /\ broker' = broker
    <2>1. session'[j] = [Idle EXCEPT !.phase = "ending", !.outcome = code, !.loaded = runtime]
      BY <1>1, <1>8 DEF Raise, TypeOK
    <2> QED
      BY <1>8, <2>1, IdleType DEF Raise, Sessions
  <1>7. ASSUME WorkerCrash(j)
        PROVE  /\ session[j].phase \in LivePhases /\ session'[j].phase = "lost"
               /\ session'[j].loaded.code = NoCode
               /\ job' = job /\ runtime' = runtime /\ broker' = broker
    <2>1. session'[j] = [Idle EXCEPT !.phase = "lost", !.outcome = session[j].outcome]
      BY <1>1, <1>7 DEF WorkerCrash, TypeOK
    <2> QED
      <3>1. session'[j].phase = "lost" /\ session'[j].loaded = Idle.loaded
        BY <2>1, IdleType DEF Sessions
      <3> QED
        BY <1>2, <1>7, <3>1 DEF WorkerCrash
  <1> QED
    BY <1>3, <1>4, <1>5, <1>6, <1>7, <1>8

\* A committed end stays: no step reopens the session of a task that is done.
LEMMA EndedStays ==
    ASSUME TypeOK, SessionsInOrder, NEW j \in Pipeline, Work(j) \/ WorkerCrash(j),
           NEW k \in Pipeline, NEW o, EndedAs(k, o)
    PROVE  EndedAs(k, o)'
  <1>1. CASE k # j
    BY <1>1, OtherSessions DEF EndedAs
  <1>2. CASE k = j
    <2>1. session[j].phase = "done"
      BY <1>2 DEF EndedAs
    <2> QED
      BY <2>1, OwnSession DEF Work, LivePhases, LoadedPhases, ReadPhases
  <1> QED
    BY <1>1, <1>2

\* The compile request and the export route keep the invariant.
LEMMA RequestInv ==
    ASSUME Inv, Request \/ CreateExport
    PROVE  SessionsInOrder' /\ RowsTellTheOutcome' /\ RuntimeIsTrue' /\ WritesAreTrue'
  <1> USE DEF Inv
  <1>1. session' = session
    BY DEF Request, CreateJobs, CompileOnly, Dispatch, AbortRequest, FinalCommit, CreateExport
  <1>2. \A k, o : EndedAs(k, o)' = EndedAs(k, o)
    BY <1>1 DEF EndedAs
  <1>3. \A j, k, o : EndsAs(j, k, o)' = EndsAs(j, k, o)
    BY <1>1, <1>2 DEF EndsAs
  <1>4. PipelineSize \in Pipeline /\ sent \in 0..PipelineSize
    BY SizesAreNatural DEF TypeOK, Pipeline
  <1>5. CASE Dispatch
    <2>1. sent < PipelineSize /\ sent' = sent + 1 /\ broker' = broker \cup {sent + 1}
      BY <1>5 DEF Dispatch
    <2>2. \A j \in Pipeline : j <= sent => j <= sent'
      BY <1>4, <2>1 DEF Pipeline
    <2>3. sent + 1 \in Pipeline /\ ~ (sent + 1 <= sent) /\ sent + 1 <= sent'
      BY <1>4, <2>1, SizesAreNatural DEF Pipeline
    <2>4. session[sent + 1].phase = "none"
      BY <2>3 DEF SessionsInOrder
    <2>5. SessionsInOrder'
      BY <1>1, <2>1, <2>2, <2>3, <2>4 DEF SessionsInOrder
    <2>6. request = "dispatching" /\ job' = job /\ runtime' = runtime /\ request' = request
      BY <1>5 DEF Dispatch
    <2>7. RowsTellTheOutcome'
      BY <1>2, <2>2, <2>6 DEF RowsTellTheOutcome
    <2>8. sent # PipelineSize
      BY <1>4, <2>1, SizesAreNatural
    <2>9. RuntimeIsTrue'
      BY <1>2, <2>6, <2>8 DEF RuntimeIsTrue, NoFalseSuccess, ErrorCodeIsReal,
                              FullyDispatchedMeansSent
    <2>10. WritesAreTrue'
      BY <1>1, <1>2, <1>3, <2>8 DEF WritesAreTrue, IsTrueFor
    <2> QED
      BY <2>5, <2>7, <2>9, <2>10
  <1>6. ASSUME sent' = sent, broker' = broker
        PROVE  SessionsInOrder' /\ WritesAreTrue'
    BY <1>1, <1>2, <1>3, <1>6 DEF SessionsInOrder, WritesAreTrue, IsTrueFor
  <1>7. CASE CreateJobs
    <2>1. \A j \in Jobs : job'[j].status = IF j \in Pipeline THEN "queued" ELSE job[j].status
      BY <1>7, PipelineJobs DEF CreateJobs, TypeOK, JobRows
    <2>2. RowsTellTheOutcome'
      BY <1>7, <2>1, PipelineJobs DEF RowsTellTheOutcome
    <2>3. RuntimeIsTrue'
      BY <1>7 DEF CreateJobs, NewRuntime, RuntimeIsTrue, NoFalseSuccess, ErrorCodeIsReal,
                  FullyDispatchedMeansSent
    <2> QED
      BY <1>6, <1>7, <2>2, <2>3 DEF CreateJobs
  <1>8. CASE CompileOnly
    <2>1. RowsTellTheOutcome'
      BY <1>2, <1>8 DEF CompileOnly, RowsTellTheOutcome
    <2>2. RuntimeIsTrue'
      BY <1>8 DEF CompileOnly, NewRuntime, RuntimeIsTrue, NoFalseSuccess, ErrorCodeIsReal,
                  FullyDispatchedMeansSent
    <2> QED
      BY <1>6, <1>8, <2>1, <2>2 DEF CompileOnly
  <1>9. CASE AbortRequest
    <2>1. RowsTellTheOutcome'
      BY <1>2, <1>9 DEF AbortRequest, RowsTellTheOutcome
    <2>2. RuntimeIsTrue'
      BY <1>2, <1>9 DEF AbortRequest, RuntimeIsTrue, NoFalseSuccess, ErrorCodeIsReal,
                        FullyDispatchedMeansSent
    <2> QED
      BY <1>6, <1>9, <2>1, <2>2 DEF AbortRequest
  <1>10. CASE FinalCommit
    <2>1. \A j \in Jobs : job'[j].status = IF j \in Pipeline THEN "dispatched" ELSE job[j].status
      BY <1>10, PipelineJobs DEF FinalCommit, TypeOK, JobRows
    <2>2. sent = PipelineSize /\ sent' = sent /\ \A j \in Pipeline : j <= sent
      BY <1>10, SizesAreNatural DEF FinalCommit, Pipeline
    <2>3. RowsTellTheOutcome'
      BY <2>1, <2>2, PipelineJobs DEF RowsTellTheOutcome
    <2>4. runtime'.compile = "dispatched" /\ runtime'.code = runtime.code
      BY <1>10 DEF FinalCommit, TypeOK, RuntimeRows
    <2>5. RuntimeIsTrue'
      BY <1>2, <2>2, <2>4 DEF RuntimeIsTrue, NoFalseSuccess, ErrorCodeIsReal,
                              FullyDispatchedMeansSent
    <2> QED
      BY <1>6, <1>10, <2>3, <2>5 DEF FinalCommit
  <1>11. CASE CreateExport
    <2>1. PICK e \in Jobs \ Pipeline : job' = [job EXCEPT ![e].status = "queued"]
      BY <1>11 DEF CreateExport
    <2>2. /\ \A j \in Pipeline : job'[j] = job[j]
          /\ \A j \in Jobs \ Pipeline : job'[j].status \in {"queued", job[j].status}
      BY <2>1, PipelineJobs DEF TypeOK, JobRows
    <2>3. sent' = sent /\ request' = request /\ runtime' = runtime
      BY <1>11 DEF CreateExport
    <2>4. RowsTellTheOutcome'
      BY <1>2, <2>2, <2>3 DEF RowsTellTheOutcome
    <2>5. RuntimeIsTrue'
      BY <1>2, <2>3 DEF RuntimeIsTrue, NoFalseSuccess, ErrorCodeIsReal,
                        FullyDispatchedMeansSent
    <2> QED
      BY <1>6, <1>11, <2>4, <2>5 DEF CreateExport
  <1> QED
    BY <1>5, <1>7, <1>8, <1>9, <1>10, <1>11 DEF Request

\* What a refresh writes down is true once the session's own task has ended.
LEMMA RefreshIsTrue ==
    ASSUME Inv, NEW j \in Pipeline, session[j].phase # "none"
    PROVE  IsTrueFor(RefreshRuntimeStatus(Assigned(session[j].loaded, session[j].outcome),
                                          [job EXCEPT ![j] = Marked(j)]), j)
  <1> USE DEF Inv
  <1> DEFINE row == Assigned(session[j].loaded, session[j].outcome)
             rows == [job EXCEPT ![j] = Marked(j)]
             new == RefreshRuntimeStatus(row, rows)
  <1>1. /\ rows \in [Jobs -> JobRows] /\ rows[j] = Marked(j)
        /\ \A k \in Jobs : k # j => rows[k] = job[k]
    BY RowsRead, PipelineJobs DEF TypeOK
  <1>2. session[j].loaded \in RuntimeRows /\ session[j].outcome \in Outcomes \cup {"none"}
    BY PipelineJobs DEF TypeOK, Sessions
  <1>3. row \in RuntimeRows /\ row.code \in {session[j].outcome, session[j].loaded.code}
        /\ (row.code # session[j].loaded.code => session[j].outcome \in Codes)
    BY <1>2, AssignedType
  <1>4. rows[j].status \in {"running"} \cup EndedStatuses
    BY <1>1, MarkedType
  <1>5. j <= sent /\ sent > 0
    BY SizesAreNatural DEF SessionsInOrder, Pipeline, TypeOK
  <1>6. \A k \in Pipeline : k # j => rows[k].status # "ABSENT"
    BY <1>1, <1>5, PipelineJobs DEF RowsTellTheOutcome
  <1> HIDE DEF row, rows
  <1>7. /\ new.compile = "succeeded" =>
             \A k \in Jobs : rows[k].status \in {"ABSENT", "succeeded"}
        /\ new.dispatch = "fully_dispatched" => \A k \in Jobs : rows[k].status # "queued"
        /\ \/ new.code \in {NoCode, row.code}
           \/ \E k \in Jobs : rows[k].status = "failed" /\ rows[k].error = new.code
    BY <1>1, <1>3, <1>4, RefreshEffect, PipelineJobs DEF EndedStatuses
  <1> HIDE DEF new
  <1>8. ASSUME new.compile = "succeeded", NEW k \in Pipeline
        PROVE  EndsAs(j, k, "ok")
    <2>1. k \in Jobs /\ rows[k].status = "succeeded"
      BY <1>4, <1>6, <1>7, <1>8, PipelineJobs DEF EndedStatuses
    <2>2. CASE k = j
      BY <1>1, <2>1, <2>2, MarkedType DEF EndsAs
    <2>3. CASE k # j
      BY <1>1, <2>1, <2>3 DEF RowsTellTheOutcome, EndsAs
    <2> QED
      BY <2>2, <2>3
  <1>9. ASSUME new.code # NoCode
        PROVE  \E k \in Pipeline : EndsAs(j, k, new.code)
    <2>1. CASE new.code = row.code /\ row.code = session[j].loaded.code
      BY <1>9, <2>1 DEF WritesAreTrue, EndsAs
    <2>2. CASE new.code = row.code /\ row.code = session[j].outcome
      BY <2>2 DEF EndsAs
    <2>3. CASE \E k \in Jobs : rows[k].status = "failed" /\ rows[k].error = new.code
      <3>1. PICK k \in Jobs : rows[k].status = "failed" /\ rows[k].error = new.code
        BY <2>3
      <3>2. CASE k = j
        BY <1>1, <3>1, <3>2, MarkedType DEF EndsAs
      <3>3. CASE k # j
        BY <1>1, <3>1, <3>3 DEF RowsTellTheOutcome, EndsAs
      <3> QED
        BY <3>2, <3>3
    <2> QED
      BY <1>3, <1>7, <1>9, <2>1, <2>2, <2>3
  <1>10. ASSUME new.dispatch = "fully_dispatched"
         PROVE  sent = PipelineSize
    <2> DEFINE k == PipelineSize
    <2>1. k \in Pipeline /\ sent \in 0..PipelineSize
      BY SizesAreNatural DEF Pipeline, TypeOK
    <2>2. rows[k].status # "queued"
      BY <1>7, <1>10, <2>1, PipelineJobs
    <2>3. k <= sent
      BY <1>1, <1>5, <1>6, <2>1, <2>2, PipelineJobs DEF RowsTellTheOutcome
    <2> QED
      BY <2>1, <2>3, SizesAreNatural
  <1>11. IsTrueFor(new, j)
    BY <1>8, <1>9, <1>10 DEF IsTrueFor
  <1> QED
    BY <1>11 DEF new, row, rows

\* The steps of a worker keep the order of the sessions.
LEMMA WorkSessionsInOrder ==
    ASSUME Inv, NEW j \in Pipeline, Work(j) \/ WorkerCrash(j)
    PROVE  SessionsInOrder'
  <1> USE DEF Inv
  <1>1. ASSUME NEW k \in Pipeline, k # j
        PROVE  /\ k \in broker' => session'[k].phase = "none"
               /\ k \in broker' \/ session'[k].phase # "none" => k <= sent'
               /\ session'[k].phase \in {"none", "starting", "start_read", "executing"}
                    => session'[k].outcome = "none"
               /\ session'[k].phase \in {"ending", "end_read", "done"}
                    => session'[k].outcome \in Outcomes
    BY <1>1, OtherSessions DEF SessionsInOrder
  <1>2. j <= sent /\ sent' = sent /\ j \notin broker'
    <2>1. j \in broker \/ session[j].phase # "none"
      BY OwnSession DEF Work, LivePhases, LoadedPhases, ReadPhases
    <2>2. j \in broker' => j \in broker /\ ~ TakeTask(j)
      BY OtherSessions, OwnSession
    <2>3. j \in broker => session[j].phase = "none"
      BY DEF SessionsInOrder
    <2>4. ~ TakeTask(j) => session[j].phase # "none"
      BY OwnSession DEF Work, LivePhases, LoadedPhases, ReadPhases
    <2> QED
      BY <2>1, <2>2, <2>3, <2>4, OtherSessions DEF SessionsInOrder
  <1>3. /\ session'[j].phase \in {"none", "starting", "start_read", "executing"}
             => session'[j].outcome = "none"
        /\ session'[j].phase \in {"ending", "end_read", "done"}
             => session'[j].outcome \in Outcomes
    <2>1. \A code \in Codes : code \in Outcomes
      BY DEF Outcomes
    <2> QED
      BY <2>1, OwnSession DEF Work, SessionsInOrder, LoadedPhases, ReadPhases
  <1> QED
    BY <1>1, <1>2, <1>3 DEF SessionsInOrder

\* A commit turns what its session is about to write into the truth.
LEMMA CommitEnds ==
    ASSUME Inv, NEW j \in Pipeline, Commit(j), NEW k \in Pipeline, NEW o \in Outcomes,
           EndsAs(j, k, o)
    PROVE  EndedAs(k, o)'
  <1> USE DEF Inv
  <1>1. CASE EndedAs(k, o)
    BY <1>1, EndedStays DEF Work
  <1>2. CASE k = j /\ session[j].outcome = o
    <2>1. session[j].phase \in ReadPhases /\ session[j].outcome # "none"
      BY <1>2, OwnSession, NoCodeIsNone DEF Outcomes
    <2>2. session[j].phase = "end_read"
      BY <2>1 DEF SessionsInOrder, ReadPhases
    <2> QED
      BY <1>2, <2>2, OwnSession DEF EndedAs
  <1> QED
    BY <1>1, <1>2 DEF EndsAs

\* The steps of a worker keep the job rows and the runtime row true.
LEMMA WorkRowsTrue ==
    ASSUME Inv, NEW j \in Pipeline, Work(j) \/ WorkerCrash(j)
    PROVE  RowsTellTheOutcome' /\ RuntimeIsTrue'
  <1> USE DEF Inv
  <1>1. request' = request /\ sent' = sent /\ \A k \in Jobs : k # j => job'[k] = job[k]
    BY OtherSessions
  <1>2. \A k \in Pipeline : \A o : EndedAs(k, o) => EndedAs(k, o)'
    BY EndedStays
  <1>3. CASE ~ Commit(j)
    <2>1. job' = job /\ runtime' = runtime
      BY <1>3, OwnSession DEF Work
    <2>2. RowsTellTheOutcome'
      BY <1>1, <1>2, <2>1 DEF RowsTellTheOutcome
    <2>3. RuntimeIsTrue'
      BY <1>1, <1>2, <2>1 DEF RuntimeIsTrue, NoFalseSuccess, ErrorCodeIsReal,
                              FullyDispatchedMeansSent
    <2> QED
      BY <2>2, <2>3
  <1>4. CASE Commit(j)
    <2>1. /\ session[j].phase \in ReadPhases
          /\ job'[j] = Marked(j)
          /\ runtime' = Flush(runtime, session[j].loaded, session[j].new)
      BY <1>4, OwnSession
    <2>2. j <= sent
      BY <2>1 DEF SessionsInOrder, ReadPhases
    <2>3. \A k \in Pipeline, o \in Outcomes : EndsAs(j, k, o) => EndedAs(k, o)'
      BY <1>4, CommitEnds
    <2>4. /\ job'[j].status \in {"running"} \cup EndedStatuses
          /\ job'[j].status = "succeeded" => EndedAs(j, "ok")'
          /\ job'[j].status = "failed" =>
               job'[j].error \in Codes /\ EndedAs(j, job[j].error)'
      BY <2>1, <2>3, MarkedType DEF EndsAs, EndedAs, Outcomes
    <2>5. RowsTellTheOutcome'
      BY <1>1, <1>2, <2>2, <2>4, PipelineJobs DEF RowsTellTheOutcome, EndedStatuses, EndedAs
    <2>6. /\ runtime \in RuntimeRows
          /\ session[j].loaded \in RuntimeRows /\ session[j].new \in RuntimeRows
      BY PipelineJobs DEF TypeOK, Sessions
    <2>7. /\ runtime'.compile \in {runtime.compile, session[j].new.compile}
          /\ runtime'.dispatch \in {runtime.dispatch, session[j].new.dispatch}
          /\ runtime'.code \in {runtime.code, session[j].new.code}
      BY <2>1, <2>6, FlushEffect
    <2>8. IsTrueFor(session[j].new, j)
      BY <2>1 DEF WritesAreTrue
    <2>9. NoFalseSuccess'
      BY <1>2, <2>3, <2>7, <2>8 DEF IsTrueFor, RuntimeIsTrue, NoFalseSuccess, Outcomes
    <2>10. session[j].new.code \in Codes \cup {NoCode}
      BY <2>6 DEF RuntimeRows
    <2>11. ErrorCodeIsReal'
      BY <1>2, <2>3, <2>7, <2>8, <2>10 DEF IsTrueFor, RuntimeIsTrue, ErrorCodeIsReal, Outcomes
    <2>12. FullyDispatchedMeansSent'
      BY <1>1, <2>7, <2>8 DEF IsTrueFor, RuntimeIsTrue, FullyDispatchedMeansSent
    <2> QED
      BY <2>5, <2>9, <2>11, <2>12 DEF RuntimeIsTrue
  <1> QED
    BY <1>3, <1>4

\* The steps of a worker keep what the sessions are about to write true.
LEMMA WorkWritesTrue ==
    ASSUME Inv, NEW j \in Pipeline, Work(j) \/ WorkerCrash(j)
    PROVE  WritesAreTrue'
  <1> USE DEF Inv
  <1>1. sent' = sent /\ \A k \in Pipeline : k # j => session'[k] = session[k]
    BY OtherSessions
  <1>2. \A k \in Pipeline : \A o : EndedAs(k, o) => EndedAs(k, o)'
    BY EndedStays
  <1>3. ASSUME NEW i \in Pipeline, i # j
        PROVE  /\ session'[i].phase \in ReadPhases => IsTrueFor(session[i].new, i)'
               /\ session'[i].loaded.code # NoCode =>
                    \E k \in Pipeline : EndedAs(k, session[i].loaded.code)'
    <2>1. \A k \in Pipeline : \A o : EndsAs(i, k, o) => EndsAs(i, k, o)'
      BY <1>1, <1>2, <1>3 DEF EndsAs
    <2> QED
      BY <1>1, <1>2, <1>3, <2>1 DEF WritesAreTrue, IsTrueFor, EndsAs, EndedAs
  <1>4. session'[j].loaded.code # NoCode =>
          \E k \in Pipeline : EndedAs(k, session[j].loaded.code)'
    <2>1. session'[j].loaded \in {session[j].loaded, runtime}
             \/ session'[j].loaded.code = NoCode
      BY OwnSession DEF Work
    <2> QED
      BY <1>2, <2>1 DEF WritesAreTrue, RuntimeIsTrue, ErrorCodeIsReal, EndedAs
  <1>5. session'[j].phase \in ReadPhases => IsTrueFor(session[j].new, j)'
    <2>1. CASE ~ Refresh(j)
      BY <2>1, OwnSession DEF Work, ReadPhases
    <2>2. CASE Refresh(j)
      <3>1. /\ session[j].phase # "none" /\ session'[j].outcome = session[j].outcome
            /\ session'[j].new =
                 RefreshRuntimeStatus(Assigned(session[j].loaded, session[j].outcome),
                                      [job EXCEPT ![j] = Marked(j)])
        BY <2>2, OwnSession DEF LoadedPhases
      <3>2. IsTrueFor(session'[j].new, j)
        BY <3>1, RefreshIsTrue
      <3>3. \A k \in Pipeline : \A o : EndsAs(j, k, o) => EndsAs(j, k, o)'
        BY <1>2, <3>1 DEF EndsAs
      <3> QED
        BY <1>1, <3>2, <3>3 DEF IsTrueFor, EndsAs, EndedAs
    <2> QED
      BY <2>1, <2>2
  <1> QED
    BY <1>3, <1>4, <1>5 DEF WritesAreTrue

\* The invariant is inductive.
THEOREM PipelineInvariant == Spec => []Inv
  <1>1. Init => Inv
    <2> SUFFICES ASSUME Init PROVE Inv
      OBVIOUS
    <2>1. TypeOK
      BY IdleType, SizesAreNatural DEF Init, TypeOK, JobRows, JobStatuses
    <2>2. \A j \in Jobs : session[j] = Idle /\ job[j].status = "ABSENT"
      BY DEF Init
    <2>3. Idle.phase = "none" /\ Idle.outcome = "none" /\ Idle.loaded.code = NoCode
      BY DEF Idle, NewRuntime
    <2>4. SessionsInOrder /\ WritesAreTrue
      BY <2>2, <2>3, PipelineJobs DEF Init, SessionsInOrder, WritesAreTrue, ReadPhases
    <2>5. RowsTellTheOutcome
      BY <2>2, PipelineJobs DEF Init, RowsTellTheOutcome
    <2>6. RuntimeIsTrue
      BY DEF Init, NewRuntime, RuntimeIsTrue, NoFalseSuccess, ErrorCodeIsReal,
             FullyDispatchedMeansSent
    <2> QED
      BY <2>1, <2>4, <2>5, <2>6 DEF Inv
  <1>2. Inv /\ [Next]_vars => Inv'
    <2> SUFFICES ASSUME Inv, [Next]_vars PROVE Inv'
      OBVIOUS
    <2>1. CASE UNCHANGED vars
      BY <2>1 DEF vars, Inv, TypeOK, SessionsInOrder, RowsTellTheOutcome, RuntimeIsTrue,
                  NoFalseSuccess, ErrorCodeIsReal, FullyDispatchedMeansSent, WritesAreTrue,
                  IsTrueFor, EndsAs, EndedAs
    <2>2. CASE Request \/ CreateExport
      BY <2>2, RequestType, RequestInv DEF Inv
    <2>3. CASE \E j \in Pipeline : Work(j) \/ WorkerCrash(j)
      <3>1. PICK j \in Pipeline : Work(j) \/ WorkerCrash(j)
        BY <2>3
      <3>2. TypeOK'
        BY <3>1, WorkType DEF Inv
      <3> QED
        BY <3>1, <3>2, WorkSessionsInOrder, WorkRowsTrue, WorkWritesTrue DEF Inv
    <2> QED
      BY <2>1, <2>2, <2>3 DEF Next
  <1> QED
    BY <1>1, <1>2, PTL DEF Spec

\* A runtime is reported succeeded only when the task of each of its jobs was
\* executed without error, for any number of jobs, crashes and orders of the steps.
THEOREM SuccessIsReal == Spec => []NoFalseSuccess
  <1>1. Inv => NoFalseSuccess
    BY DEF Inv, RuntimeIsTrue
  <1> QED
    BY <1>1, PipelineInvariant, PTL

\* The error code of a runtime is always one a task of it really failed with.
THEOREM ErrorsAreReal == Spec => []ErrorCodeIsReal
  <1>1. Inv => ErrorCodeIsReal
    BY DEF Inv, RuntimeIsTrue
  <1> QED
    BY <1>1, PipelineInvariant, PTL

\* A runtime is fully dispatched only when every job was handed to the broker.
THEOREM DispatchIsReal == Spec => []FullyDispatchedMeansSent
  <1>1. Inv => FullyDispatchedMeansSent
    BY DEF Inv, RuntimeIsTrue
  <1> QED
    BY <1>1, PipelineInvariant, PTL

----------------------------------------------------------------------------
(* The order of a job's statuses *)

\* Where the status of a job may be for each phase of its task, if the last commit of
\* the request did not write over it: a task that failed may not have got to "running".
StatusesOf(s) ==
    CASE s.phase \in {"none", "starting", "start_read"} -> {"ABSENT", "queued", "dispatched"}
      [] s.phase = "executing" -> {"running"}
      [] s.phase \in {"ending", "end_read"} ->
            IF s.outcome = "ok" THEN {"running"} ELSE {"queued", "dispatched", "running"}
      [] s.phase = "done" -> EndedStatuses
      [] OTHER -> JobStatuses

\* Each job's row keeps pace with its task, but for the jobs that were written over.
InOrder ==
    /\ request = "idle" => runtime.compile = "ABSENT" /\ \A j \in Jobs : job[j].status = "ABSENT"
    /\ request \in {"idle", "dispatching"} => overrun = {}
    /\ \A j \in Pipeline :
          \/ job[j].status \in StatusesOf(session[j])
          \/ j \in overrun /\ job[j].status = "dispatched"

\* What the request and the export route write.
LEMMA RequestRows ==
    ASSUME TypeOK
    PROVE  /\ Request \/ CreateExport => session' = session
           /\ ~ FinalCommit /\ (Request \/ CreateExport) => overrun' = overrun
           /\ CreateJobs =>
                \A j \in Jobs : job'[j].status = IF j \in Pipeline THEN "queued" ELSE job[j].status
           /\ FinalCommit =>
                /\ overrun' = {j \in Pipeline : job[j].status # "queued"}
                /\ \A j \in Jobs : job'[j].status = IF j \in Pipeline THEN "dispatched" ELSE job[j].status
           /\ CreateExport =>
                \E e \in Jobs \ Pipeline :
                   /\ job[e].status = "ABSENT" /\ job'[e].status = "queued"
                   /\ \A j \in Jobs : j # e => job'[j] = job[j]
  <1>1. /\ Request \/ CreateExport => session' = session
        /\ ~ FinalCommit /\ (Request \/ CreateExport) => overrun' = overrun
    BY DEF Request, CreateJobs, CompileOnly, Dispatch, AbortRequest, FinalCommit, CreateExport
  <1>2. ASSUME CreateJobs
        PROVE  \A j \in Jobs : job'[j].status = IF j \in Pipeline THEN "queued" ELSE job[j].status
    BY <1>2, PipelineJobs DEF CreateJobs, TypeOK, JobRows
  <1>3. ASSUME FinalCommit
        PROVE  /\ overrun' = {j \in Pipeline : job[j].status # "queued"}
               /\ \A j \in Jobs : job'[j].status = IF j \in Pipeline THEN "dispatched" ELSE job[j].status
    BY <1>3, PipelineJobs DEF FinalCommit, TypeOK, JobRows
  <1>4. ASSUME CreateExport
        PROVE  \E e \in Jobs \ Pipeline :
                  /\ job[e].status = "ABSENT" /\ job'[e].status = "queued"
                  /\ \A j \in Jobs : j # e => job'[j] = job[j]
    <2>1. PICK e \in Jobs \ Pipeline :
             job[e].status = "ABSENT" /\ job' = [job EXCEPT ![e].status = "queued"]
      BY <1>4 DEF CreateExport
    <2>2. job'[e].status = "queued" /\ \A j \in Jobs : j # e => job'[j] = job[j]
      BY <2>1 DEF TypeOK, JobRows
    <2> QED
      BY <2>1, <2>2
  <1> QED
    BY <1>1, <1>2, <1>3, <1>4

\* The request and the export route keep the order.
LEMMA RequestInOrder ==
    ASSUME Inv, InOrder, Request \/ CreateExport
    PROVE  InOrder'
  <1> USE DEF Inv
  <1>1. session' = session
    BY RequestRows
  <1>2. CASE CreateJobs
    <2>1. \A j \in Pipeline : session[j].phase = "none" /\ job'[j].status = "queued"
      <3>1. sent = 0
        BY <1>2, PipelineJobs, SizesAreNatural DEF CreateJobs, InOrder, RowsTellTheOutcome,
                                                   TypeOK, Pipeline
      <3>2. \A j \in Pipeline : ~ (j <= sent)
        BY <3>1, SizesAreNatural DEF Pipeline
      <3> QED
        BY <1>2, <3>2, RequestRows, PipelineJobs DEF SessionsInOrder
    <2>2. overrun' = {}
      BY <1>2, RequestRows DEF CreateJobs, FinalCommit, Request, InOrder
    <2> QED
      BY <1>1, <1>2, <2>1, <2>2 DEF CreateJobs, InOrder, StatusesOf
  <1>3. CASE CompileOnly
    BY <1>1, <1>3 DEF CompileOnly, InOrder
  <1>4. CASE Dispatch
    BY <1>1, <1>4 DEF Dispatch, InOrder
  <1>5. CASE AbortRequest
    BY <1>1, <1>5 DEF AbortRequest, InOrder
  <1>6. CASE FinalCommit
    <2>1. \A j \in Pipeline : job'[j].status = "dispatched"
      BY <1>6, RequestRows, PipelineJobs
    <2>2. overrun = {} /\ overrun' = {j \in Pipeline : job[j].status # "queued"}
      BY <1>6, RequestRows DEF FinalCommit, InOrder
    <2>3. ASSUME NEW j \in Pipeline, j \notin overrun'
          PROVE  job'[j].status \in StatusesOf(session'[j])
      <3>1. job[j].status = "queued" /\ job[j].status \in StatusesOf(session[j])
        BY <2>2, <2>3 DEF InOrder
      <3>2. "dispatched" \in StatusesOf(session[j])
        BY <3>1 DEF StatusesOf, EndedStatuses, JobStatuses, ActiveStatuses
      <3> QED
        BY <1>1, <2>1, <3>2
    <2> QED
      BY <1>6, <2>1, <2>3 DEF FinalCommit, InOrder
  <1>7. CASE CreateExport
    <2>1. \A j \in Pipeline : job'[j] = job[j]
      BY <1>7, RequestRows, PipelineJobs
    <2>2. request # "idle" /\ request' = request /\ runtime' = runtime /\ overrun' = overrun
      BY <1>7 DEF CreateExport, InOrder
    <2> QED
      BY <1>1, <2>1, <2>2 DEF InOrder
  <1> QED
    BY <1>2, <1>3, <1>4, <1>5, <1>6, <1>7 DEF Request

\* A task that has been taken or sent has a job row.
LEMMA RowIsThere ==
    ASSUME Inv, NEW j \in Pipeline, j \in broker \/ session[j].phase # "none"
    PROVE  job[j].status # "ABSENT"
  <1>1. j <= sent /\ sent \in 0..PipelineSize /\ j \in 1..PipelineSize
    BY DEF Inv, SessionsInOrder, TypeOK, Pipeline
  <1>2. sent > 0
    BY <1>1, SizesAreNatural
  <1> QED
    BY <1>2 DEF Inv, RowsTellTheOutcome

\* A worker works only on jobs that exist, after the request has begun.
LEMMA WorkAfterBegin ==
    ASSUME Inv, InOrder, NEW j \in Pipeline, Work(j) \/ WorkerCrash(j)
    PROVE  request # "idle" /\ job[j].status # "ABSENT"
  <1>1. j \in broker \/ session[j].phase # "none"
    BY OwnSession DEF Inv, Work, LivePhases, LoadedPhases, ReadPhases
  <1> QED
    BY <1>1, RowIsThere, PipelineJobs DEF InOrder

\* The steps of a worker keep the order.
LEMMA WorkInOrder ==
    ASSUME Inv, InOrder, NEW j \in Pipeline, Work(j) \/ WorkerCrash(j)
    PROVE  /\ InOrder'
           /\ Commit(j) => job'[j].status \in StatusesOf(session'[j])
  <1> USE DEF Inv
  <1>1. request' = request /\ request # "idle" /\ overrun' = overrun
    BY WorkAfterBegin, OtherSessions
  <1>2. ASSUME NEW k \in Pipeline, k # j
        PROVE  job'[k] = job[k] /\ session'[k] = session[k]
    BY <1>2, OtherSessions, PipelineJobs
  <1>3. job[j].status \in JobStatuses /\ job[j].status # "ABSENT"
    BY PipelineJobs, WorkAfterBegin DEF TypeOK, JobRows
  <1>4. ASSUME Commit(j)
        PROVE  job'[j].status \in StatusesOf(session'[j])
    <2>1. session[j].phase \in {"start_read", "end_read"} /\ job'[j] = Marked(j)
      BY <1>4, OwnSession DEF ReadPhases
    <2>2. session'[j].phase = IF session[j].phase = "start_read" THEN "executing" ELSE "done"
      BY <1>4, OwnSession
    <2>3. CASE session[j].phase = "start_read"
      <3>1. session[j].outcome = "none"
        BY <2>3 DEF SessionsInOrder
      <3>2. job'[j].status = "running" /\ session'[j].phase = "executing"
        BY <2>1, <2>2, <2>3, <3>1, MarkedType
      <3> QED
        BY <3>2 DEF StatusesOf
    <2>4. CASE session[j].phase = "end_read"
      <3>1. session[j].outcome \in Outcomes
        BY <2>4 DEF SessionsInOrder
      <3>2. Marked(j).status \in EndedStatuses
        BY <3>1, NoCodeIsNone DEF Marked, Outcomes, EndedStatuses, TypeOK
      <3>3. job'[j].status \in EndedStatuses /\ session'[j].phase = "done"
        BY <2>1, <2>2, <2>4, <3>2
      <3> QED
        BY <3>3 DEF StatusesOf
    <2> QED
      BY <2>1, <2>3, <2>4
  <1>5. ASSUME ~ Commit(j), job[j].status \in StatusesOf(session[j])
        PROVE  job'[j].status \in StatusesOf(session'[j])
    <2>1. job' = job
      BY <1>5, OwnSession DEF Work
    <2>2. CASE TakeTask(j)
      BY <1>5, <2>1, <2>2, OwnSession DEF StatusesOf
    <2>3. CASE Refresh(j)
      <3>1. session[j].phase \in {"starting", "ending"} /\ session'[j].outcome = session[j].outcome
        BY <2>3, OwnSession DEF LoadedPhases
      <3>2. session'[j].phase = IF session[j].phase = "starting" THEN "start_read" ELSE "end_read"
        BY <2>3, OwnSession
      <3> QED
        BY <1>5, <2>1, <3>1, <3>2 DEF StatusesOf
    <2>4. CASE \E o \in Outcomes : Execute(j, o)
      BY <1>5, <2>1, <2>4, OwnSession DEF StatusesOf
    <2>5. ASSUME NEW code \in Codes, Raise(j, code)
          PROVE  job'[j].status \in StatusesOf(session'[j])
      <3>1. job[j].status \in {"queued", "dispatched", "running"}
        BY <1>3, <1>5, <2>5, OwnSession DEF StatusesOf
      <3>2. session'[j].phase = "ending" /\ session'[j].outcome # "ok"
        BY <2>5, OwnSession, NoCodeIsNone
      <3> QED
        BY <2>1, <3>1, <3>2 DEF StatusesOf
    <2>6. CASE WorkerCrash(j)
      BY <1>3, <2>1, <2>6, OwnSession DEF StatusesOf
    <2> QED
      BY <1>5, <2>2, <2>3, <2>4, <2>5, <2>6 DEF Work
  <1>6. job'[j].status \in StatusesOf(session'[j])
           \/ (j \in overrun /\ job'[j].status = "dispatched")
    <2>1. CASE Commit(j)
      BY <1>4, <2>1
    <2>2. CASE ~ Commit(j) /\ job[j].status \in StatusesOf(session[j])
      BY <1>5, <2>2
    <2>3. CASE ~ Commit(j) /\ job[j].status \notin StatusesOf(session[j])
      <3>1. job' = job
        BY <2>3, OwnSession DEF Work
      <3> QED
        BY <2>3, <3>1 DEF InOrder
    <2> QED
      BY <2>1, <2>2, <2>3
  <1> QED
    BY <1>1, <1>2, <1>4, <1>6 DEF InOrder

\* The order is an invariant.
LEMMA OrderInvariant == Spec => []InOrder
  <1>1. Init => InOrder
    <2> SUFFICES ASSUME Init PROVE InOrder
      OBVIOUS
    <2>1. \A j \in Jobs : session[j].phase = "none" /\ job[j].status = "ABSENT"
      BY DEF Init, Idle
    <2> QED
      BY <2>1, PipelineJobs DEF Init, NewRuntime, InOrder, StatusesOf
  <1>2. Inv /\ InOrder /\ [Next]_vars => InOrder'
    <2> SUFFICES ASSUME Inv, InOrder, [Next]_vars PROVE InOrder'
      OBVIOUS
    <2>1. CASE UNCHANGED vars
      BY <2>1 DEF vars, InOrder
    <2>2. CASE Request \/ CreateExport
      BY <2>2, RequestInOrder
    <2>3. CASE \E j \in Pipeline : Work(j) \/ WorkerCrash(j)
      BY <2>3, WorkInOrder
    <2> QED
      BY <2>1, <2>2, <2>3 DEF Next
  <1> QED
    BY <1>1, <1>2, PipelineInvariant, PTL DEF Spec

\* Once a runtime is reported succeeded its row stays as it is, however many tasks stop
\* and whenever the workers started: everybody who could write it is through, but the
\* compile request, whose last commit then writes over the jobs.
THEOREM SuccessStays == Spec => SuccessIsFinal
  <1>1. ASSUME Inv, InOrder, [Next]_vars, runtime.compile = "succeeded"
        PROVE  runtime' = runtime \/ overrun' # overrun
    <2>1. \A j \in Pipeline : EndedAs(j, "ok") /\ session[j].phase = "done"
      BY <1>1 DEF Inv, RuntimeIsTrue, NoFalseSuccess, EndedAs
    <2>2. PipelineSize \in Pipeline
      BY SizesAreNatural DEF Pipeline
    <2>3. request # "idle"
      BY <1>1 DEF InOrder
    <2>4. ASSUME NEW j \in Pipeline, Work(j) \/ WorkerCrash(j)
          PROVE  FALSE
      BY <1>1, <2>1, <2>4, OwnSession DEF Inv, Work, LivePhases, LoadedPhases, ReadPhases
    <2>5. CASE FinalCommit
      <3>1. overrun = {} /\ overrun' = {j \in Pipeline : job[j].status # "queued"}
        BY <1>1, <2>5, RequestRows DEF FinalCommit, InOrder, Inv
      <3>2. job[PipelineSize].status \in EndedStatuses
        BY <1>1, <2>1, <2>2, <3>1 DEF InOrder, StatusesOf
      <3> QED
        BY <2>2, <3>1, <3>2 DEF EndedStatuses
    <2>6. CASE (Request \/ CreateExport) /\ ~ FinalCommit
      BY <2>3, <2>6 DEF Request, CreateJobs, CompileOnly, Dispatch, AbortRequest, CreateExport
    <2>7. CASE UNCHANGED vars
      BY <2>7 DEF vars
    <2> QED
      BY <1>1, <2>4, <2>5, <2>6, <2>7 DEF Next
  <1>2. Inv /\ InOrder /\ [Next]_vars
          => [runtime.compile = "succeeded" => runtime' = runtime \/ overrun' # overrun]_vars
    BY <1>1
  <1> QED
    BY <1>2, OrderInvariant, PipelineInvariant, PTL DEF Spec, SuccessIsFinal

\* The status column of the jobs.
Status == [j \in Jobs |-> job[j].status]

\* What a step does to the status column is a step of the lifecycle.
LEMMA StatusStep ==
    ASSUME Inv, InOrder, [Next]_vars
    PROVE  Lifecycle!Next \/ UNCHANGED <<Status, overrun>>
  <1> USE DEF Inv
  <1>1. ASSUME NEW moved \in SUBSET Jobs, overrun' = overrun,
               \A j \in moved :
                  /\ \/ job'[j].status \in Lifecycle!Successors(job[j].status)
                     \/ j \in overrun /\ job[j].status = "dispatched"
                        /\ job'[j].status = "succeeded"
                  /\ j \in Pipeline \/ job'[j].status = "queued",
               \A j \in Jobs \ moved : job'[j].status = job[j].status
        PROVE  Lifecycle!Next
    BY <1>1 DEF Lifecycle!Next, Lifecycle!Advance, Lifecycle!Advances
  <1>2. CASE UNCHANGED <<job, overrun>>
    BY <1>2 DEF Status
  <1>3. CASE CreateJobs
    <2>1. \A j \in Pipeline : job[j].status = "ABSENT" /\ job'[j].status = "queued"
      BY <1>3, RequestRows, PipelineJobs DEF CreateJobs, InOrder
    <2>2. (\A j \in Jobs \ Pipeline : job'[j].status = job[j].status) /\ overrun' = overrun
      BY <1>3, RequestRows DEF CreateJobs
    <2> QED
      BY <1>1, <2>1, <2>2, PipelineJobs DEF Lifecycle!Successors
  <1>4. CASE FinalCommit
    <2>1. /\ \A j \in Jobs : job'[j].status = IF j \in Pipeline THEN "dispatched" ELSE job[j].status
          /\ overrun = {} /\ overrun' = {j \in Pipeline : job[j].status # "queued"}
      BY <1>4, RequestRows DEF FinalCommit, InOrder
    <2>2. CASE overrun' = {}
      <3>1. \A j \in Pipeline : job[j].status = "queued" /\ job'[j].status = "dispatched"
        BY <2>1, <2>2, PipelineJobs
      <3>2. \A j \in Jobs \ Pipeline : job'[j].status = job[j].status
        BY <2>1
      <3> QED
        BY <1>1, <2>1, <2>2, <3>1, <3>2, PipelineJobs DEF Lifecycle!Successors
    <2>3. CASE overrun' # {}
      <3>1. \A j \in Pipeline : job[j].status # "ABSENT"
        BY <1>4 DEF FinalCommit, RowsTellTheOutcome
      <3> QED
        BY <2>1, <2>3, <3>1, PipelineJobs DEF Lifecycle!Next, Lifecycle!SetBack
    <2> QED
      BY <2>2, <2>3
  <1>5. CASE CreateExport
    <2>1. PICK e \in Jobs \ Pipeline :
             /\ job[e].status = "ABSENT" /\ job'[e].status = "queued"
             /\ \A j \in Jobs : j # e => job'[j] = job[j]
      BY <1>5, RequestRows
    <2>2. /\ {e} \in SUBSET Jobs /\ \A j \in Jobs \ {e} : job'[j].status = job[j].status
          /\ overrun' = overrun
      BY <1>5, <2>1 DEF CreateExport
    <2>3. \A j \in {e} : /\ job'[j].status \in Lifecycle!Successors(job[j].status)
                         /\ j \in Pipeline \/ job'[j].status = "queued"
      BY <2>1 DEF Lifecycle!Successors
    <2> QED
      BY <1>1, <2>2, <2>3
  <1>6. ASSUME NEW j \in Pipeline, Commit(j)
        PROVE  Lifecycle!Next
    <2>1. /\ session[j].phase \in {"start_read", "end_read"}
          /\ session'[j].phase = IF session[j].phase = "start_read" THEN "executing" ELSE "done"
          /\ job'[j] = Marked(j)
      BY <1>6, OwnSession DEF ReadPhases
    <2>2. /\ job[j].status # "ABSENT"
          /\ \/ job[j].status \in StatusesOf(session[j])
             \/ j \in overrun /\ job[j].status = "dispatched"
      BY <2>1, RowIsThere DEF InOrder
    <2>3. job'[j].status \in StatusesOf(session'[j])
      BY <1>6, WorkInOrder DEF Work
    <2>4. \/ job'[j].status \in Lifecycle!Successors(job[j].status)
          \/ j \in overrun /\ job[j].status = "dispatched" /\ job'[j].status = "succeeded"
      <3>1. CASE session[j].phase = "start_read"
        BY <2>1, <2>2, <2>3, <3>1 DEF StatusesOf, Lifecycle!Successors
      <3>2. CASE session[j].phase = "end_read" /\ session[j].outcome = "ok"
        <4>1. job'[j].status \in EndedStatuses
          BY <2>1, <2>3, <3>2 DEF StatusesOf
        <4> QED
          BY <2>2, <3>2, <4>1 DEF StatusesOf, Lifecycle!Successors, EndedStatuses
      <3>3. CASE session[j].phase = "end_read" /\ session[j].outcome # "ok"
        <4>1. session[j].outcome \in Codes
          BY <3>3 DEF SessionsInOrder, Outcomes
        <4>2. job'[j].status = "failed"
          BY <2>1, <4>1, NoCodeIsNone DEF Marked
        <4> QED
          BY <2>2, <3>3, <4>2 DEF StatusesOf, Lifecycle!Successors
      <3> QED
        BY <2>1, <3>1, <3>2, <3>3
    <2>5. /\ {j} \in SUBSET Jobs /\ \A k \in Jobs \ {j} : job'[k].status = job[k].status
          /\ overrun' = overrun
      BY <1>6, OtherSessions, PipelineJobs DEF Work
    <2> QED
      BY <1>1, <2>4, <2>5
  <1>7. ASSUME NEW j \in Pipeline, Work(j) \/ WorkerCrash(j), ~ Commit(j)
        PROVE  UNCHANGED <<job, overrun>>
    BY <1>7, OwnSession, OtherSessions DEF Work
  <1>8. CASE CompileOnly \/ Dispatch \/ AbortRequest
    BY <1>2, <1>8 DEF CompileOnly, Dispatch, AbortRequest
  <1> QED
    BY <1>2, <1>3, <1>4, <1>5, <1>6, <1>7, <1>8 DEF Next, Request, vars

\* The status column of the jobs follows the job contract (JobLifecycle) in every run,
\* crashes and early workers included: the one write that takes jobs back is the last
\* commit of the compile request.
THEOREM StatusesFollowTheContract == Spec => StatusesAdvance
  <1>1. Init => Lifecycle!Init
    BY DEF Init, Lifecycle!Init
  <1>2. Inv /\ InOrder /\ [Next]_vars => [Lifecycle!Next]_<<Status, overrun>>
    BY StatusStep
  <1> QED
    BY <1>1, <1>2, OrderInvariant, PipelineInvariant, PTL
       DEF Spec, StatusesAdvance, Lifecycle!Spec, Status

----------------------------------------------------------------------------
(* Failures *)

\* What a refresh makes of the status and of a failure: failed if and only if a row it
\* read is, and then with a code if the failed rows have codes.
LEMMA RefreshReports ==
    ASSUME NEW row \in RuntimeRows, NEW rows \in [Jobs -> JobRows],
           \E j \in Jobs : rows[j].status # "ABSENT"
    PROVE  /\ RefreshRuntimeStatus(row, rows).compile \in {"running"} \cup EndedStatuses
           /\ RefreshRuntimeStatus(row, rows).compile = "failed" <=>
                \E j \in Jobs : rows[j].status = "failed"
           /\ (\E j \in Jobs : rows[j].status = "failed")
              /\ (\A j \in Jobs : rows[j].status = "failed" => rows[j].error \in Codes)
                => RefreshRuntimeStatus(row, rows).code \in Codes
  <1> DEFINE summary == BuildSummary(rows)
             failed == Having(summary, {"failed"})
             new == RefreshRuntimeStatus(row, rows)
  <1>1. /\ \A j : j \in DOMAIN summary <=> j \in Jobs /\ rows[j].status # "ABSENT"
        /\ \A j \in DOMAIN summary : summary[j] = rows[j].status
    BY SummaryOfRows
  <1>2. failed # {} => /\ LatestFailed(summary) \in Jobs
                       /\ rows[LatestFailed(summary)].status = "failed"
    BY LatestFailedFailed
  <1>3. /\ new.compile = DeriveCompileStatus(summary, row.compile)
        /\ failed # {} => new.code = LET code == rows[LatestFailed(summary)].error
                                     IN IF code = NoCode THEN row.code ELSE code
    BY DEF RefreshRuntimeStatus
  <1> HIDE DEF summary, new
  <1>4. failed # {} <=> \E j \in Jobs : rows[j].status = "failed"
    BY <1>1 DEF Having
  <1>5. DOMAIN summary # {}
    BY <1>1
  <1>6. failed # {} => new.compile = "failed"
    BY <1>3, <1>5 DEF DeriveCompileStatus
  <1>7. failed = {} => new.compile \in {"running", "succeeded"}
    <2>1. CASE \A j \in DOMAIN summary : summary[j] = "succeeded"
      <3>1. Having(summary, {"succeeded"}) = DOMAIN summary
        BY <2>1 DEF Having
      <3> QED
        BY <1>3, <1>5, <3>1 DEF DeriveCompileStatus
    <2>2. CASE \E j \in DOMAIN summary : summary[j] # "succeeded"
      <3>1. PICK j \in DOMAIN summary : summary[j] # "succeeded"
        BY <2>2
      <3>2. summary[j] \in ActiveStatuses \cup {"failed"}
        BY <1>1, <3>1 DEF JobRows, JobStatuses, EndedStatuses
      <3>3. failed = {} => Having(summary, ActiveStatuses) # {}
        BY <3>2 DEF Having
      <3> QED
        BY <1>3, <1>5, <3>3 DEF DeriveCompileStatus
    <2> QED
      BY <2>1, <2>2
  <1>8. ASSUME failed # {}, \A j \in Jobs : rows[j].status = "failed" => rows[j].error \in Codes
        PROVE  new.code \in Codes
    BY <1>2, <1>3, <1>8, NoCodeIsNone
  <1>9. /\ new.compile \in {"running"} \cup EndedStatuses
        /\ new.compile = "failed" <=> failed # {}
    BY <1>6, <1>7 DEF EndedStatuses
  <1> HIDE DEF failed
  <1> QED
    BY <1>4, <1>8, <1>9 DEF new

\* What an UPDATE leaves in the two columns, exactly.
LEMMA FlushColumns ==
    ASSUME NEW row \in RuntimeRows, NEW loaded, NEW new
    PROVE  /\ Flush(row, loaded, new).compile =
                IF new.compile = loaded.compile THEN row.compile ELSE new.compile
           /\ Flush(row, loaded, new).code =
                IF new.code = loaded.code THEN row.code ELSE new.code
  <1>1. DOMAIN row = {"compile", "dispatch", "summary", "code"}
    BY DEF RuntimeRows
  <1> QED
    BY <1>1 DEF Flush

\* The values of the status column once a task has started.
Reported == {"running"} \cup EndedStatuses

SomeFailed == \E j \in Pipeline : job[j].status = "failed"

\* The task of j will still write that the runtime has failed, whatever it loaded.
Corrects(j) ==
    \/ j \in broker
    \/ session[j].phase \in {"starting", "start_read", "executing"}
    \/ session[j].phase = "ending" /\ session[j].loaded.compile # "failed"
    \/ /\ session[j].phase = "end_read"
       /\ session[j].loaded.compile # "failed" /\ session[j].new.compile = "failed"

\* The execution of the task of j returned, and its end is not committed yet.
Ran(j) == session[j].phase \in {"ending", "end_read"} /\ session[j].outcome = "ok"

\* What a session has loaded: a failure or a code in it is still in the rows.
LoadedStands(j) ==
    session[j].phase \in LoadedPhases \cup ReadPhases =>
        /\ session[j].loaded.compile = "failed" => SomeFailed
        /\ session[j].loaded.compile \in Reported => runtime.compile \in Reported
        /\ session[j].loaded.code # NoCode => runtime.code # NoCode
        /\ Ran(j) => session[j].loaded.compile \in {"running", "failed"}

\* What a session is about to write: it takes back no code, and no failure it has seen.
WritesStand(j) ==
    session[j].phase \in ReadPhases =>
        /\ session[j].new.compile \in Reported
        /\ session[j].new.compile = "failed" => SomeFailed \/ session[j].outcome \in Codes
        /\ session[j].loaded.code # NoCode => session[j].new.code # NoCode
        /\ session[j].outcome \in Codes =>
              session[j].new.compile = "failed" /\ session[j].new.code # NoCode
        /\ session[j].phase = "end_read" /\ session[j].loaded.compile = "failed" =>
              session[j].new.compile = "failed"

\* A failure is in the runtime's row, or a task under way will put it there.
FailureStands ==
    /\ runtime.compile = "failed" => SomeFailed
    /\ SomeFailed => runtime.code # NoCode
    /\ SomeFailed => runtime.compile = "failed" \/ \E j \in Pipeline : Corrects(j)
    /\ \A j \in Pipeline :
          /\ session[j].phase # "lost"
          /\ session[j].phase \in {"executing", "done"} \/ Ran(j) =>
                runtime.compile \in Reported
          /\ LoadedStands(j) /\ WritesStand(j)
    /\ request = "dispatching" /\ (\A j \in Pipeline : job[j].status = "queued") =>
          /\ runtime.compile = "compiled"
          /\ \A j \in Pipeline : session[j].phase \in LoadedPhases \cup ReadPhases =>
                session[j].loaded.compile = "compiled"

\* The job of a task that ended says how, if nothing was written over.
LEMMA EndIsInRow ==
    ASSUME Inv, InOrder, overrun = {}, NEW j \in Pipeline, NEW c \in Codes
    PROVE  EndedAs(j, c) <=> job[j].status = "failed" /\ job[j].error = c
  <1>1. ASSUME EndedAs(j, c)
        PROVE  job[j].status = "failed" /\ job[j].error = c
    <2>1. session[j].phase = "done" /\ session[j].outcome = c
      BY <1>1 DEF EndedAs
    <2>2. job[j].status \in EndedStatuses
      BY <2>1 DEF InOrder, StatusesOf
    <2>3. job[j].status # "succeeded"
      BY <2>1, NoCodeIsNone DEF Inv, RowsTellTheOutcome, EndedAs
    <2>4. job[j].status = "failed"
      BY <2>2, <2>3 DEF EndedStatuses
    <2> QED
      BY <2>1, <2>4 DEF Inv, RowsTellTheOutcome, EndedAs
  <1>2. ASSUME job[j].status = "failed", job[j].error = c
        PROVE  EndedAs(j, c)
    BY <1>2 DEF Inv, RowsTellTheOutcome
  <1> QED
    BY <1>1, <1>2

\* A failed job stays failed, and its task is not under way.
LEMMA FailuresStay ==
    ASSUME Inv, InOrder, NEW f \in Pipeline, job[f].status = "failed",
           NEW j \in Pipeline, Work(j) \/ WorkerCrash(j)
    PROVE  f # j /\ job'[f].status = "failed"
  <1> USE DEF Inv
  <1>1. session[f].phase = "done"
    BY DEF RowsTellTheOutcome, EndedAs
  <1>2. f # j
    BY <1>1, OwnSession DEF Work, LivePhases, LoadedPhases, ReadPhases
  <1> QED
    BY <1>2, OtherSessions, PipelineJobs

\* What a session sets when it has read the job rows.
LEMMA RefreshStands ==
    ASSUME Inv, InOrder, overrun = {}, FailureStands, NEW j \in Pipeline, Refresh(j)
    PROVE  WritesStand(j)' /\ (SomeFailed => session'[j].new.compile = "failed")
  <1> USE DEF Inv
  <1> DEFINE row == Assigned(session[j].loaded, session[j].outcome)
             rows == [job EXCEPT ![j] = Marked(j)]
             new == RefreshRuntimeStatus(row, rows)
  <1>1. /\ session[j].phase \in {"starting", "ending"}
        /\ session'[j].phase = IF session[j].phase = "starting" THEN "start_read" ELSE "end_read"
        /\ session'[j].outcome = session[j].outcome /\ session'[j].loaded = session[j].loaded
        /\ session'[j].new = new /\ job' = job
    BY OwnSession DEF LoadedPhases
  <1>2. /\ rows \in [Jobs -> JobRows] /\ rows[j] = Marked(j) /\ Marked(j).status # "ABSENT"
        /\ \A k \in Jobs : k # j => rows[k] = job[k]
    BY RowsRead, MarkedType, PipelineJobs DEF TypeOK
  <1>3. row \in RuntimeRows
    BY AssignedType, PipelineJobs DEF TypeOK, Sessions
  <1> HIDE DEF row, rows
  <1>4. \A k \in Jobs : rows[k].status = "failed" =>
           /\ rows[k].error \in Codes
           /\ \/ k = j /\ session[j].outcome \in Codes
              \/ k \in Pipeline /\ job[k].status = "failed"
    <2>1. ASSUME NEW k \in Jobs, rows[k].status = "failed", k # j
          PROVE  k \in Pipeline /\ job[k].status = "failed" /\ rows[k].error \in Codes
      BY <1>2, <2>1 DEF RowsTellTheOutcome
    <2>2. Marked(j).status = "failed" => Marked(j).error \in Codes /\ session[j].outcome \in Codes
      BY MarkedType
    <2>3. ASSUME NEW k \in Jobs, rows[k].status = "failed", k = j
          PROVE  rows[k].error \in Codes /\ session[j].outcome \in Codes
      BY <1>2, <2>2, <2>3
    <2> QED
      BY <2>1, <2>3
  <1>5. /\ new.compile \in Reported
        /\ new.compile = "failed" <=> \E k \in Jobs : rows[k].status = "failed"
        /\ (\E k \in Jobs : rows[k].status = "failed") => new.code \in Codes
    BY <1>2, <1>3, <1>4, RefreshReports, PipelineJobs DEF Reported
  <1> HIDE DEF new
  <1>6. new.compile = "failed" => SomeFailed \/ session[j].outcome \in Codes
    BY <1>4, <1>5 DEF SomeFailed
  <1>7. ASSUME NEW k \in Pipeline, job[k].status = "failed"
        PROVE  new.compile = "failed" /\ new.code \in Codes
    <2>1. k # j
      BY <1>7, FailuresStay DEF Work
    <2> QED
      BY <1>2, <1>5, <1>7, <2>1, PipelineJobs
  <1>8. session[j].outcome \in Codes => new.compile = "failed" /\ new.code \in Codes
    <2>1. session[j].outcome \in Codes => Marked(j).status = "failed"
      BY NoCodeIsNone DEF Marked
    <2> QED
      BY <1>2, <1>5, <2>1, PipelineJobs
  <1>9. session[j].loaded.code # NoCode => new.code \in Codes
    <2>1. session[j].loaded.code \in Codes \cup {NoCode}
      BY PipelineJobs DEF TypeOK, Sessions, RuntimeRows
    <2>2. session[j].loaded.code # NoCode => \E k \in Pipeline : job[k].status = "failed"
      BY <2>1, EndIsInRow DEF WritesAreTrue
    <2> QED
      BY <1>7, <2>2
  <1>10. session[j].loaded.compile = "failed" => SomeFailed
    BY <1>1 DEF FailureStands, LoadedStands, LoadedPhases
  <1>11. SomeFailed => new.compile = "failed"
    BY <1>7 DEF SomeFailed
  <1>12. SomeFailed' = SomeFailed
    BY <1>1 DEF SomeFailed
  <1>13. NoCode \notin Codes
    BY NoCodeIsNone
  <1> QED
    BY <1>1, <1>5, <1>6, <1>8, <1>9, <1>10, <1>11, <1>12, <1>13 DEF WritesStand

\* The steps of a worker keep the failures.
LEMMA WorkFailureStands ==
    ASSUME Inv, InOrder, overrun = {}, FailureStands, NEW j \in Pipeline, Work(j)
    PROVE  FailureStands'
  <1> USE DEF Inv
  <1>1. /\ \A k \in Pipeline : k # j => session'[k] = session[k]
        /\ broker' \subseteq broker /\ (~ TakeTask(j) => broker' = broker)
        /\ \A k \in Pipeline : k # j /\ k \in broker => k \in broker'
    <2>1. \A k \in Pipeline : k # j /\ k \in broker => k \in broker'
      BY OwnSession DEF Work, TakeTask
    <2> QED
      BY <2>1, OtherSessions, OwnSession DEF Work
  <1>2. SomeFailed => SomeFailed'
    BY FailuresStay DEF SomeFailed
  <1>7. /\ \A k \in Pipeline : k # j => Ran(k)' = Ran(k) /\ job'[k] = job[k]
        /\ request' = request
    BY <1>1, OtherSessions, PipelineJobs DEF Ran
  <1>3. CASE TakeTask(j)
    <2>1. /\ session[j].phase = "none" /\ session'[j].phase = "starting"
          /\ session'[j].loaded = runtime /\ job' = job /\ runtime' = runtime
      BY <1>3, OwnSession
    <2>2. SomeFailed' = SomeFailed
      BY <2>1 DEF SomeFailed
    <2>3. \A k \in Pipeline : k # j => Corrects(k)' = Corrects(k)
      BY <1>1 DEF Corrects
    <2>4. Corrects(j)'
      BY <2>1 DEF Corrects
    <2>5. LoadedStands(j)' /\ WritesStand(j)'
      BY <2>1, <2>2 DEF LoadedStands, WritesStand, ReadPhases, FailureStands, Ran
    <2>6. \A k \in Pipeline : k # j => LoadedStands(k)' /\ WritesStand(k)'
      BY <1>1, <1>7, <2>1, <2>2 DEF LoadedStands, WritesStand, FailureStands
    <2> QED
      BY <1>1, <1>7, <2>1, <2>2, <2>4, <2>5, <2>6 DEF FailureStands, Ran
  <1>4. CASE Refresh(j)
    <2>1. /\ session[j].phase \in {"starting", "ending"}
          /\ session'[j].phase = IF session[j].phase = "starting" THEN "start_read" ELSE "end_read"
          /\ session'[j].loaded = session[j].loaded
          /\ job' = job /\ runtime' = runtime /\ broker' = broker
      BY <1>4, OwnSession DEF LoadedPhases
    <2>2. SomeFailed' = SomeFailed
      BY <2>1 DEF SomeFailed
    <2>3. WritesStand(j)' /\ (SomeFailed => session'[j].new.compile = "failed")
      BY <1>4, RefreshStands
    <2>4. SomeFailed => \A k \in Pipeline : Corrects(k) => Corrects(k)'
      BY <1>1, <2>1, <2>3 DEF Corrects, SessionsInOrder
    <2>7. Ran(j)' = Ran(j)
      BY <1>4, <2>1, OwnSession DEF Ran
    <2>5. LoadedStands(j)'
      BY <2>1, <2>2, <2>7 DEF LoadedStands, FailureStands, LoadedPhases, ReadPhases
    <2>6. \A k \in Pipeline : k # j => LoadedStands(k)' /\ WritesStand(k)'
      BY <1>1, <1>7, <2>1, <2>2 DEF LoadedStands, WritesStand, FailureStands
    <2> QED
      BY <1>1, <1>7, <2>1, <2>2, <2>3, <2>4, <2>5, <2>6, <2>7
         DEF FailureStands, LoadedPhases, ReadPhases
  <1>5. ASSUME NEW o \in Outcomes, Execute(j, o)
        PROVE  FailureStands'
    <2>1. /\ session[j].phase = "executing" /\ session'[j].phase = "ending"
          /\ session'[j].loaded = runtime
          /\ job' = job /\ runtime' = runtime /\ broker' = broker
      BY <1>5, OwnSession
    <2>2. SomeFailed' = SomeFailed
      BY <2>1 DEF SomeFailed
    <2>3. runtime.compile \in {"running", "failed"}
      <3>1. runtime.compile \in Reported
        BY <2>1 DEF FailureStands
      <3>2. runtime.compile # "succeeded"
        BY <2>1 DEF RuntimeIsTrue, NoFalseSuccess, EndedAs
      <3> QED
        BY <3>1, <3>2 DEF Reported, EndedStatuses
    <2>4. \A k \in Pipeline : Corrects(k) => Corrects(k)' \/ runtime.compile = "failed"
      BY <1>1, <2>1 DEF Corrects
    <2>5. LoadedStands(j)' /\ WritesStand(j)'
      BY <2>1, <2>2, <2>3 DEF LoadedStands, WritesStand, ReadPhases, FailureStands
    <2>6. \A k \in Pipeline : k # j => LoadedStands(k)' /\ WritesStand(k)'
      BY <1>1, <1>7, <2>1, <2>2 DEF LoadedStands, WritesStand, FailureStands
    <2>7. runtime.compile \in Reported
      BY <2>3 DEF Reported, EndedStatuses
    <2> QED
      BY <1>1, <1>7, <2>1, <2>2, <2>4, <2>5, <2>6, <2>7 DEF FailureStands
  <1>8. ASSUME NEW code \in Codes, Raise(j, code)
        PROVE  FailureStands'
    <2>1. /\ session'[j].phase = "ending" /\ session'[j].outcome # "ok"
          /\ session'[j].loaded = runtime
          /\ job' = job /\ runtime' = runtime /\ broker' = broker
      BY <1>8, OwnSession, NoCodeIsNone
    <2>2. SomeFailed' = SomeFailed
      BY <2>1 DEF SomeFailed
    <2>4. \A k \in Pipeline : Corrects(k) => Corrects(k)' \/ runtime.compile = "failed"
      BY <1>1, <2>1 DEF Corrects
    <2>5. ~ Ran(j)' /\ LoadedStands(j)' /\ WritesStand(j)'
      BY <2>1, <2>2 DEF LoadedStands, WritesStand, ReadPhases, FailureStands, Ran
    <2>6. \A k \in Pipeline : k # j => LoadedStands(k)' /\ WritesStand(k)'
      BY <1>1, <1>7, <2>1, <2>2 DEF LoadedStands, WritesStand, FailureStands
    <2> QED
      BY <1>1, <1>7, <2>1, <2>2, <2>4, <2>5, <2>6 DEF FailureStands
  <1>6. CASE Commit(j)
    <2> DEFINE loaded == session[j].loaded
               new == session[j].new
    <2>1. /\ session[j].phase \in {"start_read", "end_read"} /\ session[j].phase \in ReadPhases
          /\ session'[j].phase = IF session[j].phase = "start_read" THEN "executing" ELSE "done"
          /\ job'[j] = Marked(j) /\ broker' = broker
          /\ \A k \in Jobs : k # j => job'[k] = job[k]
      BY <1>6, OwnSession, OtherSessions DEF ReadPhases, Work
    <2>2. /\ runtime'.compile = IF new.compile = loaded.compile THEN runtime.compile ELSE new.compile
          /\ runtime'.code = IF new.code = loaded.code THEN runtime.code ELSE new.code
      <3>1. runtime' = Flush(runtime, loaded, new) /\ runtime \in RuntimeRows
        BY <1>6, OwnSession DEF TypeOK
      <3> QED
        BY <3>1, FlushColumns
    <2>3. LoadedStands(j) /\ WritesStand(j)
      BY DEF FailureStands
    <2>4. runtime'.compile \in Reported
      BY <2>1, <2>2, <2>3 DEF LoadedStands, WritesStand
    <2>5. runtime.code # NoCode => runtime'.code # NoCode
      BY <2>1, <2>2, <2>3 DEF WritesStand
    <2>6. session[j].outcome \in Codes => SomeFailed' /\ runtime'.code # NoCode
      <3>1. session[j].outcome \in Codes => Marked(j).status = "failed"
        BY NoCodeIsNone DEF Marked
      <3>2. session[j].outcome \in Codes => runtime'.code # NoCode
        BY <2>1, <2>2, <2>3 DEF LoadedStands, WritesStand
      <3> QED
        BY <2>1, <3>1, <3>2 DEF SomeFailed
    <2>7. SomeFailed' => SomeFailed \/ session[j].outcome \in Codes
      <3>1. Marked(j).status = "failed" => session[j].outcome \in Codes
        BY MarkedType
      <3> QED
        BY <2>1, <3>1, PipelineJobs DEF SomeFailed
    <2>8. runtime'.compile = "failed" => SomeFailed'
      BY <1>2, <2>1, <2>2, <2>3, <2>6 DEF LoadedStands, WritesStand, FailureStands
    <2>9. SomeFailed' => runtime'.code # NoCode
      BY <2>5, <2>6, <2>7 DEF FailureStands
    <2>10. SomeFailed' => runtime'.compile = "failed" \/ \E k \in Pipeline : Corrects(k)'
      <3>1. CASE session[j].phase = "start_read"
        BY <2>1, <3>1 DEF Corrects
      <3>2. CASE session[j].phase = "end_read" /\ SomeFailed
        <4>1. \A k \in Pipeline : k # j => Corrects(k)' = Corrects(k)
          BY <1>1, <2>1 DEF Corrects
        <4>2. Corrects(j) => runtime'.compile = "failed"
          BY <2>2, <3>2 DEF Corrects, SessionsInOrder
        <4>3. session[j].outcome \in Codes => runtime'.compile = "failed" \/ runtime.compile # "failed"
          BY <2>1, <2>2, <2>3 DEF WritesStand
        <4>4. session[j].outcome = "ok" /\ runtime.compile = "failed" => runtime'.compile = "failed"
          <5>1. new.compile # "succeeded"
            <6>1. PICK f \in Pipeline : job[f].status = "failed"
              BY <3>2 DEF SomeFailed
            <6>2. f # j /\ EndedAs(f, job[f].error) /\ job[f].error \in Codes
              BY <1>6, <6>1, FailuresStay DEF RowsTellTheOutcome, Work
            <6>3. ~ EndsAs(j, f, "ok")
              BY <6>2, NoCodeIsNone DEF EndsAs, EndedAs
            <6> QED
              BY <2>1, <6>3 DEF WritesAreTrue, IsTrueFor
          <5>2. new.compile \in {"running", "failed"}
            BY <2>1, <2>3, <5>1 DEF WritesStand, Reported, EndedStatuses
          <5>3. session[j].outcome = "ok" => loaded.compile \in {"running", "failed"}
            BY <2>1, <2>3, <3>2 DEF LoadedStands, Ran
          <5>4. loaded.compile = "failed" => new.compile = "failed"
            BY <2>1, <2>3, <3>2 DEF WritesStand
          <5> QED
            BY <2>2, <5>2, <5>3, <5>4
        <4>5. session[j].outcome \in {"ok"} \cup Codes
          BY <3>2 DEF SessionsInOrder, Outcomes
        <4> QED
          BY <3>2, <4>1, <4>2, <4>3, <4>4, <4>5 DEF FailureStands
      <3>3. CASE session[j].phase = "end_read" /\ ~ SomeFailed
        <4>1. SomeFailed' => new.compile = "failed"
          BY <2>1, <2>3, <2>7, <3>3 DEF WritesStand
        <4>2. loaded.compile # "failed"
          BY <2>1, <2>3, <3>3 DEF LoadedStands
        <4> QED
          BY <2>2, <4>1, <4>2
      <3> QED
        BY <2>1, <3>1, <3>2, <3>3
    <2>11. LoadedStands(j)' /\ WritesStand(j)'
      BY <2>1 DEF LoadedStands, WritesStand, LoadedPhases, ReadPhases
    <2>12. ASSUME NEW k \in Pipeline, k # j
           PROVE  LoadedStands(k)' /\ WritesStand(k)'
      <3>1. session'[k] = session[k] /\ LoadedStands(k) /\ WritesStand(k)
        BY <1>1, <2>12 DEF FailureStands
      <3>2. LoadedStands(k)'
        BY <1>2, <1>7, <2>4, <2>5, <2>12, <3>1 DEF LoadedStands
      <3>3. WritesStand(k)'
        BY <1>2, <3>1 DEF WritesStand
      <3> QED
        BY <3>2, <3>3
    <2>13. \A k \in Pipeline : session'[k].phase # "lost"
      BY <1>1, <2>1 DEF FailureStands
    <2>14. job'[j].status # "queued"
      BY <2>1, MarkedType DEF EndedStatuses
    <2> QED
      BY <2>4, <2>8, <2>9, <2>10, <2>11, <2>12, <2>13, <2>14 DEF FailureStands
  <1> QED
    BY <1>3, <1>4, <1>5, <1>6, <1>8 DEF Work

\* The request and the export route keep the failures, if they write over nothing.
LEMMA RequestFailureStands ==
    ASSUME Inv, InOrder, FailureStands, Request \/ CreateExport, overrun' = {}
    PROVE  FailureStands'
  <1> USE DEF Inv
  <1>1. session' = session /\ \A j \in Pipeline : Ran(j)' = Ran(j)
    BY RequestRows DEF Ran
  <1>2. ASSUME \A j \in Pipeline : job[j].status # "failed" /\ job'[j].status # "failed",
               \A j \in Pipeline : session[j].phase \notin {"executing", "done"} /\ ~ Ran(j),
               \A j \in Pipeline : session[j].phase \in LoadedPhases \cup ReadPhases =>
                  session[j].loaded.compile = "compiled",
               runtime'.code = runtime.code
                  \/ \A j \in Pipeline : session[j].phase = "none",
               runtime'.compile # "failed",
               request' = "dispatching" => runtime'.compile = "compiled"
        PROVE  FailureStands'
    <2>1. ~ SomeFailed /\ ~ SomeFailed'
      BY <1>2 DEF SomeFailed
    <2>2. "compiled" \notin Reported
      BY DEF Reported, EndedStatuses
    <2>3. \A j \in Pipeline : LoadedStands(j)' /\ WritesStand(j)'
      BY <1>1, <1>2, <2>1, <2>2
         DEF LoadedStands, WritesStand, FailureStands, LoadedPhases, ReadPhases
    <2> QED
      BY <1>1, <1>2, <2>1, <2>3 DEF FailureStands
  <1>3. CASE CreateJobs \/ CompileOnly
    <2>1. \A j \in Jobs : job[j].status = "ABSENT"
      BY <1>3 DEF CreateJobs, CompileOnly, InOrder
    <2>2. \A j \in Pipeline : session[j].phase = "none"
      <3>1. sent = 0
        BY <2>1, PipelineJobs, SizesAreNatural DEF RowsTellTheOutcome, TypeOK, Pipeline
      <3>2. \A j \in Pipeline : ~ (j <= sent)
        BY <3>1, SizesAreNatural DEF Pipeline
      <3> QED
        BY <3>2 DEF SessionsInOrder
    <2>3. \A j \in Pipeline : job'[j].status \in {"ABSENT", "queued"}
      BY <1>3, <2>1, RequestRows, PipelineJobs DEF CompileOnly
    <2>4. runtime'.compile = "compiled"
      BY <1>3 DEF CreateJobs, CompileOnly, NewRuntime
    <2> QED
      BY <1>2, <2>1, <2>2, <2>3, <2>4, PipelineJobs DEF Ran, LoadedPhases, ReadPhases
  <1>4. CASE FinalCommit
    <2>1. /\ request = "dispatching" /\ request' = "done"
          /\ runtime'.compile = "dispatched" /\ runtime'.code = runtime.code
      BY <1>4 DEF FinalCommit, TypeOK, RuntimeRows
    <2>2. \A j \in Pipeline : job[j].status = "queued" /\ job'[j].status = "dispatched"
      BY <1>4, RequestRows, PipelineJobs
    <2>3. \A j \in Pipeline : job[j].status \in StatusesOf(session[j])
      BY <2>2 DEF InOrder
    <2>4. \A j \in Pipeline : session[j].phase \notin {"executing", "done"} /\ ~ Ran(j)
      BY <2>2, <2>3 DEF StatusesOf, EndedStatuses, Ran
    <2>5. \A j \in Pipeline : session[j].phase \in LoadedPhases \cup ReadPhases =>
             session[j].loaded.compile = "compiled"
      BY <2>1, <2>2 DEF FailureStands
    <2> QED
      BY <1>2, <2>1, <2>2, <2>4, <2>5
  <1>5. CASE Dispatch \/ AbortRequest \/ CreateExport
    <2>1. /\ runtime' = runtime /\ broker \subseteq broker'
          /\ request' = "dispatching" => request = "dispatching"
      BY <1>5 DEF Dispatch, AbortRequest, CreateExport
    <2>2. \A j \in Pipeline : job'[j] = job[j]
      BY <1>5, RequestRows, PipelineJobs DEF Dispatch, AbortRequest
    <2>3. SomeFailed' = SomeFailed
      BY <2>2 DEF SomeFailed
    <2>4. \A j \in Pipeline : Corrects(j) => Corrects(j)'
      BY <1>1, <2>1 DEF Corrects
    <2>5. \A j \in Pipeline : LoadedStands(j)' = LoadedStands(j) /\ WritesStand(j)' = WritesStand(j)
      BY <1>1, <2>1, <2>3 DEF LoadedStands, WritesStand
    <2> QED
      BY <1>1, <2>1, <2>2, <2>3, <2>4, <2>5 DEF FailureStands
  <1> QED
    BY <1>3, <1>4, <1>5 DEF Request

\* Until a task stops or a worker's commit is written over, the failures are an invariant.
LEMMA FailureInvariant == Spec => [](crashes = 0 /\ overrun = {} => FailureStands)
  <1>1. Init => FailureStands
    <2> SUFFICES ASSUME Init PROVE FailureStands
      OBVIOUS
    <2>1. /\ \A j \in Jobs : session[j].phase = "none" /\ job[j].status = "ABSENT"
          /\ runtime.compile = "ABSENT" /\ request = "idle"
      BY DEF Init, Idle, NewRuntime
    <2> QED
      BY <2>1, PipelineJobs DEF FailureStands, SomeFailed, LoadedStands, WritesStand, Ran,
                                LoadedPhases, ReadPhases
  <1>2. Inv /\ InOrder /\ (crashes = 0 /\ overrun = {} => FailureStands) /\ [Next]_vars
          => (crashes = 0 /\ overrun = {} => FailureStands)'
    <2> SUFFICES ASSUME Inv, InOrder, crashes = 0 /\ overrun = {} => FailureStands, [Next]_vars,
                        crashes' = 0, overrun' = {}
                 PROVE  FailureStands'
      OBVIOUS
    <2>1. CASE UNCHANGED vars
      BY <2>1 DEF vars, FailureStands, SomeFailed, Corrects, LoadedStands, WritesStand, Ran
    <2>2. CASE Request \/ CreateExport
      <3>1. crashes' = crashes
        BY <2>2 DEF Request, CreateJobs, CompileOnly, Dispatch, AbortRequest, FinalCommit,
                    CreateExport
      <3>2. overrun = {}
        BY <2>2, RequestRows DEF FinalCommit, InOrder, Inv
      <3> QED
        BY <2>2, <3>1, <3>2, RequestFailureStands
    <2>3. ASSUME NEW j \in Pipeline, Work(j)
          PROVE  FailureStands'
      <3>1. crashes' = crashes
        BY <2>3 DEF Work, TakeTask, Refresh, Commit, Execute, Raise
      <3>2. overrun' = overrun
        BY <2>3, OtherSessions DEF Inv
      <3> QED
        BY <2>3, <3>1, <3>2, WorkFailureStands
    <2>4. ASSUME NEW j \in Pipeline
          PROVE  ~ WorkerCrash(j)
      BY SizesAreNatural DEF WorkerCrash, Inv, TypeOK
    <2> QED
      BY <2>1, <2>2, <2>3, <2>4 DEF Next
  <1> QED
    BY <1>1, <1>2, OrderInvariant, PipelineInvariant, PTL DEF Spec

\* However many workers overlap, and whenever they started, no failure is lost: when all
\* tasks are through and none stopped short of its end, a runtime with a failed job is
\* failed and has the code of one, unless the request's last commit wrote over a worker.
THEOREM FailuresAreReported == Spec => []FailureIsReported
  <1>1. Inv /\ InOrder /\ (crashes = 0 /\ overrun = {} => FailureStands) => FailureIsReported
    <2> SUFFICES ASSUME Inv, InOrder, overrun = {}, FailureStands, Quiescent,
                        NEW f \in Jobs, job[f].status = "failed"
                 PROVE  /\ runtime.compile = "failed"
                        /\ \E j \in Jobs : job[j].status = "failed" /\ job[j].error = runtime.code
      BY DEF FailureIsReported
    <2>1. SomeFailed
      BY DEF Inv, RowsTellTheOutcome, SomeFailed
    <2>2. \A j \in Pipeline : ~ Corrects(j)
      BY PipelineJobs DEF Quiescent, Corrects
    <2>3. runtime.compile = "failed" /\ runtime.code # NoCode
      BY <2>1, <2>2 DEF FailureStands
    <2>4. PICK j \in Pipeline : EndedAs(j, runtime.code)
      BY <2>3 DEF Inv, RuntimeIsTrue, ErrorCodeIsReal
    <2>5. runtime.code \in Codes
      BY <2>3 DEF Inv, TypeOK, RuntimeRows
    <2>6. job[j].status = "failed" /\ job[j].error = runtime.code
      BY <2>4, <2>5, EndIsInRow
    <2> QED
      BY <2>3, <2>6, PipelineJobs
  <1> QED
    BY <1>1, FailureInvariant, OrderInvariant, PipelineInvariant, PTL

=============================================================================
