# A TLA+ model of the AI video replication runtime

The repository turns a blueprint of a video into provider jobs and merges what
they return. It is a FastAPI application with Celery workers, a PostgreSQL
database, an object store and a provider relay. Next to the pipeline that runs
today (Celery, table `jobs`) it carries a second, lease based job kernel (tables
`runtime_jobs`, `job_attempts`, `worker_leases`, `worker_registry`) whose
terminal operations are served over HTTP and called through a small SDK.

Paths below are relative to `src/`, unless they name a file of this directory.

## Inventory

| component | state | operations | talks to | what is hard | what makes it correct |
|---|---|---|---|---|---|
| **Runtime kernel**: `app/services/runtime_{claim,heartbeat,complete,fail}_service.py`, `app/repositories/` | rows of `runtime_jobs`, `job_attempts`, `worker_leases`, `worker_registry` | create, claim, heartbeat, complete, fail, request cancel, cancel, supersede, revoke, set health, mark progress | database (one transaction per call) | competing workers, reports after a retry, a deadline judged by an old clock reading, slot counters | one owner per job; only the owner settles; an ended job stays ended; a lease cannot be kept alive for ever; counters match the leases |
| **Terminal API**: `app/runtime_terminal_sdk/`, `app/api/v1/routes/runtime_terminal.py`, `app/services/runtime_terminal_facade.py`, `app/schemas/runtime.py` | calls under way; no rows of its own | complete, fail, snapshot | kernel; HTTP | lost requests and replies, timeouts, repeats, a view read in three queries | one accepted report per claim; a 409 is final; the view never goes backwards |
| **Dispatch pipeline**: `app/compilers/orchestrator/compiler_service.py`, `app/workers/tasks.py`, `app/services/{runtime_state,job_dispatch,export}_service.py` | rows of `jobs` and `compiled_runtimes`, messages of the broker, open sessions | compile, dispatch, run a task, refresh the aggregate, create an export job | Celery broker, database without row locks | fast workers, write skew, stale columns, a broker that refuses, a killed worker | the aggregate never claims more success, errors or dispatches than happened; failures are not lost; tasks end |
| **Claim query**: `get_claimable_job_for_update` in `app/repositories/runtime_job_repository.py`, and the locking reads of the kernel | row locks | lock and skip candidates; lock lease, job, attempt, worker | kernel transactions | lock order, `SKIP LOCKED`, a candidate window cut before the capability filter | no deadlock; each transaction works as one step |
| **Provider executors**: `app/workers/executors.py` | none (reads packets and assets) | select inputs, run, wait for sibling artifacts, merge | provider, object store, ffmpeg | a packet and a selection from different moments; a bounded wait that holds a worker slot | the unit that is rendered is the packet's first; the wait ends |
| **Google client**: `app/providers/google/client.py` | the last answer, a poll counter | image, video (create, poll, download), speech | relay | the last look of the poll loop, lost and malformed answers | what is concluded of an operation is what it did |
| **Assets and object store**: `app/services/{asset_policy,runtime_artifact,storage}_service.py`, `app/workers/tasks.py` | `assets` rows, objects | register, materialize, reuse | database, object store | two stores without a common transaction, a job that runs twice | a materialized row has its object; job and artifact agree |
| **Runtime version**: `app/services/runtime_version_service.py` | none (counts rows) | next version | database | count read without a lock; versions given by the caller | requests one after the other get different versions |
| **Compile validator and packet**: `app/services/compile_validator_service.py` and the packet part of `compiler_service.py` | none | validate, build the packet | database | each query sees another moment | what is rendered is in the packet |
| **Studio route**: `app/api/v1/routes/studio.py` | none | create a runtime, list runtimes, show one | database | – | – |
| **Web page**: `app/web_ui.py` | the script's variables, an interval | submit, refresh, select, poll | studio route | handlers suspended at fetches, late answers, failed requests | one interval at most, none that runs for nothing; the button is not left disabled; panels do not contradict each other |
| **Blueprint compiler and SDK**: `app/schemas/blueprint.py`, `app/compilers/orchestrator/blueprint_compiler.py`, `app/blueprint_sdk/` | rows of one project | validate, compile to rows, write artifacts | database | references between sequences, shots and bridges | an accepted blueprint compiles, in order |
| **Operations scripts**: `scripts/` | none | call the API, print and judge | HTTP | – | – |
| **CRUD routes, tables, configuration, migrations** | rows | insert, list | database | – | – |

The hazards of these parts, each at its line, are listed in `PROJECT.json` under
`hazards`, with the properties that cover it or the reason why none does.

## The modules

| module | what it is |
|---|---|
| `RuntimeLease` | the runtime kernel |
| `RuntimeLeaseProofs` | the theorems of `RuntimeLease` |
| `MCRuntimeLease` | symmetry for its runs |
| `TerminalClient` | extends `RuntimeLease` with the calls of the terminal API |
| `TerminalClientProofs` | its theorems, on those of `RuntimeLeaseProofs` |
| `MCTerminalClient` | the failures a caller may report, symmetry |
| `DispatchPipeline` | one compiled runtime, from the compile request to the last task |
| `JobLifecycle` | what the job contract promises of a job's status, the abstract specification `DispatchPipeline` implements |
| `DispatchPipelineProofs` | the theorems of `DispatchPipeline` |
| `MCDispatchPipeline` | the error codes of its runs |
| `ClaimQueue` | the kernel's transactions statement by statement, with their row locks |
| `ClaimRules` | what each of these transactions does as one step, the abstract specification `ClaimQueue` implements |
| `ClaimQueueProofs` | the theorems of `ClaimQueue`, among them that refinement |
| `RuntimeAssets` | the runs of a runtime's jobs, their asset rows and objects, the merge that waits for them |
| `RuntimeAssetsProofs` | its theorems |
| `RenderContent` | from the rows of a project over compile requests to the inputs of a job |
| `ProviderClient` | the Google client against its relay; `RenderContent` extends it and calls it |
| `RenderContentProofs` | the theorems of both |
| `StudioPage` | the studio page and the routes it calls |
| `StudioPageProofs` | its theorems |
| `LeastNumber` | a fact about natural numbers the last two proof modules share |
| `MCClaimQueue`, `MCRuntimeAssets`, `MCRenderContent`, `MCStudioPage` | small instances for TLC |

The modules overlap where components meet. `TerminalClient` runs on `RuntimeLease`,
whose steps are whole transactions; `ClaimQueue` is the same transactions in their
statements, over less data, and shows why one step is enough. `DispatchPipeline` is
about statuses and takes a job's execution as one step; `RuntimeAssets` and
`RenderContent` open that step up, the first for what is stored and the second for what
is asked of the provider. `StudioPage` reads what these write.

Operators under a comment that starts with "Mutant" are altered forms of the
definition that follows them. Nothing uses them in the specification; each was
used in place of the original to see a property fail. `PROJECT.json` pairs them
under `mutants`.

### RuntimeLease

The four variables `job`, `attempt`, `lease` and `worker` are the four tables;
`clock` is the server's time. A claim of `claim_job` inserts an attempt, a lease
and a token with fresh unique identifiers that never change, so one member of
`Claims` stands for the three, and `attempt` and `lease` are functions on the
claims made so far.

Every service reads each row `FOR UPDATE` before it writes it and runs in one
transaction (`with self.db.begin()`), which rolls back on any error. A committed
call is therefore one step, and a rejected one no step at all. The one thing
outside the locks is the time: each service takes `now` first and then waits.
`Nows` are the readings it may have taken, at most `MaxLag` old.

| action | code |
|---|---|
| `CreateJob` | `RuntimeJobRepository.create_job` |
| `ClaimJob`, `ClaimNothing` | `RuntimeClaimService.claim_job`, with and without a job; `Registered` is `upsert_worker_registration`, `HasCapacity` is `_assert_worker_claimable`, `ClaimedRow` is `mark_claimed` |
| `Heartbeat` | `RuntimeHeartbeatService.heartbeat`, with or without the transition to RUNNING |
| `CompleteJob`, `FailJob` | the services of the same name; `MayReport` are the checks both make, in `HoldsLease`, `OwnsClaim`, `OwnsAttempt` |
| `MarkCancelRequested`, `MarkEnded`, `RevokeLease`, `MarkProgress`, `SetHealth` | public writes of the repositories that no service calls yet |

`MarkEnded`, `RevokeLease` and `MarkProgress` look at no status or leave the
other rows of the claim alone. `Spec` has them, `ServiceSpec` does not; a
property that holds only without them says so in its comment and is checked
under `ServiceSpec`. Which claimable row the claim query returns depends on other
transactions' locks, so `ClaimJob` takes any of them. What no property depends
on is left out: error payloads, metrics, host names, reasons.

### TerminalClient

`call` has one record per call: what was sent, where the request is, the reply,
what the SDK made of it, and the view as far as it has been read. The SDK
(`_request` in `app/runtime_terminal_sdk/client.py`) sends a request once and
gives up after its timeout. `TimeOut` may happen at any moment after `Send`; the
request stays where it is, and the server may handle it later or never. A repeat
is simply another call. `Raised` is the SDK's choice of exception by status
code. `Valid` is what the request models refuse before the handler runs, `Conflict` the
error type of the first failing check.

A report is one step of the kernel. `get_terminal_view` is three steps
(`ReadJob`, `ReadAttempt`, `ReadLease`), because it reads three tables without a
lock under read committed. `Kernel` are the other steps of the kernel that touch a
job, an attempt or a lease: create, claim, heartbeat, the cancel request and the
clock. A worker's health and a claim that finds nothing change no row a call
reads, so they are left out; so are the unguarded repository writes, which would
end a job and leave its lease open.

Callers are the workers of the kernel. They send contexts made of identifiers of
claims that exist, possibly mixed up (`Contexts`).

### DispatchPipeline

One runtime: `request` is the compile request, `sent` how many jobs it handed
over, `job` and `runtime` the committed rows, `broker` the messages that wait,
`session` the worker session of each job, `crashes` the workers killed so far.

No row is locked here. A worker's transaction loads the runtime (`TakeTask`, or
`Execute` for the second one), reads the job rows and computes the aggregate
(`Refresh`), and commits (`Commit`). The ORM writes only the columns that differ
from what the session loaded, which is `Flush`. `DeriveCompileStatus`,
`DeriveDispatchStatus` and `RefreshRuntimeStatus` are the functions of the same
name in `app/services/runtime_state_service.py`.

The compile request commits the runtime and its queued jobs (`CreateJobs`), sends
them one by one (`Dispatch`), and writes all of them `dispatched` with its last
commit (`FinalCommit`); a broker that refuses a message or a process that dies is
`AbortRequest`. An export job (`CreateExport`) joins the runtime's rows and is
never dispatched. Either transaction of a task may raise before its commit is
through (`Raise`), which leads to the failure handler. `WorkerCrash` kills a worker,
or is a failure handler that raises itself; the message was acknowledged when
it was taken (Celery's default, `app/workers/celery_app.py` does not change it),
so no one runs the task again.

A worker may take a message as soon as it is sent, before the compile request has
committed its dispatch, as the comment at `compiler_service.py:206` says; the
request's last commit then writes over what the worker has committed. The history
variable `overrun` keeps the jobs to which this happened. Nothing in the code reads it: it
lets a property say exactly what that one write breaks and that nothing else does.
The run `pipeline_overwrite` shows the write itself.

### ClaimQueue

A session is one worker's request to claim a job and what follows it; it claims at most
one job, so it stands for its token too. `job`, `lease`, `worker` and `load` are
committed rows; `jobLock`, `leaseLock` and `workerLock` say which session has a row
locked. A statement that needs a locked row is not enabled until the row is free,
except the claim query, which skips locked rows (`Candidates`). A commit writes and
releases everything at once.

A claim is `LockWorker` (`upsert_worker_registration`; `FindNoWorker` and
`InsertRefused` are the ways a new worker's row may collide with another insert),
`Refuse` or `PickJob`, and `CommitClaim`. A heartbeat, completion or failure is
`LockLease`, `LockJob`, `LockOwnWorker` and `CommitReport`. `Abort` is a lost
connection. `ClaimRules` has two actions, `Claim` and `Report`; the refinement maps the
status and token of a job's row to its holder and forgets locks and sessions.

### RuntimeAssets

A run is one delivery of a job's message to a worker (`_run_job`). Its phases follow
the function: the first transaction marks the job running (`StartRun`,
`CommitStart`); then it executes (`Execute`, or `Look`, `Fetch` and `Mux` for a merge);
the second transaction loads job and asset (`LoadArtifact`), registers the asset
(`Register`, the flush that takes the row lock or the key), looks for the object
(`CheckObject`), uploads it (`Upload`) and commits (`CommitSuccess`). `Raise`
is any exception on the way, in the first transaction too; `Rollback`, `LoadFailed` and
`CommitFailure` are its handler, which may itself be refused (`Abandon`). `Crash`
kills the worker: the row lock goes, the object stays. A job may have any number of
runs, as nothing in the code bounds how often a message is delivered.

A job stands for its asset row and its object key, which contains the job's identifier.
`writer` is the run whose uncommitted write holds the row or its key: the only lock
in this part of the code, and nobody asked for it by name. It is what keeps two runs of a
job from both finding no object. `Inherited` jobs are those an older runtime of
the version has left artifacts of.

### RenderContent and ProviderClient

`sequences`, `spus` and `vbus` are rows that editors add (`Edit`) while compile requests
run. Rows are only ever added, so what a query saw is how many there were, and a
packet is three numbers. A request is the queries of `compile_project` in their order:
`ReadSequences`, `Validate`, `ResolveVersion`, `ReadPlan`, `ReadUnits`,
`SelectPrimarySequence`, `BuildImagePayload`, `CommitAndSend`. A worker then takes one
of its jobs (`LoadRuntime` reads the newest runtime of the job's version, whichever
request made it), selects its inputs (`SelectImageInputs`, `SelectVideoInputs`,
`SelectVoiceInputs`, each a class of `executors.py`) and calls the client.

`ProviderClient` has the client (`call`) and the relay (`operation`). `CreateOperation`,
`Look`, `Fetch` and `Download` are the parts of `generate_video`; each `Fetch`
replaces the last answer, and the next is addressed by it. An answer that is null is
refused before it is looked at (`RefuseNullOperation`), and one that no operation can be
read from is `Unreadable`. The relay finishes an
operation whenever it likes and may answer with or without an identifier, with a
url, with `generated_videos` that the HTTP client cannot download, or with no video.

### StudioPage

`page` is the script's variables (`activeRuntime`, `pollTimer`, `lastRuntimeViews`,
the button) and the view that is shown; `handler` are the handlers and ticks that are
suspended at a fetch. `Submit`, `Refresh`, `ClickRuntime` and `Tick` run up to the
first fetch; `Generate` and `FinalCommit`, `GetRuntime`, `ListRuntimes` and `Reject` are
the server's part; `Receive` runs the script from an answer to the next fetch. `intervals`
counts the intervals the browser runs and `timer` says whether the script still
has the handle of one, which need not be the same.

A request to generate commits twice. From the first commit (`Generate`) the runtime is
listed and its queued jobs run; when the dispatch or the second commit fails, the page is
told so and the runtime stays (`Reject`). A row of `server` has the jobs, the columns that
report a failure (`blamed`: `compile_status`, and the error columns) and what is
materialized. The columns are a part of their own because `DispatchPipeline` reaches
rows whose columns do not fit the jobs: `FinalCommit` writes over the jobs and
`compile_status` and leaves the error columns, and each commit about the jobs (`Commit`)
writes what a worker derived from what it saw, or nothing. `OlderRuntimes` is how a
runtime of before may look, any row at all in the proofs. No column of the dispatch ever
says that it failed, so the panels' tests of `dispatch_status` are left out.

`ResultTone`, `ActivityLabel`, `RecentCopy`, `ExportStageTone`, `PreviewSource`,
`InspectionCards` and `ActionHints` are the functions that classify a view, each with
conditions of its own, reduced to which branch is taken.

## Runs

| run | what it checks | bounds | size |
|---|---|---|---|
| `lease_retries` | types, one active lease per job, current and latest claims, lease lifetime, no resurrection, fencing, no claim after a cancel request; `Spec` | 1 job, 2 workers, 2 claims, 1 extension, clock to 2, lag 1 | 732 thousand states |
| `lease_slots` | counters, rows settled together, capacity; `ServiceSpec` | 2 jobs, 2 workers, 2 claims, concurrency 1 or 2, HEALTHY and DRAINING, no clock | 82 thousand |
| `claim_queue` | `ClaimRules` implemented, every request ends; `FairSpec` | 2 jobs, 1 worker with 3 requests, a new worker with 1, window 1 | 134 thousand |
| `terminal_retries` | one report per claim, 409 final, a repeat tells the outcome, the view only moves forward | 1 job, 2 workers, 2 claims, 2 calls, clock to 1 | 1.0 million |
| `pipeline` | no false success, real error codes, real dispatch, failures reported, success final, `JobLifecycle` implemented, tasks end; `FairSpec` | 2 jobs, 1 export, 2 codes, 1 crash, workers may overtake the request | 98 thousand |
| `artifacts` | row, object and job fit together, no object is written twice, runs end; `FairSpec` | a video job delivered three times, a merge, 2 processes, 3 looks, 2 crashes | 268 thousand |
| `render` | types, versions differ | 2 requests, 2 sequences, 1 unit of each kind, 1 poll | 948 thousand |
| `render_plan` | the first prompt is rendered, a video's outcome is real | 1 request, 3 sequences, 2 units with prompts, 2 polls | 2.6 million |
| `studio_page` | one interval, the button, the selection, the panels, polling ends; `FairSpec` | 2 runtimes, the older one in 7 states, 2 handlers at once, 2 user events, 1 commit about the jobs, 1 fault | 680 thousand |
| `pipeline_overwrite`, `pipeline_write_skew`, `terminal_nulls` | one documented promise each, which the code breaks | 2 jobs, or as `terminal_retries` | – |

Why these bounds are enough to be of use:

- Two claims of one job by two workers are what a retry needs: an old owner, a
  new one, a report of either at any point. No property of the kernel relates
  more than two leases, except the slot counters, for which two jobs and a
  concurrency of 2 put two leases on one worker. A clock that reaches 2 with
  timeouts of 1 lets a lease start, pass its deadline and be extended by a call
  whose `now` is one tick old. The safety invariants are proved for every value
  of the bounds (below).
- Two calls are what a repeat, a complete racing a fail and a view racing a
  report need; every property of `TerminalClient` relates at most two calls and
  the state.
- A circle of waiting transactions needs two of them in opposite orders, and a claim that
  skips needs a third that holds what it skips. Three requests of one worker with two
  slots give two reports and a claim, or two claims for the last slot; the new worker
  adds the colliding insert. A window of 1 hides the second job behind the first.
- Three runs of one job are the fewest where the strict half of `JobAndArtifactAgree` can
  end: it speaks of a job of which at most two runs have committed an outcome, among any
  number that were delivered. A third may skip the write of a status that another one has
  changed since it loaded it, and leave a job that says succeeded beside an artifact that
  says failed; what still holds then is the other half, that a succeeded job has its
  object and an ended one its row. The run reaches both sides. The merge's looks, 91 in
  the code, are 3: found at once, found later, given up.
- Two overlapping requests are what a version chosen twice needs. The first prompt needs
  one request among editors, two units that carry prompts of different sequences, and a
  third sequence between them, so these are two runs: together they take tens of
  millions of states. Two polls give the poll loop three looks.
- In the page two handlers under way at once and two user events overlap a tick
  with a click or a submit, and leave room for a late answer. One fault refuses or loses
  one request, be it a generate request between its two commits. The older runtime
  starts in each of the seven situations the panels and the interval tell apart: without
  jobs, with jobs under way, with failed and active jobs, with an export, with an export
  beside a failed job, and twice with columns that report what no job shows. So one
  commit about the jobs is enough to move it while it is shown or polled; the safety
  invariants were also checked once with each of the 48 rows, and are proved for any number of commits.
- The code creates three jobs. With two and the export there is every pair of
  concurrent sessions, each with a job that it does not run; two pipeline jobs also make
  the overrun of one job without the other. The theorems hold for any number. Error codes
  only matter by being different.

Deadlock is checked in the runs of `RuntimeLease`. The other configurations switch it
off because there the system may really stop: one compile request ends with its tasks,
a finite number of calls is answered, every request for a job and every message is
worked off, a page without an interval waits for its user. Where waiting in a circle is
the hazard a liveness property would fail: `RequestsEnd` for the row locks, `RunsEnd`
for the worker processes and the lock of an asset row.

### Fairness

Fairness is assumed only where a property needs it, of processes that are alive, and
never of users, crashes, lost requests or workers that report.

- `TasksEnd` (`DispatchPipeline`): weak fairness of the request thread and of each job's
  task: a server that is alive finishes its request and a worker that is alive takes
  the next message and finishes the task it holds, unless it is killed or its failure
  handler raises. That executing ends is
  justified by the bounded waits of the code: the HTTP timeouts and poll limit of
  `app/providers/google/client.py` and the merge's bounded wait in
  `app/workers/executors.py`; ffmpeg, which runs without a timeout, is taken to end.
- `RunsEnd` (`RuntimeAssets`): weak fairness of each run's `Work`, for the same reasons. It
  does not force the outcome of a step, so that a merge may look in vain.
- `RequestsEnd` (`ClaimQueue`): weak fairness of each session's `Step`, a statement that
  is sent when the one before has returned. The database wakes a waiting statement
  when its row is free; weak fairness does not promise the row to a session that others
  keep overtaking, and the property holds without it because each session makes a
  bounded number of requests.
- `PollingEnds` (`StudioPage`): weak fairness of each suspended handler (a fetch is answered
  or fails) and of the ticks, and of nothing else. No job is taken to end: a killed worker
  leaves one running, a refused dispatch queued, the last commit of a request
  dispatched, and no task runs an export. A runtime with such a job is polled for ever. The
  property says that an interval does not go on without active jobs.

No step of `RuntimeLease` is fair: an abandoned lease may stay active for ever, since
nothing in the repository expires it.

## Findings

Each is a run that TLC must find violated; the line of the repository that says
otherwise is quoted in `PROJECT.json`.

1. `pipeline_overwrite`: the last commit of the compile request writes
   `dispatched` over a job a fast worker has started or finished. A job that had
   finished stays `dispatched`.
2. `pipeline_write_skew`: two tasks that end together each see the other one
   running; all jobs have succeeded and the runtime stays `running`.
3. `terminal_nulls`: the SDK sends `null` for a dictionary the caller left out,
   and the request models refuse it with 422.

Smaller divergences met on the way, which no run checks:

- A repeated report is answered `runtime_lease_conflict`, because the ACTIVE lease is
  looked up first; the operator documents speak of `runtime_state_conflict`.
- The state contract says the start of a task clears the runtime's error
  columns; the code passes `None`, which means "leave alone".
- Two overlapping requests that leave the version to the service get the same one, because
  it is the count of the rows committed so far (`app/services/runtime_version_service.py:17`);
  `docs/contracts/runtime_state_contract.md:82` speaks of one version per runtime within
  a project. A job of the first may then load the packet of the second, which is why
  `FirstPromptIsRendered` speaks of the runtime the job loads.
- The panels of the page differ on a runtime whose error columns report a failure that no
  job shows: the list says "Needs attention" (`app/web_ui.py:2444`), the result says that
  it is rendering (`app/web_ui.py:2459`).
- A job with three runs may say succeeded beside an artifact row that says failed, because
  a status that equals the one loaded is not written (`app/workers/tasks.py:485`).
- After the page has loaded it shows a runtime with active jobs and says that polling
  goes on (`app/web_ui.py:2430`); no interval has been started.
- An image job without a selected sequence calls a method that only the video executor has
  (`app/workers/executors.py:451`); the compiler's own jobs always name a sequence.

## What is proved

Every safety invariant, action property and refinement that a passing run checks is also
a theorem, for every set of jobs, workers, claims, codes, calls, runs and requests and
every bound, from the named assumptions in the modules: times and sizes are natural
numbers, timeouts lie between 1 and `LongestTimeout`, concurrencies are positive, the
null values are not members of the sets they stand beside, and each run, session or call
has the job or worker it belongs to. The theorems that need more say it in their
`ASSUME`, and are named below. Each inductive invariant was first checked on a run's
instance.

### RuntimeLeaseProofs

All under `Spec`, with every repository write, but the last:

- `TypeCorrect`: `TypeOK` is inductive; one lemma per kind of row and per
  operation that writes it.
- `ActiveLeaseCurrent`: an active lease is the current claim of its job, and the
  job is neither claimable nor settled. `OneActiveLeasePerJob` alone is not
  inductive: it says nothing about a claimable job that still has an open
  lease, from which a claim would open a second one. With the job's status in
  the invariant a claim finds no active lease on its job, and a job's token names
  at most one; `OneActiveLease` is then a consequence.
- `CurrentClaimLatest`: no two attempts of a job have the same index and the token names
  the one with the greatest. Inductive with the types and with the count: no attempt's
  index exceeds its job's count, the current one's equals it, and a claim raises it. A
  claim that did not would give two attempts one index.
- `EndedForGood`, `Fenced`, `CancelRequestHonoured`: action properties, each
  from the types and, for fencing, from the checks of `MayReport`.
- `LifetimeBounded`: inductive with the types. A heartbeat is accepted only while
  `until` exceeds the service's `now`, so the new deadline exceeds the old one by
  at most one timeout, however old `now` is.
- `SlotsAccounted`: inductive with the types and the finiteness of the lease
  table, which cardinalities need. A report finds an ACTIVE lease of its worker,
  so the counter is positive and the clamp at 0 changes nothing.
- `CapacityRespected`: a lease is only given within the worker's concurrency. The service
  compares the counter, the property counts the leases; `SlotsAccounted` makes them
  one number before and after the step.
- `RowsSettledTogether`, under `ServiceSpec`, because the repository's unguarded writes
  break it: inductive with `CurrentClaimLatest`, by which a step that settles a job
  touches no other attempt of it.

### TerminalClientProofs

Every step of `TerminalSpec` is a step of the kernel's services (`CallsAreServices`),
so what is proved of the kernel holds below the calls. `TerminalInv` is the rest:

- On a claim that was made a report is accepted exactly as long as the lease is ACTIVE
  (`AcceptedWhileActive`): the other checks of `MayReport` follow from
  `SettledTogether`, `CurrentClaimIsLatest` and `NotEndedOutside`.
- The kernel goes on in one direction (`Forward`): leases close for good, claims are
  added, a succeeded job stays so. A reply or a part of a view that was true when
  it was read is then still true in the direction the property needs, and this is what
  `CallInv` says for each phase of a call.
- `ConflictsAreFinal` and `OneReportAccepted` follow: an accepted report closed its
  lease, and a closed lease accepts nothing. `RepeatedCompletesAreKnown` also needs
  that only a report makes an attempt fail (`FailedByReport`); `ViewsMoveForward`
  that attempts are numbered in the order of their claims (`AttemptsNumbered`).

### DispatchPipelineProofs

Under `Spec`, for workers that start as early as they like and any number of tasks that
stop:

- `PipelineInvariant`: `TypeOK /\ SessionsInOrder /\ RowsTellTheOutcome /\
  RuntimeIsTrue /\ WritesAreTrue`. What the runtime row says is true because what
  any session is about to write into it is true, and that must be said of the
  sessions themselves: the row they loaded and the row they computed are old, and
  both still have to be covered when they are committed. `RowsTellTheOutcome`
  relates the status of a job to the session that ran it, which is what a refresh
  turns into a claim about the runtime.
- `PipelineTypes`, `SuccessIsReal`, `ErrorsAreReal`, `DispatchIsReal`: consequences.
- Lemmas on the operators: the greatest failed job exists (`GreatestJob`), what
  a summary lists, what a refresh returns (`RefreshEffect`), what a flush writes.
- `StatusesFollowTheContract`: the pipeline implements `JobLifecycle`, each step of it
  being a step or a stutter there. It needs `InOrder`: a job's row keeps pace with its
  task, but for the jobs the request's last commit wrote over. That commit is the one
  step of `JobLifecycle` (`SetBack`) that takes a status back, and it happens at most once.
- `SuccessStays`: a runtime that says succeeded has all its tasks behind it
  (`NoFalseSuccess`), so nobody writes its row but the request, if it is still under way;
  and that commit then writes over the jobs, which the property names.
- `FailuresAreReported`, for as long as no task stopped without committing its end
  (`crashes = 0`) and the last commit wrote over nothing (`overrun = {}`), both parts of
  the property: the reported failure is not an
  invariant while tasks run, since a task that loaded the row before the failure may
  still write `running` over it. `FailureStands` says
  what stays true: a failure is in the runtime's row, or a task under way has yet to
  write (`Corrects`), and nobody who has seen a failure or a code takes it back. A
  killed worker corrects nothing any more: a failure it has written over stays lost.

### ClaimQueueProofs

- `LocksKeepKnowledge`: a transaction acts on what it read some statements before, and
  `LockInv` says at each point what it still knows and by which lock: the picked job
  still queued and the slot free, the lease of a report still there and its job still
  the token's. `StepFrame` is the reason: a step changes rows only under locks of its
  own and takes no lock from another transaction. The counter must equal the number of
  leases (`LoadIsLeases`), or the decrement of a report could be clamped.
- `TransactionsFollowTheRules`: the interleaved statements implement `ClaimRules`. A commit
  is a `Claim` or a `Report`, every other statement a stutter.

### RuntimeAssetsProofs

- `TypeCorrect`; `MaterializedAssetsHaveObjects` and `StoredOnce` from `ObjectInv`: between
  its flush and its commit a run has the asset's row or key to itself (`LockIsHeld`),
  so nothing was stored since it looked (`UploadsToFreeKey`) and what it will
  commit is the object's (`EtagIsCurrent`).
- `JobsAgreeWithArtifacts`, for any number of runs of a job. A run skips the write of a
  status that is the one it loaded, so what matters is whether that is still there.
  `AgreementInv` counts the outcomes committed (`Settled`) and not the runs: a final status
  that a run has loaded is the outcome of another, and as long as only one outcome has
  been committed it is still the job's, or the job has been marked running since. A
  second commit may make it stale, and the third that skips on it is the exception the
  property names.

### RenderContentProofs

`RenderInv` has one part per actor. Rows are only added, so that what a query saw stays
(`KeepsRequest`, `KeepsRuntime`, `KeepsFirstPrompt`).

- `VideoOutcomesAreReal`, from `ClientInv`: an answer that ends the polling tells the
  state of the operation, a finished operation stays as it is, and what was
  concluded was concluded from such an answer. An invalid response before any answer
  was read, to the request that creates the operation, tells nothing of it.
- `LaterRequestsGetNewVersions`: a version chosen by the count is one more than the count,
  and the count is behind the place of the row.
- `VideosShowTheFirstPrompt`: the selector of a request comes first among the
  sequences of its own packet (`ComesFirst`), although a later query chooses it,
  because that query saw the packet's sequences and perhaps more. Naming it first needs a least index, hence `LeastNumber`.

### StudioPageProofs

`StudioInv` says of the page that there is an interval exactly if the script has its
handle, and that what it selects, lists and shows the server has; of each handler, that
what it waits for fits its kind and is about such runtimes (`HandlerOK`).

- `ButtonIsEnabledAgain`, `SelectedRuntimeIsShown`: inductive with these. A handler is named
  as the reason for a disabled button or for a panel that is behind, and each `Receive`
  hands the reason on or takes its effect away.
- `PanelsTellTheSame`: of every view there is, whatever its columns and jobs
  (`PanelsOfView`). The export stage, the list's copy and the result read different
  columns, so three of the equivalences need a failed job behind what the columns report
  (`OnlyColumnsFail`). Without one the list may say "Needs attention" of a runtime whose
  result is "Rendering now"; what always holds is that the panels announce an export
  together and that the list hides no failure the result shows.

### What is only model-checked

The liveness properties `TasksEnd`, `RunsEnd`, `RequestsEnd` and `PollingEnds`: liveness
under fairness and ENABLED are out of the proof system's reach. The three properties the
code breaks are counterexamples and no theorems. No module has a recursive definition whose
value for every input would need an induction over data.


## What is not modelled

- The rows a property does not look at: payloads, metadata, metrics, reasons,
  wording of errors, the terminal view's copies of columns.
- The broker, the database, the object store, the relay and ffmpeg themselves. The broker
  is a set of messages that are acknowledged when taken and, in `RuntimeAssets`, may be
  delivered any number of times; the database commits a transaction at once and reads committed
  rows; row locks and the unique index are modelled where the code relies on
  them. Everything external returns or raises.
- Of the executors, how a prompt is worded and options are coerced: no property depends
  on it. Of the client, the decoding of media, but for an empty or missing one. Of the
  packet, bridges, which no job reads.
- Of the page, the form with its presets and segments, and the markup.
- The job row's copy of the lease deadline is modelled (`leaseUntil`), but nothing
  in the code reads it to decide anything, so no property is about it.
- The blueprint compiler and its SDK: a function from one document to rows, in one
  transaction, with validators field by field. The operations scripts: command line
  programs that send one request after the other. The CRUD routes insert or list rows
  of one table in one transaction, the migrations and the configuration run before
  anything else. None of them keeps state whose order of steps could go wrong.

## Plan

Done, in this order: `RuntimeLease` and its proofs; `DispatchPipeline` over
`JobLifecycle` and its proofs; `TerminalClient` over `RuntimeLease`; `ClaimQueue` over
`ClaimRules`; `RuntimeAssets`; `RenderContent` over `ProviderClient`; `StudioPage`; then
the proofs of the kernel's slots and rows, of `ClaimQueue`, `RuntimeAssets`,
`TerminalClient`, `RenderContent` and `StudioPage`, and the refinement of `JobLifecycle`.

What is left, the most useful first:

1. **`RuntimeLease` and `ClaimQueue`**: `RuntimeLease` itself implements `ClaimRules` under
   `ServiceSpec` (a job's holder is the worker of its active lease), so that one
   abstract specification stands above both descriptions of the kernel.
2. **Pipeline**: the weaker form of `FailureIsReported` that still holds after a worker was
   killed: a failure is lost only if that worker had written over it.
3. **Safety halves of the liveness properties**: a transaction that waits for a lock waits
   for one that comes later in the lock order (`RequestsEnd`); a run that waits for a
   row waits for a run that does not (`RunsEnd`).
