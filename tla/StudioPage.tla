----------------------------- MODULE StudioPage -----------------------------
(***************************************************************************)
(* The studio page and the routes it calls: the page creates runtimes,     *)
(* lists them, shows one of them and polls it while it has active jobs     *)
(* (app/web_ui.py, app/api/v1/routes/studio.py).                           *)
(*                                                                         *)
(* The script runs one callback at a time, but a handler is suspended at   *)
(* each fetch, so handlers and interval ticks overlap: an answer says how  *)
(* things were when the server made it, and answers come in any order or   *)
(* not at all.                                                             *)
(*                                                                         *)
(* Of a runtime the model keeps what the page tells apart.  The aggregate  *)
(* columns of its row need not fit its jobs: they are written from what a  *)
(* worker has read, by several transactions that overlap, and the last     *)
(* commit of the compile request overwrites both (DispatchPipeline).  The  *)
(* form is left out.                                                       *)
(***************************************************************************)
EXTENDS Integers, Sequences, SequencesExt

CONSTANTS
    Handlers,       \* numbers of the handlers and ticks that may be under way at once
    Idle, NoView,
    OlderRuntimes,  \* what a runtime of before the page was loaded may look like
    MaxRuntimes,    \* bounds on the runtimes, on the events of the user, on the
    MaxEvents,      \* commits about their jobs and on the requests that fail
    MaxCommits,
    MaxFaults

ASSUME BoundsAreNatural ==
    /\ Handlers \subseteq Nat
    /\ MaxRuntimes \in 1..5 /\ MaxEvents \in Nat
    /\ MaxCommits \in Nat /\ MaxFaults \in Nat

VARIABLES
    server,         \* the compiled_runtimes rows with their jobs and assets
    page,           \* the variables of the script and what the page shows
    handler,        \* where each handler is suspended
    events, commits, faults

vars == <<server, page, handler, events, commits, faults>>

----------------------------------------------------------------------------
\* jobs: does the runtime have active ones, failed ones; blamed: which of its own columns
\* report a failure, last_error being the code and the message; assets: what of it is
\* materialized, an export being one of the assets.
Rows ==
    [jobs: SUBSET {"active", "failed"}, blamed: SUBSET {"compile_status", "last_error"},
     assets: {"none", "media", "export"}]

ASSUME OlderRuntimesAreRows == OlderRuntimes \subseteq Rows

Views ==
    [runtime: 1..MaxRuntimes,
     jobs: SUBSET {"active", "failed"}, blamed: SUBSET {"compile_status", "last_error"},
     assets: {"none", "media", "export"}]

\* The queued jobs of a new runtime.
Queued == [jobs |-> {"active"}, blamed |-> {}, assets |-> "none"]

\* timer: is pollTimer set; intervals: how many intervals are running; list: the
\* runtimes in lastRuntimeViews.
Pages ==
    [activeRuntime: 0..MaxRuntimes, timer: BOOLEAN, intervals: 0..1, disabled: BOOLEAN,
     list: SUBSET (1..MaxRuntimes), shown: Views \cup {NoView}]

\* force: is the list asked for with forcePreferred; polls: did the view that a submit
\* waited for have active jobs.
HandlerRecords ==
    [kind: {"load", "submit", "refresh", "click", "tick"},
     stage: {"generate", "dispatching", "created", "poll", "polled", "list", "listed", "rejected"},
     runtime: 0..MaxRuntimes, views: Seq(Views), polls: BOOLEAN]

ASSUME IdleIsNoHandler == Idle \notin HandlerRecords

NewHandler(kind, stage, n) ==
    [kind |-> kind, stage |-> stage, runtime |-> n, views |-> <<>>, polls |-> FALSE]

\* The page loads and asks for the list at once.
Init ==
    /\ server \in {<<>>} \cup {<<row>> : row \in OlderRuntimes}
    /\ page = [activeRuntime |-> 0, timer |-> FALSE, intervals |-> 0, disabled |-> FALSE,
               list |-> {}, shown |-> NoView]
    /\ handler = [h \in Handlers |-> IF \A g \in Handlers : h <= g
                                    THEN NewHandler("load", "list", 0) ELSE Idle]
    /\ events = 0 /\ commits = 0 /\ faults = 0

----------------------------------------------------------------------------
(* What a view looks like *)

\* runtimeHasActiveJobs
HasActiveJobs(v) == "active" \in v.jobs

\* final_export, and the materialized assets.
HasExport(v) == v.assets = "export"
HasMedia(v) == v.assets # "none"

\* runtimeFailureCluster, by the labels of its items.  No column of the dispatch ever
\* says failed.
FailureCluster(v) ==
    (IF "compile_status" \in v.blamed THEN {"Compile"} ELSE {})
    \cup (IF "failed" \in v.jobs THEN {"Job"} ELSE {})
    \cup (IF "last_error" \in v.blamed THEN {"Last Error"} ELSE {})

\* hasFailure, which leaves the error columns out.
HasFailure(v) == "compile_status" \in v.blamed \/ "failed" \in v.jobs

\* Mutant: active jobs come before a failure.
ActiveFirst(v) ==
    CASE HasExport(v) -> "ok"
      [] ~HasExport(v) /\ HasActiveJobs(v) -> "warn"
      [] ~HasExport(v) /\ ~HasActiveJobs(v) /\ HasFailure(v) -> "bad"
      [] OTHER -> "neutral"

\* runtimeResultState
ResultTone(v) ==
    CASE HasExport(v) -> "ok"
      [] ~HasExport(v) /\ HasFailure(v) -> "bad"
      [] ~HasExport(v) /\ ~HasFailure(v) /\ HasActiveJobs(v) -> "warn"
      [] OTHER -> "neutral"

\* runtimeActivityState
ActivityLabel(v) ==
    IF HasExport(v) THEN "Ready to review"
    ELSE IF HasFailure(v) THEN "Needs attention"
    ELSE IF HasActiveJobs(v) THEN "Rendering now"
    ELSE IF HasMedia(v) THEN "Intermediate outputs" ELSE "Awaiting output"

ToneOfLabel ==
    [label \in {"Ready to review", "Needs attention", "Rendering now",
                "Intermediate outputs", "Awaiting output"} |->
        CASE label = "Ready to review" -> "ok"
          [] label = "Needs attention" -> "bad"
          [] label = "Rendering now" -> "warn"
          [] OTHER -> "neutral"]

\* recentRuntimeCopy
RecentCopy(v) ==
    IF HasExport(v) THEN "Final export ready"
    ELSE IF FailureCluster(v) # {} THEN "Needs attention"
    ELSE IF HasActiveJobs(v) THEN "Rendering now"
    ELSE IF HasMedia(v) THEN "Intermediate outputs available" ELSE "Awaiting output"

\* runtimeStageSummary: the export stage takes the result's tone, which looks at
\* compile_status, unless the jobs or the media say otherwise.
ExportStageTone(v) ==
    IF HasExport(v) THEN ResultTone(v)
    ELSE IF "failed" \in v.jobs THEN "bad"
    ELSE IF HasActiveJobs(v) THEN "warn"
    ELSE IF HasMedia(v) THEN "neutral" ELSE ResultTone(v)

\* runtimePreviewSource
PreviewSource(v) ==
    IF HasExport(v) THEN "final_export"
    ELSE IF HasMedia(v) THEN "intermediate_asset" ELSE "none"

\* runtimeInspectionCards
InspectionCards(v) ==
    LET blocked == IF FailureCluster(v) # {} THEN {"Blocked by failures"} ELSE {}
        ready == IF HasExport(v) THEN {"Final export"} ELSE {}
        media == IF HasMedia(v) THEN {"Intermediates"} ELSE {}
        waiting == IF HasActiveJobs(v)
                   THEN {IF HasMedia(v) THEN "More renders still running"
                         ELSE "Waiting for first inspectable output"}
                   ELSE {}
        kickoff == IF ~HasMedia(v) /\ ~HasActiveJobs(v) /\ FailureCluster(v) = {}
                   THEN {"Awaiting upstream kickoff"} ELSE {}
    IN blocked \cup ready \cup media \cup waiting \cup kickoff

\* runtimeActionHints
ActionHints(v) ==
    (IF HasExport(v) THEN {"preview the export", "deliver the export"} ELSE {})
    \cup (IF FailureCluster(v) # {} THEN {"open the failure cluster"} ELSE {})
    \cup (IF ~HasExport(v) /\ HasMedia(v) THEN {"check the media"} ELSE {})
    \cup (IF HasActiveJobs(v) THEN {"polling goes on"} ELSE {})
    \cup (IF ~HasExport(v) /\ ~HasMedia(v) /\ ~HasActiveJobs(v) /\ FailureCluster(v) = {}
          THEN {"wait or switch"} ELSE {})

----------------------------------------------------------------------------
(* The script between two fetches *)

Clear(p) ==
    [p EXCEPT !.timer = FALSE, !.intervals = IF p.timer THEN @ - 1 ELSE @]

Start(p) == [p EXCEPT !.timer = TRUE, !.intervals = @ + 1]

Enable(p) == [p EXCEPT !.disabled = FALSE]

\* renderRuntime: all panels show one view.
Show(p, v) == [p EXCEPT !.activeRuntime = v.runtime, !.shown = v]

\* renderRecentRuntimes
ShowRecent(p, list) == [p EXCEPT !.list = list]

\* The answer to a poll takes its place in a list that is there.
Merged(list, v) == IF list = {} THEN list ELSE list \cup {v.runtime}

\* Mutant: an answer does not move the selection.
ShowOnly(p, v) ==
    LET q == [p EXCEPT !.shown = v, !.list = Merged(p.list, v)]
    IN IF ~HasActiveJobs(v) /\ p.timer THEN Enable(Clear(q)) ELSE q

\* Mutant: the interval of a runtime that has ended goes on.
ShowAndPoll(p, v) ==
    ShowRecent(Show(p, v), Merged(p.list, v))

\* pollRuntime, when its answer comes.
ShowPolled(p, v) ==
    LET q == ShowRecent(Show(p, v), Merged(p.list, v))
    IN IF ~HasActiveJobs(v) /\ p.timer THEN Enable(Clear(q)) ELSE q

\* preferredRuntimeView: an export, or else the newest.  The runtimes whose
\* compile_status is completed come in between, and there are none.
PreferredView(views) ==
    LET exported == {i \in DOMAIN views : HasExport(views[i])}
    IN IF exported = {} THEN views[1]
       ELSE views[CHOOSE i \in exported : \A j \in exported : i <= j]

\* selectedRuntimeView
SelectedView(p, views, force) ==
    LET exact == {i \in DOMAIN views : views[i].runtime = p.activeRuntime}
    IN IF ~force /\ exact # {} THEN views[CHOOSE i \in exact : TRUE] ELSE PreferredView(views)

\* refreshRecentRuntimes and syncRuntimeConsumption, when the answer comes.
ShowListed(p, views, force) ==
    LET q == ShowRecent(p, {views[i].runtime : i \in DOMAIN views})
        v == SelectedView(p, views, force)
    IN IF views = <<>>
       THEN Enable(Clear([q EXCEPT !.activeRuntime = 0, !.shown = NoView]))
       ELSE IF HasActiveJobs(v) THEN Show(q, v) ELSE Enable(Clear(Show(q, v)))

\* Mutant: the interval that runs is not cleared.
StartAnother(p, v) == IF HasActiveJobs(v) THEN Start(p) ELSE Clear(p)

\* The rest of the click handler.
AfterClick(p, v) == IF HasActiveJobs(v) THEN Start(Clear(p)) ELSE Clear(p)

\* Mutant: a runtime that ended at once leaves the button as it is.
StayDisabled(p, polls) == IF polls THEN Start(Clear(p)) ELSE Clear(p)

\* The rest of the submit handler.
AfterSubmit(p, polls) == IF polls THEN Start(Clear(p)) ELSE Enable(Clear(p))

\* showError
ShowError(p) == [p EXCEPT !.shown = NoView]

----------------------------------------------------------------------------
(* The events that start a handler *)

\* Handlers are alike: a new one takes the first that is free.
Free(h) ==
    /\ handler[h] = Idle
    /\ \A g \in Handlers : handler[g] = Idle => h <= g

Begin(h, kind, stage, n) == handler' = [handler EXCEPT ![h] = NewHandler(kind, stage, n)]

UserEvent ==
    /\ events < MaxEvents
    /\ events' = events + 1
    /\ UNCHANGED <<server, commits, faults>>

\* The button is disabled and the result says that a runtime is being created.
Submit(h) ==
    /\ Free(h) /\ UserEvent
    /\ ~page.disabled
    /\ page' = [page EXCEPT !.disabled = TRUE, !.shown = NoView]
    /\ Begin(h, "submit", "generate", 0)

Refresh(h) ==
    /\ Free(h) /\ UserEvent
    /\ Begin(h, "refresh", "list", 0)
    /\ UNCHANGED page

ClickRuntime(h) ==
    /\ Free(h) /\ UserEvent
    /\ \E n \in page.list :
          /\ page' = [page EXCEPT !.activeRuntime = n]
          /\ Begin(h, "click", "poll", n)

Tick(h) ==
    /\ Free(h)
    /\ page.intervals > 0
    /\ Begin(h, "tick", "poll", page.activeRuntime)
    /\ UNCHANGED <<server, page, events, commits, faults>>

----------------------------------------------------------------------------
(* The routes *)

\* get_runtime reads the row, the jobs and the assets; as the columns of a row need not
\* fit its jobs anyway, one step shows what three do.
ViewOf(n) ==
    [runtime |-> n, jobs |-> server[n].jobs, blamed |-> server[n].blamed,
     assets |-> server[n].assets]

Waiting(h, stage) == handler[h] # Idle /\ handler[h].stage = stage

Answering == UNCHANGED <<page, events, commits>>

\* generate_video, up to the commit of the runtime with its queued jobs: from here on
\* it is listed and its jobs run.
Generate(h) ==
    /\ Waiting(h, "generate")
    /\ Len(server) < MaxRuntimes
    /\ server' = Append(server, Queued)
    /\ handler' = [handler EXCEPT ![h].stage = "dispatching", ![h].runtime = Len(server) + 1]
    /\ UNCHANGED faults /\ Answering

\* The last commit of generate_video: it writes its jobs and compile_status as dispatched,
\* whatever the workers have written, and leaves the error columns and other requests' jobs.
FinalCommit(h) ==
    /\ Waiting(h, "dispatching")
    /\ LET n == handler[h].runtime
       IN \E jobs \in {{"active"}, server[n].jobs \cup {"active"}} :
             server' = [server EXCEPT ![n].jobs = jobs, ![n].blamed = @ \ {"compile_status"}]
    /\ handler' = [handler EXCEPT ![h].stage = "created"]
    /\ UNCHANGED faults /\ Answering

\* get_runtime
GetRuntime(h) ==
    /\ Waiting(h, "poll")
    /\ handler' = [handler EXCEPT ![h].stage = "polled", ![h].views = <<ViewOf(handler[h].runtime)>>]
    /\ UNCHANGED <<server, faults>> /\ Answering

\* list_runtimes: the newest first.
ListRuntimes(h) ==
    /\ Waiting(h, "list")
    /\ handler' = [handler EXCEPT ![h].stage = "listed",
                     ![h].views = Reverse([n \in 1..Len(server) |-> ViewOf(n)])]
    /\ UNCHANGED <<server, faults>> /\ Answering

\* The request is refused, or it or its answer is lost.  A generate request that the
\* broker or the last commit refuses leaves the runtime there, with its queued jobs.
Reject(h) ==
    /\ \E stage \in {"generate", "dispatching", "created", "poll", "list"} : Waiting(h, stage)
    /\ \/ /\ faults < MaxFaults
          /\ faults' = faults + 1
       \/ /\ Waiting(h, "generate") /\ Len(server) = MaxRuntimes
          /\ UNCHANGED faults
    /\ handler' = [handler EXCEPT ![h].stage = "rejected"]
    /\ UNCHANGED server /\ Answering

----------------------------------------------------------------------------
(* The answers *)

Receiving == UNCHANGED <<server, events, commits, faults>>

ReceiveCreated(h) ==
    /\ Waiting(h, "created")
    /\ page' = [page EXCEPT !.activeRuntime = handler[h].runtime]
    /\ handler' = [handler EXCEPT ![h].stage = "poll"]
    /\ Receiving

ReceiveView(h) ==
    /\ Waiting(h, "polled")
    /\ LET v == handler[h].views[1]
           p == ShowPolled(page, v)
       IN CASE handler[h].kind = "tick" ->
                 page' = p /\ handler' = [handler EXCEPT ![h] = Idle]
            [] handler[h].kind = "click" ->
                 page' = AfterClick(p, v) /\ handler' = [handler EXCEPT ![h] = Idle]
            [] handler[h].kind = "submit" ->
                 /\ page' = p
                 /\ handler' = [handler EXCEPT ![h] =
                                  [NewHandler("submit", "list", 0) EXCEPT !.polls = HasActiveJobs(v)]]
    /\ Receiving

ReceiveList(h) ==
    /\ Waiting(h, "listed")
    /\ LET p == ShowListed(page, handler[h].views, handler[h].kind = "refresh")
       IN page' = IF handler[h].kind = "submit" THEN AfterSubmit(p, handler[h].polls) ELSE p
    /\ handler' = [handler EXCEPT ![h] = Idle]
    /\ Receiving

\* The catch of each handler; the one of the page load ignores the error.
ReceiveError(h) ==
    /\ Waiting(h, "rejected")
    /\ page' = CASE handler[h].kind = "load" -> page
                 [] handler[h].kind = "submit" -> ShowError(Enable(page))
                 [] OTHER -> ShowError(page)
    /\ handler' = [handler EXCEPT ![h] = Idle]
    /\ Receiving

----------------------------------------------------------------------------
(* The jobs *)

\* A commit about the jobs of runtime n, with the columns a worker derives from the jobs
\* it has read or, if it skips the write, as they are.
Commit(n, jobs, assets) ==
    /\ commits < MaxCommits
    /\ commits' = commits + 1
    /\ \E blamed \in {server[n].blamed,
                       IF "failed" \in jobs THEN {"compile_status", "last_error"} ELSE {}} :
          server' = [server EXCEPT ![n] = [jobs |-> jobs, blamed |-> blamed, assets |-> assets]]
    /\ UNCHANGED <<page, handler, events, faults>>

\* Are there active jobs besides the one that ends?
Remaining(n) == {server[n].jobs, server[n].jobs \ {"active"}}

\* A job succeeds, and may materialize an asset; with media there a merge may succeed.
JobSucceeds(n) ==
    /\ "active" \in server[n].jobs
    /\ \E jobs \in Remaining(n) :
          \/ Commit(n, jobs, server[n].assets)
          \/ Commit(n, jobs, IF server[n].assets = "none" THEN "media" ELSE "export")

\* A job fails; the failed run may be a second one and take the asset with it.
JobFails(n) ==
    /\ "active" \in server[n].jobs
    /\ \E jobs \in Remaining(n) :
          \/ Commit(n, jobs \cup {"failed"}, server[n].assets)
          \/ Commit(n, jobs \cup {"failed"}, IF HasExport(server[n]) THEN "media" ELSE "none")

\* A job that has failed runs again, as its message is delivered once more.
JobRunsAgain(n) ==
    /\ "failed" \in server[n].jobs
    /\ \E jobs \in {{"active"}, {"active", "failed"}} : Commit(n, jobs, server[n].assets)

\* Another client adds a merge job, or an export job that stays queued.
AddJob(n) ==
    /\ commits < MaxCommits
    /\ commits' = commits + 1
    /\ server' = [server EXCEPT ![n].jobs = @ \cup {"active"}]
    /\ UNCHANGED <<page, handler, events, faults>>

----------------------------------------------------------------------------
Serve(h) == Generate(h) \/ FinalCommit(h) \/ GetRuntime(h) \/ ListRuntimes(h) \/ Reject(h)

Receive(h) == ReceiveCreated(h) \/ ReceiveView(h) \/ ReceiveList(h) \/ ReceiveError(h)

User(h) == Submit(h) \/ Refresh(h) \/ ClickRuntime(h)

Next ==
    \/ \E h \in Handlers : User(h) \/ Tick(h) \/ Serve(h) \/ Receive(h)
    \/ \E n \in DOMAIN server :
          JobSucceeds(n) \/ JobFails(n) \/ JobRunsAgain(n) \/ AddJob(n)

Spec == Init /\ [][Next]_vars

\* Requests are answered or fail, and the interval goes on.  The jobs and the user do
\* what they like.
FairSpec ==
    /\ Spec
    /\ \A h \in Handlers : WF_vars(Serve(h) \/ Receive(h))
    /\ WF_vars(\E h \in Handlers : Tick(h))

----------------------------------------------------------------------------
(* Properties *)

\* The type invariant.  At most one interval runs, whatever handlers overlap.
TypeOK ==
    /\ server \in Seq(Rows) /\ Len(server) <= MaxRuntimes
    /\ page \in Pages
    /\ handler \in [Handlers -> HandlerRecords \cup {Idle}]
    /\ events \in 0..MaxEvents /\ commits \in 0..MaxCommits /\ faults \in 0..MaxFaults

\* The submit button is never left disabled for nothing: there is a submit under way
\* or an interval, and both enable it in the end.
LockHasReason ==
    page.disabled =>
        page.timer \/ \E h \in Handlers : handler[h] # Idle /\ handler[h].kind = "submit"

\* The runtime that is shown is the selected one, except while the answer that a
\* click or a submit waits for is still to come.
SelectionIsShown ==
    page.shown # NoView =>
        \/ page.shown.runtime = page.activeRuntime
        \/ \E h \in Handlers :
              /\ handler[h] # Idle /\ handler[h].kind \in {"click", "submit"}
              /\ handler[h].runtime = page.activeRuntime

\* The columns report a failure that no job shows.
OnlyColumnsFail(v) == v.blamed # {} /\ "failed" \notin v.jobs

\* The panels that classify a view each on their own agree.  The result and the list's
\* label never differ; an export is announced by all or by none, a failure by the cards
\* and the hints together; and what the result calls a failure the list's copy does.  The
\* result, the copy and the export stage look at different columns, so they are of one
\* mind only when a failed job stands behind what the columns report.
PanelsAgree ==
    LET v == page.shown
        tone == ResultTone(v)
    IN v # NoView =>
        /\ tone = ToneOfLabel[ActivityLabel(v)]
        /\ PreviewSource(v) = "final_export" <=> tone = "ok"
        /\ RecentCopy(v) = "Final export ready" <=> tone = "ok"
        /\ ExportStageTone(v) = "ok" <=> tone = "ok"
        /\ "Blocked by failures" \in InspectionCards(v) <=> "open the failure cluster" \in ActionHints(v)
        /\ "Awaiting upstream kickoff" \in InspectionCards(v) <=> "wait or switch" \in ActionHints(v)
        /\ tone = "bad" => RecentCopy(v) = "Needs attention"
        /\ ExportStageTone(v) = "bad" => tone = "bad"
        /\ ~OnlyColumnsFail(v) =>
              /\ RecentCopy(v) = "Needs attention" <=> tone = "bad"
              /\ RecentCopy(v) = "Rendering now" <=> tone = "warn"
              /\ ExportStageTone(v) = tone

\* Polling ends: the interval does not go on and on with a selected runtime that has no
\* active jobs, whatever late answers, clicks and submits come in between.  A runtime
\* whose jobs stay active for ever, because no task runs them or their worker was killed,
\* is polled for ever.
PollingEnds ==
    \A n \in 1..MaxRuntimes :
        LET PolledForNothing ==
                /\ page.intervals > 0 /\ page.activeRuntime = n
                /\ n <= Len(server) /\ "active" \notin server[n].jobs
        IN PolledForNothing ~> ~PolledForNothing

=============================================================================
