--------------------------- MODULE TerminalClient ---------------------------
(***************************************************************************)
(* The terminal operations of the kernel as a caller sees them: a worker   *)
(* reports the end of an attempt, and reads the terminal view of a job,    *)
(* through the SDK (app/runtime_terminal_sdk/client.py), over HTTP         *)
(* (app/api/v1/routes/runtime_terminal.py) and the facade                  *)
(* (app/services/runtime_terminal_facade.py).                              *)
(*                                                                         *)
(* A call is one request and at most one reply.  The SDK never repeats a   *)
(* request; it gives up after its timeout, and the request it gave up on   *)
(* may be lost, may be handled later, or may have been handled already.    *)
(* A report is one transaction.  The view is three reads without a lock,   *)
(* each of which sees the rows committed at that moment.                   *)
(***************************************************************************)
EXTENDS RuntimeLease

CONSTANTS
    Calls,      \* the calls callers make, each made once
    Failures,   \* what fail_job may report: [ending, next, expire]
    NoCall      \* the contents of a call that was not made

ASSUME FailuresAreReports ==
    Failures \subseteq [ending: FailedAttemptStatuses, next: JobStatuses, expire: BOOLEAN]

VARIABLE call

terminalVars == <<vars, call>>

----------------------------------------------------------------------------
Replies == {"ok", "job_not_found", "lease_conflict", "state_conflict", "invalid", "server_error"}

\* What the SDK returns or raises for a reply; "transport" when there is none.
Outcomes == {"result", "not_found", "conflict", "validation", "server", "transport"}

\* metadata_json and error_payload_json: an object, or null.
Dictionaries == {"object", "null"}

Requests ==
    [op: {"complete"}, report: Reports, dictionaries: Dictionaries]
    \cup [op: {"fail"}, report: Reports, dictionaries: Dictionaries, failure: Failures]
    \cup [op: {"snapshot"}, job: Jobs]

\* The part of RuntimeJobTerminalView that relates the three rows.
EmptyView ==
    [status |-> "ABSENT", attemptCount |-> 0,
     attempt |-> NoClaim, index |-> 0, attemptStatus |-> "CLAIMED", lease |-> NoClaim]

Views ==
    [status: JobStatuses, attemptCount: Nat, attempt: Claims \cup {NoClaim},
     index: Nat, attemptStatus: AttemptStatuses, lease: Claims \cup {NoClaim}]

CallRecords ==
    [request: Requests \cup {NoCall},
     phase: {"idle", "sent", "job_read", "attempt_read", "answered"},
     reply: Replies \cup {"none"},
     outcome: Outcomes \cup {"none"},
     view: Views]

TerminalInit ==
    /\ Init
    /\ call = [k \in Calls |->
                 [request |-> NoCall, phase |-> "idle", reply |-> "none",
                  outcome |-> "none", view |-> EmptyView]]

----------------------------------------------------------------------------
(* The caller *)

\* The contexts a caller can hold: identifiers of claims that were made, which it
\* may have mixed up.
Contexts == {r \in Reports : {r.token, r.attempt} \subseteq DOMAIN lease}

Send(k, request) ==
    /\ call[k].phase = "idle"
    /\ call' = [call EXCEPT ![k].phase = "sent", ![k].request = request]
    /\ UNCHANGED vars

\* The payload names every field: what the caller leaves out is sent as null.
Payload(given) == IF given THEN "object" ELSE "null"

SendReport(k) ==
    \E r \in Contexts, given \in BOOLEAN :
        \/ Send(k, [op |-> "complete", report |-> r, dictionaries |-> Payload(given)])
        \/ \E f \in Failures :
              Send(k, [op |-> "fail", report |-> r, dictionaries |-> Payload(given),
                       failure |-> f])

SendSnapshot(k) == \E j \in Jobs : Send(k, [op |-> "snapshot", job |-> j])

\* Mutant: 422 is not told from other errors.
RaisedWithoutValidation(reply) ==
    CASE reply = "ok" -> "result"
      [] reply = "job_not_found" -> "not_found"
      [] reply \in {"lease_conflict", "state_conflict"} -> "conflict"
      [] reply = "server_error" -> "server"
      [] OTHER -> "error"

\* _request: the class of the exception depends on the status code alone.  The server
\* answers none of the other 4xx codes, which would raise the base class.
Raised(reply) ==
    CASE reply = "ok" -> "result"
      [] reply = "job_not_found" -> "not_found"
      [] reply \in {"lease_conflict", "state_conflict"} -> "conflict"
      [] reply = "invalid" -> "validation"
      [] reply = "server_error" -> "server"

Receive(k) ==
    /\ call[k].phase = "answered"
    /\ call[k].outcome = "none"
    /\ call' = [call EXCEPT ![k].outcome = Raised(call[k].reply)]
    /\ UNCHANGED vars

\* The SDK gives up, wherever the request or its reply is.
TimeOut(k) ==
    /\ call[k].phase # "idle"
    /\ call[k].outcome = "none"
    /\ call' = [call EXCEPT ![k].outcome = "transport"]
    /\ UNCHANGED vars

----------------------------------------------------------------------------
(* The server *)

Answer(k, reply) == call' = [call EXCEPT ![k].phase = "answered", ![k].reply = reply]

Arrived(k, op) == call[k].phase = "sent" /\ call[k].request.op = op

\* CompleteJobRequest and FailJobRequest, checked before the handler runs: a
\* dictionary may be left out but not null, and the next status is one of three.
Valid(request) ==
    /\ request.dictionaries # "null"
    /\ request.op = "fail" => request.failure.next \in FailureNextStatuses

Invalid(k) ==
    /\ Arrived(k, "complete") \/ Arrived(k, "fail")
    /\ ~Valid(call[k].request)
    /\ Answer(k, "invalid")
    /\ UNCHANGED vars

\* Mutant: a repeated complete_job is answered like the first.
CompleteCallAgain(k) ==
    /\ Arrived(k, "complete")
    /\ Valid(call[k].request)
    /\ LET r == call[k].request.report IN
       \/ CompleteJob(r)
       \/ attempt[r.attempt].status = "COMPLETED" /\ UNCHANGED vars
    /\ Answer(k, "ok")

\* The transaction commits.  The reply is an error all the same when the server
\* cannot tell that it did.
CompleteCall(k) ==
    /\ Arrived(k, "complete")
    /\ Valid(call[k].request)
    /\ CompleteJob(call[k].request.report)
    /\ \E reply \in {"ok", "server_error"} : Answer(k, reply)

FailCall(k) ==
    /\ Arrived(k, "fail")
    /\ Valid(call[k].request)
    /\ LET f == call[k].request.failure IN
       \E at \in Nows : FailJob(call[k].request.report, f.ending, f.next, f.expire, at)
    /\ \E reply \in {"ok", "server_error"} : Answer(k, reply)

\* The first check that fails decides: the lease and the claim, then the statuses.
Conflict(r) ==
    IF HoldsLease(r) /\ r.attempt = r.token /\ OwnsClaim(r)
    THEN "state_conflict"
    ELSE "lease_conflict"

\* Mutants: a job that is not RUNNING yet, or that is to be cancelled, is refused.
RefuseUntilRunning(k) ==
    /\ Arrived(k, "complete") \/ Arrived(k, "fail")
    /\ LET r == call[k].request.report IN
       /\ ~MayReport(r) \/ job[r.job].status # "RUNNING"
       /\ Answer(k, Conflict(r))
    /\ UNCHANGED vars
RefuseCancelled(k) ==
    /\ Arrived(k, "complete") \/ Arrived(k, "fail")
    /\ LET r == call[k].request.report IN
       /\ ~MayReport(r) \/ job[r.job].cancelRequested
       /\ Answer(k, Conflict(r))
    /\ UNCHANGED vars

Refuse(k) ==
    /\ Arrived(k, "complete") \/ Arrived(k, "fail")
    /\ Valid(call[k].request)
    /\ ~MayReport(call[k].request.report)
    /\ Answer(k, Conflict(call[k].request.report))
    /\ UNCHANGED vars

\* An unexpected error rolls the transaction back.
ServerFault(k) ==
    /\ call[k].phase \in {"sent", "job_read", "attempt_read"}
    /\ Answer(k, "server_error")
    /\ UNCHANGED vars

----------------------------------------------------------------------------
(* get_terminal_view *)

Latest(j) ==
    CHOOSE c \in DOMAIN attempt : attempt[c].job = j /\
        \A d \in DOMAIN attempt : attempt[d].job = j => attempt[d].index <= attempt[c].index

HasAttempt(j) == \E c \in DOMAIN attempt : attempt[c].job = j

ActiveLeases(j) == {c \in DOMAIN lease : lease[c].job = j /\ lease[c].status = "ACTIVE"}

WithJob(view, j) == [view EXCEPT !.status = job[j].status, !.attemptCount = job[j].attemptCount]

WithAttempt(view, j) ==
    IF HasAttempt(j)
    THEN LET c == Latest(j) IN
         [view EXCEPT !.attempt = c, !.index = attempt[c].index,
                      !.attemptStatus = attempt[c].status]
    ELSE view

WithLease(view, j) ==
    IF ActiveLeases(j) = {} THEN view
    ELSE [view EXCEPT !.lease = CHOOSE c \in ActiveLeases(j) : TRUE]

\* Mutant: the active lease is fetched with the job, before the attempt.
ReadJobAndLease(k) ==
    /\ Arrived(k, "snapshot")
    /\ LET j == call[k].request.job IN
       IF job[j].status = "ABSENT" THEN Answer(k, "job_not_found")
       ELSE call' = [call EXCEPT ![k].phase = "job_read",
                                 ![k].view = WithLease(WithJob(@, j), j)]
    /\ UNCHANGED vars

\* get_by_job_id
ReadJob(k) ==
    /\ Arrived(k, "snapshot")
    /\ LET j == call[k].request.job IN
       IF job[j].status = "ABSENT" THEN Answer(k, "job_not_found")
       ELSE call' = [call EXCEPT ![k].phase = "job_read", ![k].view = WithJob(@, j)]
    /\ UNCHANGED vars

\* get_latest_attempt
ReadAttempt(k) ==
    /\ call[k].phase = "job_read"
    /\ call' = [call EXCEPT ![k].phase = "attempt_read",
                            ![k].view = WithAttempt(@, call[k].request.job)]
    /\ UNCHANGED vars

\* get_active_lease_by_job_id
ReadLease(k) ==
    /\ call[k].phase = "attempt_read"
    /\ call' = [call EXCEPT ![k].phase = "answered", ![k].reply = "ok",
                            ![k].view = WithLease(@, call[k].request.job)]
    /\ UNCHANGED vars

----------------------------------------------------------------------------
\* The rest of the kernel, which is not reached through this API.
Kernel ==
    /\ \/ \E j \in Jobs, status \in {"CREATED", "QUEUED"} : CreateJob(j, status)
       \/ \E w \in Workers, conc \in Concurrencies, j \in Jobs, c \in Claims,
             timeout \in LeaseTimeouts, at \in Nows : ClaimJob(w, conc, j, c, timeout, at)
       \/ \E r \in Heartbeats, run \in BOOLEAN, timeout \in LeaseTimeouts, at \in Nows :
             Heartbeat(r, run, timeout, at)
       \/ \E j \in Jobs : MarkCancelRequested(j)
       \/ Tick
    /\ UNCHANGED call

Caller(k) == SendReport(k) \/ SendSnapshot(k) \/ Receive(k) \/ TimeOut(k)

Server(k) ==
    \/ Invalid(k) \/ CompleteCall(k) \/ FailCall(k) \/ Refuse(k) \/ ServerFault(k)
    \/ ReadJob(k) \/ ReadAttempt(k) \/ ReadLease(k)

TerminalNext == Kernel \/ \E k \in Calls : Caller(k) \/ Server(k)

TerminalSpec == TerminalInit /\ [][TerminalNext]_terminalVars

----------------------------------------------------------------------------
(* Properties *)

\* Type correctness of the calls.
CallsTypeOK == call \in [Calls -> CallRecords]

IsReport(k) == call[k].phase # "idle" /\ call[k].request.op \in {"complete", "fail"}

\* However often a report is repeated, and whether it is repeated as complete or as
\* fail, at most one report on a claim is answered 200.
OneReportPerClaim ==
    \A k, l \in Calls :
        /\ IsReport(k) /\ IsReport(l)
        /\ call[k].outcome = "result" /\ call[l].outcome = "result"
        /\ call[k].request.report.token = call[l].request.report.token
        => k = l

\* A 409 is final: the caller never has to repeat a refused report, because no later
\* moment would accept it.
ConflictIsFinal ==
    \A k \in Calls : IsReport(k) /\ call[k].outcome = "conflict" =>
        ~MayReport(call[k].request.report)

\* The context of a claim, not mixed up.
Genuine(r) ==
    /\ r.attempt = r.token
    /\ r.job = lease[r.token].job
    /\ r.worker = lease[r.token].worker

\* A worker that lost the reply of complete_job and repeats it learns the outcome:
\* if nobody reported the claim failed, a 409 means that its complete_job committed.
RepeatedCompleteIsKnown ==
    \A k \in Calls :
        /\ IsReport(k) /\ call[k].outcome = "conflict"
        /\ Genuine(call[k].request.report)
        /\ \A l \in Calls : IsReport(l)
              /\ call[l].request.report.token = call[k].request.report.token
              => call[l].request.op = "complete"
        => attempt[call[k].request.report.token].status = "COMPLETED"

Viewed(k) ==
    call[k].phase = "answered" /\ call[k].reply = "ok" /\ call[k].request.op = "snapshot"

\* The three reads of the view may be torn, but only towards what is newer: a view
\* that says SUCCEEDED shows the completed attempt and no lease, the latest attempt is
\* not older than the job's attempt_count says, and an ended attempt is never shown
\* with its own lease still active.
ViewOnlyMovesForward ==
    \A k \in Calls : Viewed(k) =>
        LET view == call[k].view IN
        /\ view.status = "SUCCEEDED" =>
              view.attemptStatus = "COMPLETED" /\ view.lease = NoClaim
        /\ view.index >= view.attemptCount
        /\ view.attempt # NoClaim /\ view.lease = view.attempt =>
              view.attemptStatus \in ActiveAttemptStatuses

\* What the SDK scaffold note says of fail_job: a dictionary the caller does not
\* provide is left out, so only a wrong next status is refused as malformed.
OmittedFieldsAreValid ==
    \A k \in Calls : IsReport(k) /\ call[k].reply = "invalid" =>
        /\ call[k].request.op = "fail"
        /\ call[k].request.failure.next \notin FailureNextStatuses

=============================================================================
