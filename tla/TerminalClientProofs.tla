------------------------ MODULE TerminalClientProofs ------------------------
(***************************************************************************)
(* Proofs about TerminalClient, for every set of calls, jobs, workers and  *)
(* claims, and whatever requests are repeated, lost or given up.           *)
(*                                                                         *)
(* The calls take the steps of the kernel's services (StepIsService), so   *)
(* what is proved of the kernel holds below the calls.  Two facts about it *)
(* carry the rest: for a claim that was made, a report is accepted exactly *)
(* as long as the lease is ACTIVE (AcceptedWhileActive), and nothing in    *)
(* the kernel goes back (KernelForward): leases close for good, a job that *)
(* has succeeded stays so, attempts are only added.  A reply or a part of  *)
(* a view that was true once is then still true in the direction the       *)
(* properties need.                                                        *)
(***************************************************************************)
EXTENDS TerminalClient, RuntimeLeaseProofs

----------------------------------------------------------------------------
(* The kernel below the calls *)

\* The attempts of a job are numbered in the order of its claims, and the current claim
\* has the last number.
AttemptsNumbered ==
    /\ \A j \in Jobs : job[j].token = NoClaim => job[j].attemptCount = 0
    /\ \A c \in DOMAIN lease :
          LET j == lease[c].job IN
          /\ job[j].token # NoClaim
          /\ attempt[c].index <= job[j].attemptCount
          /\ attempt[c].index = job[j].attemptCount => c = job[j].token

\* The endings the services never write.
NotEndedOutside == \A j \in Jobs : job[j].status \notin {"CANCELLED", "SUPERSEDED", "DEAD_LETTERED"}

KernelInv ==
    /\ TypeOK /\ ActiveLeaseIsCurrent /\ CurrentClaimIsLatest /\ SettledTogether
    /\ AttemptsNumbered /\ NotEndedOutside

\* The kernel goes on in one direction only.
Forward ==
    /\ DOMAIN lease \subseteq DOMAIN lease'
    /\ \A c \in DOMAIN lease :
          /\ lease'[c].job = lease[c].job /\ lease'[c].worker = lease[c].worker
          /\ lease'[c].status = "ACTIVE" => lease[c].status = "ACTIVE"
          /\ attempt'[c].index = attempt[c].index
    /\ \A j \in Jobs :
          /\ job[j].status = "SUCCEEDED" => job'[j].status = "SUCCEEDED"
          /\ \/ job'[j].token = job[j].token /\ job'[j].attemptCount = job[j].attemptCount
             \/ /\ job'[j].token \in Claims \ DOMAIN lease
                /\ job'[j].attemptCount = job[j].attemptCount + 1

\* Every step of the services goes forward, ends no job from outside and makes at most
\* one lease, with the next number of its job.
LEMMA ServiceForward ==
    ASSUME TypeOK, CurrentClaimIsLatest, NotEndedOutside, [ServiceNext]_vars
    PROVE  /\ Forward /\ NotEndedOutside'
           /\ \A c \in DOMAIN lease' \ DOMAIN lease :
                 /\ lease'[c].job \in Jobs
                 /\ job'[lease'[c].job].token = c
                 /\ attempt'[c].index = job'[lease'[c].job].attemptCount
                 /\ job'[lease'[c].job].attemptCount = job[lease'[c].job].attemptCount + 1
  <1> DEFINE Holds == /\ Forward /\ NotEndedOutside'
                      /\ \A c \in DOMAIN lease' \ DOMAIN lease :
                            /\ lease'[c].job \in Jobs
                            /\ job'[lease'[c].job].token = c
                            /\ attempt'[c].index = job'[lease'[c].job].attemptCount
                            /\ job'[lease'[c].job].attemptCount
                                 = job[lease'[c].job].attemptCount + 1
  <1>1. ASSUME NEW j \in Jobs, NEW status \in {"CREATED", "QUEUED"}, CreateJob(j, status)
        PROVE  Holds
    <2>1. /\ \A i \in Jobs : i # j => job'[i] = job[i]
          /\ job'[j].token = job[j].token
          /\ job'[j].attemptCount = job[j].attemptCount
          /\ UNCHANGED <<attempt, lease, worker>>
      BY <1>1, JobWriteEffect
    <2>2. job[j].status = "ABSENT" /\ job'[j].status \in {"CREATED", "QUEUED"}
      BY <1>1 DEF CreateJob, TypeOK, JobRows
    <2> QED
      BY <2>1, <2>2 DEF Forward, NotEndedOutside
  <1>2. ASSUME NEW j \in Jobs, MarkCancelRequested(j)
        PROVE  Holds
    <2>1. /\ \A i \in Jobs : i # j => job'[i] = job[i]
          /\ job'[j].token = job[j].token
          /\ job'[j].attemptCount = job[j].attemptCount
          /\ UNCHANGED <<attempt, lease, worker>>
      BY <1>2, JobWriteEffect
    <2>2. job[j].status # "SUCCEEDED" /\ job'[j].status = "CANCEL_REQUESTED"
      <3>1. job[j] \in JobRows /\ DOMAIN job = Jobs
        BY DEF TypeOK
      <3> QED
        BY <1>2, <3>1 DEF MarkCancelRequested, NotTerminal, TerminalJobStatuses, JobRows
    <2> QED
      BY <2>1, <2>2 DEF Forward, NotEndedOutside
  <1>3. ASSUME NEW w \in Workers, NEW conc \in Concurrencies, NEW j \in Jobs,
               NEW c \in Claims, NEW timeout \in LeaseTimeouts, NEW at \in Nows,
               ClaimJob(w, conc, j, c, timeout, at)
        PROVE  Holds
    <2>1. /\ Claimable(j) /\ c \notin DOMAIN lease
          /\ \A i \in Jobs : i # j => job'[i] = job[i]
          /\ job'[j].status = "CLAIMED" /\ job'[j].token = c
          /\ job'[j].attemptCount = job[j].attemptCount + 1
          /\ \A d : d \in DOMAIN lease' <=> d \in DOMAIN lease \/ d = c
          /\ \A d \in DOMAIN lease : lease'[d] = lease[d] /\ attempt'[d] = attempt[d]
          /\ lease'[c].job = j /\ attempt'[c].index = job'[j].attemptCount
      BY <1>3, ClaimJobEffect
    <2>2. job[j].status # "SUCCEEDED"
      BY <2>1 DEF Claimable, ClaimableStatuses
    <2> QED
      BY <2>1, <2>2 DEF Forward, NotEndedOutside
  <1>4. ASSUME NEW r \in Heartbeats, NEW run \in BOOLEAN, NEW timeout \in LeaseTimeouts,
               NEW at \in Nows, Heartbeat(r, run, timeout, at)
        PROVE  Holds
    <2>1. /\ r.job \in Jobs /\ \A i \in Jobs : i # r.job => job'[i] = job[i]
          /\ \/ job'[r.job] = job[r.job]
             \/ /\ job[r.job].status \in {"CLAIMED", "RUNNING"}
                /\ job'[r.job].status = "RUNNING"
          /\ job'[r.job].token = job[r.job].token
          /\ job'[r.job].attemptCount = job[r.job].attemptCount
          /\ DOMAIN lease' = DOMAIN lease
          /\ \A d \in DOMAIN lease :
                /\ lease'[d].status = lease[d].status /\ lease'[d].job = lease[d].job
                /\ lease'[d].worker = lease[d].worker
                /\ attempt'[d].index = attempt[d].index
      BY <1>4, HeartbeatEffect
    <2> QED
      BY <2>1 DEF Forward, NotEndedOutside
  <1>5. ASSUME NEW r \in Reports,
               \/ CompleteJob(r)
               \/ \E ending \in FailedAttemptStatuses, next \in FailureNextStatuses,
                     expire \in BOOLEAN, at \in Nows : FailJob(r, ending, next, expire, at)
        PROVE  Holds
    <2>1. /\ MayReport(r) /\ r.job \in Jobs /\ r.token \in DOMAIN lease
          /\ \A i \in Jobs : i # r.job => job'[i] = job[i]
          /\ job'[r.job].status \in {"SUCCEEDED"} \cup FailureNextStatuses
          /\ job'[r.job].token = job[r.job].token
          /\ job'[r.job].attemptCount = job[r.job].attemptCount
          /\ DOMAIN lease' = DOMAIN lease
          /\ \A d \in DOMAIN lease : d # r.token => lease'[d] = lease[d]
          /\ lease'[r.token].status \in {"RELEASED", "EXPIRED"}
          /\ lease'[r.token].job = lease[r.token].job
          /\ lease'[r.token].worker = lease[r.token].worker
          /\ \A d \in DOMAIN lease : attempt'[d].index = attempt[d].index
      BY <1>5, ReportEffect
    <2>2. job[r.job].status # "SUCCEEDED"
      BY <2>1 DEF MayReport, NotTerminal, TerminalJobStatuses
    <2> QED
      BY <2>1, <2>2 DEF Forward, NotEndedOutside, FailureNextStatuses
  <1>6. CASE UNCHANGED <<job, attempt, lease>>
    BY <1>6 DEF Forward, NotEndedOutside
  <1> QED
    BY <1>1, <1>2, <1>3, <1>4, <1>5, <1>6 DEF ServiceNext, ClaimNothing, SetHealth, Tick, vars

\* The numbering of the attempts is kept.
LEMMA StepAttemptsNumbered ==
    ASSUME TypeOK, TypeOK', CurrentClaimIsLatest, NotEndedOutside, AttemptsNumbered,
           [ServiceNext]_vars
    PROVE  AttemptsNumbered'
  <1>1. /\ Forward
        /\ \A c \in DOMAIN lease' \ DOMAIN lease :
              /\ lease'[c].job \in Jobs
              /\ job'[lease'[c].job].token = c
              /\ attempt'[c].index = job'[lease'[c].job].attemptCount
              /\ job'[lease'[c].job].attemptCount = job[lease'[c].job].attemptCount + 1
    BY ServiceForward
  <1>2. ASSUME NEW j \in Jobs, job'[j].token = NoClaim
        PROVE  job'[j].attemptCount = 0
    BY <1>1, <1>2, NullsAreDistinct DEF Forward, AttemptsNumbered
  <1>3. ASSUME NEW c \in DOMAIN lease'
        PROVE  /\ job'[lease'[c].job].token # NoClaim
               /\ attempt'[c].index <= job'[lease'[c].job].attemptCount
               /\ attempt'[c].index = job'[lease'[c].job].attemptCount
                    => c = job'[lease'[c].job].token
    <2>1. CASE c \in DOMAIN lease
      <3> DEFINE j == lease[c].job
      <3>1. /\ lease'[c].job = j /\ attempt'[c].index = attempt[c].index
            /\ job[j].token # NoClaim /\ attempt[c].index <= job[j].attemptCount
            /\ attempt[c].index = job[j].attemptCount => c = job[j].token
        BY <1>1, <2>1 DEF Forward, AttemptsNumbered
      <3>2. /\ j \in Jobs /\ attempt[c].index \in Nat /\ job[j].attemptCount \in Nat
        BY <2>1 DEF TypeOK, LeaseRows, AttemptRows, JobRows
      <3>3. \/ job'[j].token = job[j].token /\ job'[j].attemptCount = job[j].attemptCount
            \/ /\ job'[j].token \in Claims
               /\ job'[j].attemptCount = job[j].attemptCount + 1
        BY <1>1, <3>2 DEF Forward
      <3> QED
        BY <3>1, <3>2, <3>3, NullsAreDistinct
    <2>2. CASE c \notin DOMAIN lease
      <3>1. c \in Claims /\ job'[lease'[c].job].attemptCount \in Nat
        BY <1>1, <2>2 DEF TypeOK, JobRows
      <3> QED
        BY <1>1, <2>2, <3>1, NullsAreDistinct
    <2> QED
      BY <2>1, <2>2
  <1> QED
    BY <1>2, <1>3 DEF AttemptsNumbered

\* The kernel's invariants, together.
LEMMA InitKernelInv == Init => KernelInv
  <1> SUFFICES ASSUME Init PROVE KernelInv
    OBVIOUS
  <1>1. /\ DOMAIN lease = {}
        /\ \A j \in Jobs : job[j].token = NoClaim /\ job[j].status = "ABSENT"
                           /\ job[j].attemptCount = 0
    BY DEF Init
  <1>2. /\ ActiveLeaseIsCurrent /\ CurrentClaimIsLatest /\ SettledTogether
        /\ AttemptsNumbered /\ NotEndedOutside
    BY <1>1 DEF ActiveLeaseIsCurrent, CurrentClaimIsLatest, SettledTogether,
                AttemptsNumbered, NotEndedOutside
  <1> QED
    BY <1>2, InitTypeOK DEF KernelInv

\* Every step of the services keeps them and goes forward.
LEMMA StepKernelInv ==
    ASSUME KernelInv, [ServiceNext]_vars
    PROVE  KernelInv' /\ Forward
  <1>1. [Next]_vars
    BY DEF Next
  <1>2. TypeOK' /\ ActiveLeaseIsCurrent' /\ CurrentClaimIsLatest' /\ SettledTogether'
    BY <1>1, StepTypeOK, StepActiveLeaseIsCurrent, StepCurrentClaimIsLatest,
       StepSettledTogether DEF KernelInv
  <1>3. Forward /\ NotEndedOutside'
    BY ServiceForward DEF KernelInv
  <1> QED
    BY <1>2, <1>3, StepAttemptsNumbered DEF KernelInv

\* On a claim that was made, a report is accepted exactly as long as the lease is
\* ACTIVE, if the report names what belongs together.
LEMMA AcceptedWhileActive ==
    ASSUME KernelInv, NEW r \in Reports, r.token \in DOMAIN lease
    PROVE  MayReport(r) <=> Genuine(r) /\ lease[r.token].status = "ACTIVE"
  <1>1. ASSUME MayReport(r) PROVE Genuine(r) /\ lease[r.token].status = "ACTIVE"
    BY <1>1 DEF MayReport, HoldsLease, OwnsAttempt, Genuine
  <1>2. ASSUME Genuine(r), lease[r.token].status = "ACTIVE" PROVE MayReport(r)
    <2> DEFINE c == r.token
    <2>1. /\ r.attempt = c /\ r.job = lease[c].job /\ r.worker = lease[c].worker
          /\ r.job \in Jobs
      BY <1>2 DEF Genuine, KernelInv, TypeOK, LeaseRows
    <2>2. job[r.job].token = c /\ job[r.job].status \in LeasedJobStatuses
      BY <1>2, <2>1 DEF KernelInv, ActiveLeaseIsCurrent
    <2>3. /\ attempt[c].job = r.job /\ attempt[c].worker = r.worker
          /\ job[r.job].claimedBy = r.worker
      BY <2>1, <2>2, NullsAreDistinct DEF KernelInv, CurrentClaimIsLatest, TypeOK
    <2>4. attempt[c].status \in ActiveAttemptStatuses
      BY <1>2 DEF KernelInv, SettledTogether
    <2>5. NotTerminal(r.job)
      BY <2>1, <2>2 DEF NotTerminal, LeasedJobStatuses, TerminalJobStatuses,
                        FailureNextStatuses, KernelInv, NotEndedOutside
    <2>6. c \in DOMAIN attempt
      BY DEF KernelInv, TypeOK
    <2> QED
      BY <1>2, <2>1, <2>2, <2>3, <2>4, <2>5, <2>6
         DEF MayReport, HoldsLease, OwnsClaim, OwnsAttempt
  <1> QED
    BY <1>1, <1>2

----------------------------------------------------------------------------
(* The calls *)

ReportRequests ==
    [op: {"complete"}, report: Reports, dictionaries: Dictionaries]
    \cup [op: {"fail"}, report: Reports, dictionaries: Dictionaries, failure: Failures]

ConflictReplies == {"lease_conflict", "state_conflict"}

\* What is in a view whose job alone was read.
JobRead(view, j) ==
    /\ view.attempt = NoClaim /\ view.lease = NoClaim /\ view.index = 0
    /\ view.status = "SUCCEEDED" => job[j].status = "SUCCEEDED"
    /\ view.attemptCount <= job[j].attemptCount

\* What is in a view whose job and attempt were read: an attempt that is shown as ended
\* has lost its lease for good.
AttemptRead(view, j) ==
    /\ view.lease = NoClaim
    /\ view.status = "SUCCEEDED" =>
          job[j].status = "SUCCEEDED" /\ view.attemptStatus = "COMPLETED"
    /\ view.index >= view.attemptCount
    /\ view.attempt # NoClaim =>
          /\ view.attempt \in DOMAIN lease
          /\ lease[view.attempt].status = "ACTIVE" =>
                view.attemptStatus \in ActiveAttemptStatuses

\* What is in a view that was answered.
LeaseRead(view) ==
    /\ view.status = "SUCCEEDED" =>
          view.attemptStatus = "COMPLETED" /\ view.lease = NoClaim
    /\ view.index >= view.attemptCount
    /\ view.attempt # NoClaim /\ view.lease = view.attempt =>
          view.attemptStatus \in ActiveAttemptStatuses

\* A call says nothing before it is sent; a report names claims that were made; a reply
\* to a report was right and stays so; a view is read in three steps.
CallInv(k) ==
    /\ call[k].phase # "idle" => call[k].request \in Requests
    /\ call[k].phase # "answered" <=> call[k].reply = "none"
    /\ call[k].phase = "idle" => call[k].outcome = "none"
    /\ call[k].phase \in {"idle", "sent"} => call[k].view = EmptyView
    /\ call[k].phase \in {"job_read", "attempt_read"} => call[k].request.op = "snapshot"
    /\ call[k].outcome = "result" => call[k].reply = "ok"
    /\ call[k].outcome = "conflict" => call[k].reply \in ConflictReplies
    /\ IsReport(k) =>
          LET r == call[k].request.report IN
          /\ {r.token, r.attempt} \subseteq DOMAIN lease
          /\ call[k].reply \in ConflictReplies => ~MayReport(r)
          /\ call[k].reply = "ok" => lease[r.token].status # "ACTIVE"
    /\ call[k].phase = "job_read" => JobRead(call[k].view, call[k].request.job)
    /\ call[k].phase = "attempt_read" => AttemptRead(call[k].view, call[k].request.job)
    /\ Viewed(k) => LeaseRead(call[k].view)

\* A report that was accepted; by OneAccepted the only one on its claim.
Accepted(k) == IsReport(k) /\ call[k].reply = "ok"

OneAccepted ==
    \A k, l \in Calls :
        Accepted(k) /\ Accepted(l)
        /\ call[k].request.report.token = call[l].request.report.token => k = l

\* Nothing but a report of a failure makes an attempt fail.
FailedByReport ==
    \A c \in DOMAIN lease : attempt[c].status \in FailedAttemptStatuses =>
        \E k \in Calls : IsReport(k) /\ call[k].request.op = "fail"
                         /\ call[k].request.report.token = c

TerminalInv ==
    /\ KernelInv /\ CallsTypeOK
    /\ \A k \in Calls : CallInv(k)
    /\ OneAccepted /\ FailedByReport

\* A request that reports carries a report, and one that does not asks for a view.
LEMMA RequestKinds ==
    ASSUME NEW q \in Requests
    PROVE  /\ q.op \in {"complete", "fail"} =>
                 q.report \in Reports /\ q \in ReportRequests
           /\ q.op = "fail" => q.failure \in Failures
           /\ q.op = "snapshot" => q.job \in Jobs
           /\ q.op \in {"complete", "fail", "snapshot"}
  BY DEF Requests, ReportRequests

\* An empty view has its type.
LEMMA EmptyViewType == EmptyView \in Views
  BY DEF EmptyView, Views, JobStatuses, AttemptStatuses, ActiveAttemptStatuses

\* What the four kinds of update make of a call.
LEMMA CallUpdates ==
    ASSUME CallsTypeOK, NEW k \in Calls
    PROVE  /\ \A q \in Requests :
                 call' = [call EXCEPT ![k].phase = "sent", ![k].request = q] =>
                     /\ CallsTypeOK'
                     /\ \A l \in Calls : l # k => call'[l] = call[l]
                     /\ call'[k].phase = "sent" /\ call'[k].request = q
                     /\ call'[k].reply = call[k].reply
                     /\ call'[k].outcome = call[k].outcome
                     /\ call'[k].view = call[k].view
           /\ \A reply \in Replies : Answer(k, reply) =>
                     /\ CallsTypeOK'
                     /\ \A l \in Calls : l # k => call'[l] = call[l]
                     /\ call'[k].phase = "answered" /\ call'[k].reply = reply
                     /\ call'[k].request = call[k].request
                     /\ call'[k].outcome = call[k].outcome
                     /\ call'[k].view = call[k].view
           /\ \A outcome \in Outcomes :
                 call' = [call EXCEPT ![k].outcome = outcome] =>
                     /\ CallsTypeOK'
                     /\ \A l \in Calls : l # k => call'[l] = call[l]
                     /\ call'[k].outcome = outcome
                     /\ call'[k].phase = call[k].phase /\ call'[k].reply = call[k].reply
                     /\ call'[k].request = call[k].request
                     /\ call'[k].view = call[k].view
  <1> DEFINE requests == Requests \cup {NoCall}
  <1> DEFINE phases == {"idle", "sent", "job_read", "attempt_read", "answered"}
  <1> DEFINE replies == Replies \cup {"none"}
  <1> DEFINE outcomes == Outcomes \cup {"none"}
  <1>1. CallRecords = [request: requests, phase: phases, reply: replies,
                       outcome: outcomes, view: Views]
    BY DEF CallRecords
  <1>2. /\ call \in [Calls -> [request: requests, phase: phases, reply: replies,
                               outcome: outcomes, view: Views]]
        /\ CallsTypeOK' <=> call' \in [Calls -> [request: requests, phase: phases,
                                         reply: replies, outcome: outcomes, view: Views]]
    BY <1>1 DEF CallsTypeOK
  <1>3. /\ "sent" \in phases /\ "answered" \in phases /\ Requests \subseteq requests
        /\ Replies \subseteq replies /\ Outcomes \subseteq outcomes
    OBVIOUS
  <1> HIDE DEF requests, phases, replies, outcomes
  <1>4. ASSUME NEW q \in Requests,
               call' = [call EXCEPT ![k].phase = "sent", ![k].request = q]
        PROVE  /\ CallsTypeOK'
               /\ \A l \in Calls : l # k => call'[l] = call[l]
               /\ call'[k].phase = "sent" /\ call'[k].request = q
               /\ call'[k].reply = call[k].reply /\ call'[k].outcome = call[k].outcome
               /\ call'[k].view = call[k].view
    BY <1>2, <1>3, <1>4
  <1>5. ASSUME NEW reply \in Replies, Answer(k, reply)
        PROVE  /\ CallsTypeOK'
               /\ \A l \in Calls : l # k => call'[l] = call[l]
               /\ call'[k].phase = "answered" /\ call'[k].reply = reply
               /\ call'[k].request = call[k].request
               /\ call'[k].outcome = call[k].outcome /\ call'[k].view = call[k].view
    BY <1>2, <1>3, <1>5 DEF Answer
  <1>6. ASSUME NEW outcome \in Outcomes, call' = [call EXCEPT ![k].outcome = outcome]
        PROVE  /\ CallsTypeOK'
               /\ \A l \in Calls : l # k => call'[l] = call[l]
               /\ call'[k].outcome = outcome
               /\ call'[k].phase = call[k].phase /\ call'[k].reply = call[k].reply
               /\ call'[k].request = call[k].request /\ call'[k].view = call[k].view
    BY <1>2, <1>3, <1>6
  <1> QED
    BY <1>4, <1>5, <1>6

\* A part of the view is read, and the call goes on, or is answered.
LEMMA ViewUpdates ==
    ASSUME CallsTypeOK, NEW k \in Calls, NEW p \in {"job_read", "attempt_read", "answered"},
           NEW view \in Views
    PROVE  /\ call' = [call EXCEPT ![k].phase = p, ![k].view = view] =>
                  /\ CallsTypeOK'
                  /\ \A l \in Calls : l # k => call'[l] = call[l]
                  /\ call'[k].phase = p /\ call'[k].view = view
                  /\ call'[k].reply = call[k].reply /\ call'[k].outcome = call[k].outcome
                  /\ call'[k].request = call[k].request
           /\ call' = [call EXCEPT ![k].phase = p, ![k].reply = "ok", ![k].view = view] =>
                  /\ CallsTypeOK'
                  /\ \A l \in Calls : l # k => call'[l] = call[l]
                  /\ call'[k].phase = p /\ call'[k].view = view
                  /\ call'[k].reply = "ok" /\ call'[k].outcome = call[k].outcome
                  /\ call'[k].request = call[k].request
  <1> DEFINE requests == Requests \cup {NoCall}
  <1> DEFINE phases == {"idle", "sent", "job_read", "attempt_read", "answered"}
  <1> DEFINE replies == Replies \cup {"none"}
  <1> DEFINE outcomes == Outcomes \cup {"none"}
  <1>1. CallRecords = [request: requests, phase: phases, reply: replies,
                       outcome: outcomes, view: Views]
    BY DEF CallRecords
  <1>2. /\ call \in [Calls -> [request: requests, phase: phases, reply: replies,
                               outcome: outcomes, view: Views]]
        /\ CallsTypeOK' <=> call' \in [Calls -> [request: requests, phase: phases,
                                         reply: replies, outcome: outcomes, view: Views]]
    BY <1>1 DEF CallsTypeOK
  <1>3. p \in phases /\ "ok" \in replies
    BY DEF Replies
  <1> HIDE DEF phases, replies
  <1> QED
    BY <1>2, <1>3

\* A call that reports has a report of claims that were made.
LEMMA ReportOfCall ==
    ASSUME NEW k \in Calls, CallInv(k), IsReport(k)
    PROVE  /\ call[k].request \in ReportRequests /\ call[k].request.report \in Reports
           /\ call[k].request.op = "fail" => call[k].request.failure \in Failures
           /\ {call[k].request.report.token, call[k].request.report.attempt}
                 \subseteq DOMAIN lease
  BY RequestKinds DEF CallInv, IsReport

\* What the server does for a call is a service of the kernel, or changes no row.
LEMMA StepIsService ==
    ASSUME \A k \in Calls : CallInv(k), [TerminalNext]_terminalVars
    PROVE  [ServiceNext]_vars
  <1>1. CASE UNCHANGED terminalVars
    BY <1>1 DEF terminalVars
  <1>2. CASE Kernel
    BY <1>2 DEF Kernel, ServiceNext, Heartbeat
  <1>3. ASSUME NEW k \in Calls, CompleteCall(k) PROVE ServiceNext
    <2>1. IsReport(k) /\ CompleteJob(call[k].request.report)
      BY <1>3 DEF CompleteCall, Arrived, IsReport
    <2> QED
      BY <2>1, ReportOfCall DEF ServiceNext
  <1>4. ASSUME NEW k \in Calls, FailCall(k) PROVE ServiceNext
    <2> DEFINE f == call[k].request.failure
    <2>1. IsReport(k) /\ call[k].request.op = "fail" /\ f.next \in FailureNextStatuses
      BY <1>4 DEF FailCall, Arrived, IsReport, Valid
    <2>2. f.ending \in FailedAttemptStatuses /\ f.expire \in BOOLEAN
      BY <2>1, ReportOfCall, FailuresAreReports
    <2>3. \E at \in Nows : FailJob(call[k].request.report, f.ending, f.next, f.expire, at)
      BY <1>4 DEF FailCall
    <2>4. MayReport(call[k].request.report)
      BY <2>3 DEF FailJob
    <2>5. call[k].request.report \in {r \in Reports : MayReport(r)}
      BY <2>1, <2>4, ReportOfCall
    <2> QED
      BY <2>1, <2>2, <2>3, <2>5 DEF ServiceNext
  <1>5. ASSUME NEW k \in Calls, Caller(k) PROVE UNCHANGED vars
    BY <1>5 DEF Caller, SendReport, SendSnapshot, Send, Receive, TimeOut
  <1>6. ASSUME NEW k \in Calls, Server(k), ~CompleteCall(k), ~FailCall(k)
        PROVE  UNCHANGED vars
    BY <1>6 DEF Server, Invalid, Refuse, ServerFault, ReadJob, ReadAttempt, ReadLease
  <1> QED
    BY <1>1, <1>2, <1>3, <1>4, <1>5, <1>6 DEF TerminalNext

\* What holds of a call that a step leaves alone goes on to hold.
LEMMA CallInvForward ==
    ASSUME KernelInv, KernelInv', Forward, CallsTypeOK, NEW k \in Calls, CallInv(k),
           call'[k] = call[k]
    PROVE  CallInv(k)'
  <1>1. (IsReport(k) <=> IsReport(k)') /\ (Viewed(k) <=> Viewed(k)')
    BY DEF IsReport, Viewed
  <1>2. ASSUME IsReport(k)
        PROVE  LET r == call[k].request.report IN
               /\ {r.token, r.attempt} \subseteq DOMAIN lease'
               /\ call[k].reply \in ConflictReplies => ~MayReport(r)'
               /\ call[k].reply = "ok" => lease'[r.token].status # "ACTIVE"
    <2>0. PICK r \in Reports : r = call[k].request.report
      BY <1>2, ReportOfCall
    <2>1. r.token \in DOMAIN lease /\ r.attempt \in DOMAIN lease
      BY <1>2, <2>0, ReportOfCall
    <2>2. /\ r.token \in DOMAIN lease' /\ r.attempt \in DOMAIN lease'
          /\ lease'[r.token].status = "ACTIVE" => lease[r.token].status = "ACTIVE"
          /\ lease'[r.token].job = lease[r.token].job
          /\ lease'[r.token].worker = lease[r.token].worker
      BY <2>1 DEF Forward
    <2>3. MayReport(r) <=> Genuine(r) /\ lease[r.token].status = "ACTIVE"
      BY <2>1, AcceptedWhileActive
    <2>4. MayReport(r)' => Genuine(r)' /\ lease'[r.token].status = "ACTIVE"
      BY DEF MayReport, HoldsLease, OwnsAttempt, Genuine
    <2>5. MayReport(r)' => MayReport(r)
      BY <2>2, <2>3, <2>4 DEF Genuine
    <2>6. /\ call[k].reply \in ConflictReplies => ~MayReport(r)
          /\ call[k].reply = "ok" => lease[r.token].status # "ACTIVE"
      BY <1>2, <2>0 DEF CallInv
    <2> QED
      BY <2>0, <2>2, <2>5, <2>6
  <1>3. ASSUME call[k].phase \in {"job_read", "attempt_read"}
        PROVE  call[k].request.job \in Jobs
    BY <1>3, RequestKinds DEF CallInv
  <1>4. ASSUME call[k].phase = "job_read"
        PROVE  JobRead(call[k].view, call[k].request.job)'
    <2> DEFINE j == call[k].request.job
    <2>1. /\ job[j].attemptCount \in Nat /\ call[k].view.attemptCount \in Nat
          /\ job'[j].attemptCount \in {job[j].attemptCount, job[j].attemptCount + 1}
          /\ job[j].status = "SUCCEEDED" => job'[j].status = "SUCCEEDED"
      BY <1>3, <1>4 DEF KernelInv, TypeOK, JobRows, CallsTypeOK, CallRecords, Views, Forward
    <2>2. JobRead(call[k].view, j)
      BY <1>4 DEF CallInv
    <2> QED
      BY <2>1, <2>2 DEF JobRead
  <1>5. ASSUME call[k].phase = "attempt_read"
        PROVE  AttemptRead(call[k].view, call[k].request.job)'
    <2>1. AttemptRead(call[k].view, call[k].request.job)
      BY <1>5 DEF CallInv
    <2> QED
      BY <1>3, <1>5, <2>1 DEF AttemptRead, Forward
  <1> QED
    BY <1>1, <1>2, <1>4, <1>5 DEF CallInv, LeaseRead

----------------------------------------------------------------------------
(* The view *)

\* The attempt with the highest number is the one the job's token names, and a job
\* without an attempt was never claimed.
LEMMA LatestIsCurrent ==
    ASSUME KernelInv, NEW j \in Jobs
    PROVE  /\ HasAttempt(j) =>
                 /\ Latest(j) = job[j].token /\ Latest(j) \in DOMAIN lease
                 /\ attempt[Latest(j)].job = j
                 /\ attempt[Latest(j)].index = job[j].attemptCount
           /\ ~HasAttempt(j) => job[j].token = NoClaim /\ job[j].attemptCount = 0
  <1>1. /\ DOMAIN attempt = DOMAIN lease /\ job[j].attemptCount \in Nat
        /\ \A c \in DOMAIN lease : attempt[c].index \in Nat
        /\ \A c \in DOMAIN lease : attempt[c].job = lease[c].job
    BY DEF KernelInv, TypeOK, JobRows, AttemptRows, CurrentClaimIsLatest
  <1>2. ASSUME job[j].token # NoClaim
        PROVE  /\ job[j].token \in DOMAIN lease /\ attempt[job[j].token].job = j
               /\ attempt[job[j].token].index = job[j].attemptCount
    BY <1>1, <1>2 DEF KernelInv, CurrentClaimIsLatest
  <1>3. ASSUME ~HasAttempt(j)
        PROVE  job[j].token = NoClaim /\ job[j].attemptCount = 0
    BY <1>1, <1>2, <1>3 DEF HasAttempt, KernelInv, AttemptsNumbered
  <1>4. ASSUME HasAttempt(j)
        PROVE  /\ Latest(j) = job[j].token /\ Latest(j) \in DOMAIN lease
               /\ attempt[Latest(j)].job = j
               /\ attempt[Latest(j)].index = job[j].attemptCount
    <2> DEFINE IsLatest(c) ==
                 /\ attempt[c].job = j
                 /\ \A d \in DOMAIN attempt :
                       attempt[d].job = j => attempt[d].index <= attempt[c].index
    <2>1. /\ job[j].token # NoClaim
          /\ \A c \in DOMAIN lease : attempt[c].job = j =>
                /\ attempt[c].index <= job[j].attemptCount
                /\ attempt[c].index = job[j].attemptCount => c = job[j].token
      BY <1>1, <1>4 DEF HasAttempt, KernelInv, AttemptsNumbered
    <2>2. job[j].token \in DOMAIN attempt /\ IsLatest(job[j].token)
      BY <1>1, <1>2, <2>1
    <2>3. \A c \in DOMAIN attempt : IsLatest(c) => c = job[j].token
      BY <1>1, <1>2, <2>1
    <2>4. Latest(j) = CHOOSE c \in DOMAIN attempt : IsLatest(c)
      BY DEF Latest
    <2> HIDE DEF IsLatest
    <2>5. Latest(j) \in DOMAIN attempt /\ IsLatest(Latest(j))
      BY <2>2, <2>4
    <2> QED
      BY <1>2, <2>1, <2>3, <2>5
  <1> QED
    BY <1>3, <1>4

\* Each of the three reads leaves a view that is right in the direction that lasts.
LEMMA ViewReads ==
    ASSUME KernelInv, NEW j \in Jobs, NEW view \in Views
    PROVE  /\ WithJob(view, j) \in Views
           /\ WithAttempt(view, j) \in Views
           /\ WithLease(view, j) \in Views
           /\ view = EmptyView => JobRead(WithJob(view, j), j)
           /\ JobRead(view, j) => AttemptRead(WithAttempt(view, j), j)
           /\ AttemptRead(view, j) => LeaseRead(WithLease(view, j))
  <1>1. /\ job[j].status \in JobStatuses /\ job[j].attemptCount \in Nat
        /\ DOMAIN attempt = DOMAIN lease /\ DOMAIN lease \subseteq Claims
        /\ \A c \in DOMAIN lease : /\ attempt[c].index \in Nat
                                   /\ attempt[c].status \in AttemptStatuses
    BY DEF KernelInv, TypeOK, JobRows, AttemptRows
  <1>2. /\ WithJob(view, j) \in Views
        /\ view = EmptyView => JobRead(WithJob(view, j), j)
    <2> DEFINE seen == WithJob(view, j)
    <2>1. /\ seen \in Views
          /\ seen.status = job[j].status /\ seen.attemptCount = job[j].attemptCount
          /\ seen.attempt = view.attempt /\ seen.lease = view.lease
          /\ seen.index = view.index
      BY <1>1 DEF WithJob, Views
    <2>2. view = EmptyView =>
            view.attempt = NoClaim /\ view.lease = NoClaim /\ view.index = 0
      BY DEF EmptyView
    <2> HIDE DEF seen
    <2>3. view = EmptyView => JobRead(seen, j)
      BY <1>1, <2>1, <2>2 DEF JobRead
    <2> QED
      BY <2>1, <2>3 DEF seen
  <1>3. /\ WithLease(view, j) \in Views
        /\ AttemptRead(view, j) => LeaseRead(WithLease(view, j))
    <2>1. CASE ActiveLeases(j) = {}
      BY <2>1 DEF WithLease, AttemptRead, LeaseRead
    <2>2. CASE ActiveLeases(j) # {}
      <3> DEFINE c == CHOOSE c \in ActiveLeases(j) : TRUE
                 seen == [view EXCEPT !.lease = c]
      <3>1. c \in ActiveLeases(j)
        BY <2>2
      <3>2. WithLease(view, j) = seen
        BY <2>2 DEF WithLease
      <3> HIDE DEF c
      <3>3. c \in DOMAIN lease /\ lease[c].job = j /\ lease[c].status = "ACTIVE"
        BY <3>1 DEF ActiveLeases
      <3>4. job[j].status # "SUCCEEDED"
        BY <3>3 DEF KernelInv, ActiveLeaseIsCurrent, LeasedJobStatuses
      <3>5. /\ seen \in Views /\ seen.lease = c /\ seen.status = view.status
            /\ seen.attemptCount = view.attemptCount /\ seen.index = view.index
            /\ seen.attempt = view.attempt /\ seen.attemptStatus = view.attemptStatus
        BY <1>1, <3>3 DEF Views
      <3> HIDE DEF seen
      <3>6. AttemptRead(view, j) => LeaseRead(seen)
        BY <3>3, <3>4, <3>5 DEF AttemptRead, LeaseRead
      <3> QED
        BY <3>2, <3>5, <3>6
    <2> QED
      BY <2>1, <2>2
  <1>4. CASE HasAttempt(j)
    <2> DEFINE c == Latest(j)
               seen == [view EXCEPT !.attempt = c, !.index = attempt[c].index,
                                    !.attemptStatus = attempt[c].status]
    <2>1. /\ c = job[j].token /\ c \in DOMAIN lease /\ attempt[c].job = j
          /\ attempt[c].index = job[j].attemptCount
      BY <1>4, LatestIsCurrent
    <2>2. WithAttempt(view, j) = seen
      BY <1>4 DEF WithAttempt
    <2> HIDE DEF c
    <2>3. /\ seen \in Views
          /\ seen.attempt = c /\ seen.index = attempt[c].index
          /\ seen.attemptStatus = attempt[c].status
          /\ seen.status = view.status /\ seen.attemptCount = view.attemptCount
          /\ seen.lease = view.lease
      BY <1>1, <2>1 DEF Views
    <2> HIDE DEF seen
    <2>4. ASSUME JobRead(view, j) PROVE AttemptRead(seen, j)
      <3>1. job[j].status = "SUCCEEDED" => attempt[c].status = "COMPLETED"
        BY <2>1 DEF KernelInv, SettledTogether
      <3>2. lease[c].status = "ACTIVE" => attempt[c].status \in ActiveAttemptStatuses
        BY <2>1 DEF KernelInv, SettledTogether
      <3>3. view.attemptCount \in Nat
        BY DEF Views
      <3> QED
        BY <1>1, <2>1, <2>3, <2>4, <3>1, <3>2, <3>3 DEF JobRead, AttemptRead
    <2> QED
      BY <2>2, <2>3, <2>4, <1>2, <1>3
  <1>5. CASE ~HasAttempt(j)
    <2>1. WithAttempt(view, j) = view
      BY <1>5 DEF WithAttempt
    <2>2. job[j].attemptCount = 0 /\ job[j].status # "SUCCEEDED"
      BY <1>5, LatestIsCurrent DEF KernelInv, SettledTogether
    <2>3. view.attemptCount \in Nat
      BY DEF Views
    <2> QED
      BY <1>2, <1>3, <2>1, <2>2, <2>3 DEF JobRead, AttemptRead
  <1> QED
    BY <1>4, <1>5

----------------------------------------------------------------------------
(* Each step of a call *)

\* What a step of call k does to the calls: it changes no other call, keeps a report
\* that was sent, and keeps what is known of call k.
CallStep(k) ==
    /\ CallsTypeOK'
    /\ \A l \in Calls : l # k => call'[l] = call[l]
    /\ CallInv(k)'
    /\ IsReport(k) => IsReport(k)' /\ call'[k].request = call[k].request

\* Sending a request of claims that were made.
LEMMA SendStep ==
    ASSUME CallsTypeOK, NEW k \in Calls, CallInv(k), SendReport(k) \/ SendSnapshot(k)
    PROVE  CallStep(k) /\ ~Accepted(k)'
  <1>1. /\ call[k].phase = "idle" /\ UNCHANGED vars
        /\ \E q \in Requests :
              /\ call' = [call EXCEPT ![k].phase = "sent", ![k].request = q]
              /\ q.op \in {"complete", "fail"} =>
                    {q.report.token, q.report.attempt} \subseteq DOMAIN lease
    <2>1. CASE SendSnapshot(k)
      <3>1. PICK j \in Jobs : Send(k, [op |-> "snapshot", job |-> j])
        BY <2>1 DEF SendSnapshot
      <3>2. [op |-> "snapshot", job |-> j] \in Requests
        BY DEF Requests
      <3> QED
        BY <3>1, <3>2 DEF Send
    <2>2. ASSUME NEW r \in Contexts, NEW given \in BOOLEAN, NEW f \in Failures
          PROVE  /\ [op |-> "complete", report |-> r, dictionaries |-> Payload(given)]
                       \in Requests
                 /\ [op |-> "fail", report |-> r, dictionaries |-> Payload(given),
                     failure |-> f] \in Requests
                 /\ {r.token, r.attempt} \subseteq DOMAIN lease
      BY DEF Contexts, Payload, Requests, Dictionaries
    <2>3. ASSUME NEW r \in Contexts, NEW given \in BOOLEAN
          PROVE  /\ [op |-> "complete", report |-> r, dictionaries |-> Payload(given)]
                       \in Requests
                 /\ {r.token, r.attempt} \subseteq DOMAIN lease
      BY DEF Contexts, Payload, Requests, Dictionaries
    <2>4. CASE SendReport(k)
      <3>1. PICK r \in Contexts, given \in BOOLEAN :
              \/ Send(k, [op |-> "complete", report |-> r, dictionaries |-> Payload(given)])
              \/ \E f \in Failures :
                    Send(k, [op |-> "fail", report |-> r, dictionaries |-> Payload(given),
                             failure |-> f])
        BY <2>4 DEF SendReport
      <3>2. PICK q \in Requests :
              Send(k, q) /\ {q.report.token, q.report.attempt} \subseteq DOMAIN lease
        BY <2>2, <2>3, <3>1
      <3> QED
        BY <3>2 DEF Send
    <2> QED
      BY <2>1, <2>4
  <1>2. PICK q \in Requests :
              /\ call' = [call EXCEPT ![k].phase = "sent", ![k].request = q]
              /\ q.op \in {"complete", "fail"} =>
                    {q.report.token, q.report.attempt} \subseteq DOMAIN lease
    BY <1>1
  <1>3. /\ CallsTypeOK'
        /\ \A l \in Calls : l # k => call'[l] = call[l]
        /\ call'[k].phase = "sent" /\ call'[k].request = q
        /\ call'[k].reply = call[k].reply
        /\ call'[k].outcome = call[k].outcome
        /\ call'[k].view = call[k].view
    BY <1>2, CallUpdates
  <1>4. /\ call[k].reply = "none" /\ call[k].outcome = "none"
        /\ call[k].view = EmptyView /\ ~IsReport(k)
    BY <1>1 DEF CallInv, IsReport
  <1>5. CallInv(k)'
    BY <1>1, <1>2, <1>3, <1>4 DEF CallInv, IsReport, Viewed, ConflictReplies, vars
  <1> QED
    BY <1>3, <1>4, <1>5 DEF CallStep, Accepted

\* What a call returns or raises follows its reply, or the lack of one.
LEMMA OutcomeStep ==
    ASSUME CallsTypeOK, NEW k \in Calls, CallInv(k), Receive(k) \/ TimeOut(k)
    PROVE  CallStep(k) /\ (Accepted(k)' <=> Accepted(k))
  <1>1. call[k].phase # "idle" /\ UNCHANGED vars
    BY DEF Receive, TimeOut
  <1>2. \E outcome \in Outcomes :
           /\ call' = [call EXCEPT ![k].outcome = outcome]
           /\ outcome = "result" => call[k].reply = "ok"
           /\ outcome = "conflict" => call[k].reply \in ConflictReplies
    <2>1. CASE TimeOut(k)
      BY <2>1 DEF TimeOut, Outcomes
    <2>2. CASE Receive(k)
      <3>1. call[k].reply \in Replies \cup {"none"}
        BY DEF CallsTypeOK, CallRecords
      <3>2. call[k].reply # "none"
        BY <2>2 DEF Receive, CallInv
      <3> QED
        BY <2>2, <3>1, <3>2 DEF Receive, Raised, Replies, Outcomes, ConflictReplies
    <2> QED
      BY <2>1, <2>2
  <1>3. PICK outcome \in Outcomes :
           /\ call' = [call EXCEPT ![k].outcome = outcome]
           /\ outcome = "result" => call[k].reply = "ok"
           /\ outcome = "conflict" => call[k].reply \in ConflictReplies
    BY <1>2
  <1>4. /\ CallsTypeOK'
        /\ \A l \in Calls : l # k => call'[l] = call[l]
        /\ call'[k].outcome = outcome
        /\ call'[k].phase = call[k].phase /\ call'[k].reply = call[k].reply
        /\ call'[k].request = call[k].request /\ call'[k].view = call[k].view
    BY <1>3, CallUpdates
  <1>5. CallInv(k)'
    <2>1. /\ IsReport(k)' <=> IsReport(k)
          /\ Viewed(k)' <=> Viewed(k)
      BY <1>4 DEF IsReport, Viewed
    <2>2. ASSUME NEW r PROVE MayReport(r)' <=> MayReport(r)
      BY <1>1 DEF vars, MayReport, HoldsLease, OwnsClaim, NotTerminal, OwnsAttempt
    <2> QED
      BY <1>1, <1>3, <1>4, <2>1, <2>2 DEF CallInv, JobRead, AttemptRead, LeaseRead, vars
  <1> QED
    BY <1>4, <1>5 DEF CallStep, IsReport, Accepted

\* A call that was not answered is answered: refused for good, accepted once its lease
\* is closed, or neither.
LEMMA AnswerStep ==
    ASSUME Forward, CallsTypeOK, NEW k \in Calls, CallInv(k),
           call[k].phase \in {"sent", "job_read", "attempt_read"},
           NEW reply \in Replies, Answer(k, reply),
           reply \in ConflictReplies \cup {"ok"} => IsReport(k),
           NEW r, r = call[k].request.report,
           reply \in ConflictReplies => ~MayReport(r)',
           reply = "ok" => lease'[r.token].status # "ACTIVE"
    PROVE  CallStep(k) /\ (Accepted(k)' => reply = "ok")
  <1>1. /\ CallsTypeOK'
        /\ \A l \in Calls : l # k => call'[l] = call[l]
        /\ call'[k].phase = "answered" /\ call'[k].reply = reply
        /\ call'[k].request = call[k].request
        /\ call'[k].outcome = call[k].outcome
        /\ call'[k].view = call[k].view
    BY CallUpdates
  <1>2. /\ call[k].phase # "idle" /\ call[k].reply = "none"
        /\ call[k].outcome \notin {"result", "conflict"}
        /\ call[k].request \in Requests
    BY DEF CallInv, ConflictReplies
  <1>3. IsReport(k)' <=> IsReport(k)
    BY <1>1, <1>2 DEF IsReport
  <1>4. IsReport(k) => {r.token, r.attempt} \subseteq DOMAIN lease'
    BY ReportOfCall DEF Forward
  <1>5. ~Viewed(k)'
    BY <1>1, <1>2 DEF Viewed, IsReport
  <1>6. reply # "none"
    BY DEF Replies
  <1>7. CallInv(k)'
    BY <1>1, <1>2, <1>3, <1>4, <1>5, <1>6 DEF CallInv
  <1> QED
    BY <1>1, <1>2, <1>3, <1>7 DEF CallStep, Accepted

\* The answers that leave the rows alone.
LEMMA RefusalStep ==
    ASSUME Forward, CallsTypeOK, NEW k \in Calls, CallInv(k),
           Invalid(k) \/ Refuse(k) \/ ServerFault(k)
    PROVE  CallStep(k) /\ ~Accepted(k)'
  <1>1. PICK r : r = call[k].request.report
    OBVIOUS
  <1>2. CASE Invalid(k)
    BY <1>1, <1>2, AnswerStep DEF Invalid, Arrived, Replies, ConflictReplies
  <1>3. CASE ServerFault(k)
    BY <1>1, <1>3, AnswerStep DEF ServerFault, Replies, ConflictReplies
  <1>4. CASE Refuse(k)
    <2>1. /\ call[k].phase = "sent" /\ IsReport(k) /\ ~MayReport(r) /\ UNCHANGED vars
          /\ Answer(k, Conflict(r))
      BY <1>1, <1>4 DEF Refuse, Arrived, IsReport
    <2>2. Conflict(r) \in ConflictReplies
      BY DEF Conflict, ConflictReplies
    <2>3. ~MayReport(r)'
      BY <2>1 DEF vars, MayReport, HoldsLease, OwnsClaim, NotTerminal, OwnsAttempt
    <2>4. PICK reply \in ConflictReplies : Answer(k, reply)
      BY <2>1, <2>2
    <2>5. reply \in Replies /\ reply # "ok"
      BY DEF Replies, ConflictReplies
    <2> QED
      BY <1>1, <2>1, <2>3, <2>4, <2>5, AnswerStep
  <1> QED
    BY <1>2, <1>3, <1>4

\* The report of a call that commits, whatever its answer.
LEMMA ReportStep ==
    ASSUME KernelInv, Forward, CallsTypeOK, NEW k \in Calls, CallInv(k),
           CompleteCall(k) \/ FailCall(k)
    PROVE  /\ CallStep(k)
           /\ IsReport(k) /\ call[k].request.report \in Reports
           /\ lease[call[k].request.report.token].status = "ACTIVE"
           /\ \/ CompleteJob(call[k].request.report)
              \/ /\ call[k].request.op = "fail"
                 /\ \E ending \in FailedAttemptStatuses, next \in FailureNextStatuses,
                       expire \in BOOLEAN, at \in Nows :
                       FailJob(call[k].request.report, ending, next, expire, at)
  <1>1. /\ IsReport(k) /\ call[k].phase = "sent"
        /\ \E reply \in {"ok", "server_error"} : Answer(k, reply)
    BY DEF CompleteCall, FailCall, Arrived, IsReport
  <1>2. PICK r \in Reports : r = call[k].request.report
    BY <1>1, ReportOfCall
  <1>3. \/ CompleteJob(r)
        \/ /\ call[k].request.op = "fail"
           /\ \E ending \in FailedAttemptStatuses, next \in FailureNextStatuses,
                 expire \in BOOLEAN, at \in Nows : FailJob(r, ending, next, expire, at)
    <2>1. CASE CompleteCall(k)
      BY <1>2, <2>1 DEF CompleteCall
    <2>2. CASE FailCall(k)
      <3> DEFINE f == call[k].request.failure
      <3>1. call[k].request.op = "fail" /\ f.next \in FailureNextStatuses
        BY <2>2 DEF FailCall, Arrived, Valid
      <3>2. f.ending \in FailedAttemptStatuses /\ f.expire \in BOOLEAN
        BY <1>1, <3>1, ReportOfCall, FailuresAreReports
      <3>3. \E at \in Nows : FailJob(r, f.ending, f.next, f.expire, at)
        BY <1>2, <2>2 DEF FailCall
      <3> QED
        BY <3>1, <3>2, <3>3
    <2> QED
      BY <2>1, <2>2
  <1>4. MayReport(r) /\ lease'[r.token].status \in {"RELEASED", "EXPIRED"}
    BY <1>3, ReportEffect DEF KernelInv
  <1>5. PICK reply \in {"ok", "server_error"} : Answer(k, reply)
    BY <1>1
  <1>6. reply \in Replies /\ reply \notin ConflictReplies
    BY DEF Replies, ConflictReplies
  <1>7. CallStep(k)
    BY <1>1, <1>2, <1>4, <1>5, <1>6, AnswerStep
  <1> QED
    BY <1>1, <1>2, <1>3, <1>4, <1>7 DEF MayReport, HoldsLease

\* The reads of the view.
LEMMA ReadStep ==
    ASSUME KernelInv, Forward, CallsTypeOK, NEW k \in Calls, CallInv(k),
           ReadJob(k) \/ ReadAttempt(k) \/ ReadLease(k)
    PROVE  CallStep(k) /\ ~Accepted(k)'
  <1>1. /\ UNCHANGED vars /\ call[k].phase \in {"sent", "job_read", "attempt_read"}
        /\ call[k].request.op = "snapshot"
    BY DEF ReadJob, ReadAttempt, ReadLease, Arrived, CallInv
  <1>2. PICK j \in Jobs : j = call[k].request.job
    BY <1>1, RequestKinds DEF CallInv
  <1>3. PICK view \in Views : view = call[k].view
    BY DEF CallsTypeOK, CallRecords
  <1>4. /\ call[k].reply = "none" /\ call[k].outcome \notin {"result", "conflict"}
        /\ call[k].request \in Requests /\ ~IsReport(k)
    BY <1>1 DEF CallInv, ConflictReplies, IsReport
  <1>5. CASE ReadJob(k) /\ job[j].status = "ABSENT"
    <2>1. Answer(k, "job_not_found")
      BY <1>2, <1>5 DEF ReadJob
    <2>2. PICK r : r = call[k].request.report
      OBVIOUS
    <2> QED
      BY <1>1, <2>1, <2>2, AnswerStep DEF Replies, ConflictReplies
  <1>6. CASE ReadJob(k) /\ job[j].status # "ABSENT"
    <2>1. PICK seen : seen = WithJob(view, j)
      OBVIOUS
    <2>2. call' = [call EXCEPT ![k].phase = "job_read", ![k].view = seen]
      BY <1>2, <1>3, <1>6, <2>1 DEF ReadJob
    <2>3. view = EmptyView
      BY <1>3, <1>6 DEF ReadJob, Arrived, CallInv
    <2>4. seen \in Views /\ JobRead(seen, j)
      BY <2>1, <2>3, ViewReads
    <2>5. /\ CallsTypeOK'
          /\ \A l \in Calls : l # k => call'[l] = call[l]
          /\ call'[k].phase = "job_read" /\ call'[k].view = seen
          /\ call'[k].reply = call[k].reply /\ call'[k].outcome = call[k].outcome
          /\ call'[k].request = call[k].request
      BY <2>2, <2>4, ViewUpdates
    <2>6. JobRead(seen, j)'
      BY <1>1, <2>4 DEF JobRead, vars
    <2>7. CallInv(k)'
      BY <1>1, <1>2, <1>4, <2>5, <2>6 DEF CallInv, IsReport, Viewed
    <2> QED
      BY <1>1, <1>4, <2>5, <2>7 DEF CallStep, Accepted, IsReport
  <1>7. CASE ReadAttempt(k)
    <2>1. PICK seen : seen = WithAttempt(view, j)
      OBVIOUS
    <2>2. call' = [call EXCEPT ![k].phase = "attempt_read", ![k].view = seen]
      BY <1>2, <1>3, <1>7, <2>1 DEF ReadAttempt
    <2>3. JobRead(view, j)
      BY <1>2, <1>3, <1>7 DEF ReadAttempt, CallInv
    <2>4. seen \in Views /\ AttemptRead(seen, j)
      BY <2>1, <2>3, ViewReads
    <2>5. /\ CallsTypeOK'
          /\ \A l \in Calls : l # k => call'[l] = call[l]
          /\ call'[k].phase = "attempt_read" /\ call'[k].view = seen
          /\ call'[k].reply = call[k].reply /\ call'[k].outcome = call[k].outcome
          /\ call'[k].request = call[k].request
      BY <2>2, <2>4, ViewUpdates
    <2>6. AttemptRead(seen, j)'
      BY <1>1, <2>4 DEF AttemptRead, vars
    <2>7. CallInv(k)'
      BY <1>1, <1>2, <1>4, <2>5, <2>6 DEF CallInv, IsReport, Viewed
    <2> QED
      BY <1>1, <1>4, <2>5, <2>7 DEF CallStep, Accepted, IsReport
  <1>8. CASE ReadLease(k)
    <2>1. PICK seen : seen = WithLease(view, j)
      OBVIOUS
    <2>2. call' = [call EXCEPT ![k].phase = "answered", ![k].reply = "ok", ![k].view = seen]
      BY <1>2, <1>3, <1>8, <2>1 DEF ReadLease
    <2>3. AttemptRead(view, j)
      BY <1>2, <1>3, <1>8 DEF ReadLease, CallInv
    <2>4. seen \in Views /\ LeaseRead(seen)
      BY <2>1, <2>3, ViewReads
    <2>5. /\ CallsTypeOK'
          /\ \A l \in Calls : l # k => call'[l] = call[l]
          /\ call'[k].phase = "answered" /\ call'[k].view = seen
          /\ call'[k].reply = "ok" /\ call'[k].outcome = call[k].outcome
          /\ call'[k].request = call[k].request
      BY <2>2, <2>4, ViewUpdates
    <2>6. CallInv(k)'
      BY <1>1, <1>2, <1>4, <2>4, <2>5 DEF CallInv, IsReport, Viewed, LeaseRead
    <2> QED
      BY <1>1, <1>4, <2>5, <2>6 DEF CallStep, Accepted, IsReport
  <1> QED
    BY <1>2, <1>5, <1>6, <1>7, <1>8

----------------------------------------------------------------------------
(* The invariant *)

\* Nothing outside the reports makes an attempt fail.
LEMMA KernelFailures ==
    ASSUME KernelInv, Kernel
    PROVE  \A c \in DOMAIN lease' : attempt'[c].status \in FailedAttemptStatuses =>
              c \in DOMAIN lease /\ attempt[c].status \in FailedAttemptStatuses
  <1> DEFINE Holds == \A c \in DOMAIN lease' :
                         attempt'[c].status \in FailedAttemptStatuses =>
                            c \in DOMAIN lease /\ attempt[c].status \in FailedAttemptStatuses
  <1>1. TypeOK /\ DOMAIN attempt = DOMAIN lease
    BY DEF KernelInv, TypeOK
  <1>2. CASE UNCHANGED <<attempt, lease>>
    BY <1>2
  <1>3. ASSUME NEW w \in Workers, NEW conc \in Concurrencies, NEW j \in Jobs,
               NEW c \in Claims, NEW timeout \in LeaseTimeouts, NEW at \in Nows,
               ClaimJob(w, conc, j, c, timeout, at)
        PROVE  Holds
    <2>1. /\ \A d : d \in DOMAIN lease' <=> d \in DOMAIN lease \/ d = c
          /\ \A d \in DOMAIN lease : attempt'[d] = attempt[d]
      BY <1>1, <1>3, ClaimJobEffect
    <2>2. attempt'[c].status = "CLAIMED"
      BY <1>1, <1>3 DEF ClaimJob, Insert
    <2> QED
      BY <2>1, <2>2 DEF FailedAttemptStatuses
  <1>4. ASSUME NEW r \in Heartbeats, NEW run \in BOOLEAN, NEW timeout \in LeaseTimeouts,
               NEW at \in Nows, Heartbeat(r, run, timeout, at)
        PROVE  Holds
    <2>1. DOMAIN lease' = DOMAIN lease
      BY <1>1, <1>4, HeartbeatEffect
    <2> QED
      BY <1>1, <1>4, <2>1, HeartbeatAttempts DEF FailedAttemptStatuses
  <1> QED
    BY <1>2, <1>3, <1>4 DEF Kernel, CreateJob, MarkCancelRequested, Tick

\* A report that completes leaves the failures as they are, and one that fails adds its
\* own claim.
LEMMA ReportFailures ==
    ASSUME KernelInv, NEW r \in Reports,
           \/ CompleteJob(r)
           \/ \E ending \in FailedAttemptStatuses, next \in FailureNextStatuses,
                 expire \in BOOLEAN, at \in Nows : FailJob(r, ending, next, expire, at)
    PROVE  \A c \in DOMAIN lease' : attempt'[c].status \in FailedAttemptStatuses =>
              /\ c \in DOMAIN lease
              /\ attempt[c].status \in FailedAttemptStatuses \/ (c = r.token /\ ~CompleteJob(r))
  <1>1. TypeOK
    BY DEF KernelInv
  <1>2. /\ DOMAIN lease' = DOMAIN lease /\ MayReport(r)
        /\ \A d \in DOMAIN lease : d # r.token => attempt'[d] = attempt[d]
    BY <1>1, ReportEffect, ReportSettles
  <1>3. CompleteJob(r) => attempt'[r.token].status = "COMPLETED"
    <2>1. attempt[r.token] \in AttemptRows /\ r.attempt = r.token
          /\ r.token \in DOMAIN attempt
      BY <1>1, <1>2, ReportRows DEF TypeOK
    <2> QED
      BY <2>1 DEF CompleteJob, AttemptRows
  <1> QED
    BY <1>2, <1>3 DEF FailedAttemptStatuses

\* The initial states.
LEMMA InitTerminalInv == TerminalInit => TerminalInv
  <1> SUFFICES ASSUME TerminalInit PROVE TerminalInv
    OBVIOUS
  <1> DEFINE nothing == [request |-> NoCall, phase |-> "idle", reply |-> "none",
                         outcome |-> "none", view |-> EmptyView]
  <1>1. KernelInv /\ DOMAIN lease = {}
    BY InitKernelInv DEF TerminalInit, Init
  <1>2. nothing \in CallRecords
    BY EmptyViewType DEF CallRecords
  <1>3. call = [k \in Calls |-> nothing]
    BY DEF TerminalInit
  <1>4. \A k \in Calls : CallInv(k) /\ ~IsReport(k)
    BY <1>3 DEF CallInv, IsReport, Viewed, ConflictReplies
  <1>5. CallsTypeOK
    BY <1>2, <1>3 DEF CallsTypeOK
  <1> QED
    BY <1>1, <1>4, <1>5 DEF TerminalInv, OneAccepted, FailedByReport, Accepted

\* Every step keeps the invariant.
LEMMA StepTerminalInv ==
    ASSUME TerminalInv, [TerminalNext]_terminalVars
    PROVE  TerminalInv'
  <1>1. /\ KernelInv /\ CallsTypeOK /\ \A k \in Calls : CallInv(k)
        /\ OneAccepted /\ FailedByReport
    BY DEF TerminalInv
  <1>2. KernelInv' /\ Forward
    BY <1>1, StepIsService, StepKernelInv
  <1>3. \A l \in Calls : call'[l] = call[l] => CallInv(l)'
    BY <1>1, <1>2, CallInvForward
  <1>4. \A c \in DOMAIN lease : c \in DOMAIN lease'
    BY <1>2 DEF Forward
  <1> DEFINE FailuresReported(k) == \A c \in DOMAIN lease' :
                 attempt'[c].status \in FailedAttemptStatuses =>
                    /\ c \in DOMAIN lease
                    /\ \/ attempt[c].status \in FailedAttemptStatuses
                       \/ /\ IsReport(k) /\ call[k].request.op = "fail"
                          /\ call[k].request.report.token = c
  <1>5. ASSUME UNCHANGED call,
               \A c \in DOMAIN lease' : attempt'[c].status \in FailedAttemptStatuses =>
                  c \in DOMAIN lease /\ attempt[c].status \in FailedAttemptStatuses
        PROVE  TerminalInv'
    <2>1. \A k \in Calls : /\ IsReport(k)' <=> IsReport(k)
                           /\ Accepted(k)' <=> Accepted(k)
      BY <1>5 DEF IsReport, Accepted
    <2>2. OneAccepted'
      BY <1>1, <1>5, <2>1 DEF OneAccepted
    <2>3. FailedByReport'
      BY <1>1, <1>5, <2>1 DEF FailedByReport
    <2>4. CallsTypeOK' /\ \A k \in Calls : CallInv(k)'
      BY <1>1, <1>3, <1>5 DEF CallsTypeOK
    <2> QED
      BY <1>2, <2>2, <2>3, <2>4 DEF TerminalInv
  <1>6. ASSUME NEW k \in Calls, CallStep(k), FailuresReported(k),
               \/ Accepted(k)' => Accepted(k)
               \/ IsReport(k) /\ lease[call[k].request.report.token].status = "ACTIVE"
        PROVE  TerminalInv'
    <2>1. \A l \in Calls : l # k => call'[l] = call[l]
      BY <1>6 DEF CallStep
    <2>2. \A l \in Calls : l # k =>
             (IsReport(l)' <=> IsReport(l)) /\ (Accepted(l)' <=> Accepted(l))
      BY <2>1 DEF IsReport, Accepted
    <2>3. \A l \in Calls : IsReport(l) =>
             IsReport(l)' /\ call'[l].request = call[l].request
      BY <1>6, <2>1, <2>2 DEF CallStep
    <2>4. FailedByReport'
      <3> SUFFICES ASSUME NEW c \in DOMAIN lease',
                          attempt'[c].status \in FailedAttemptStatuses
                   PROVE  \E l \in Calls : IsReport(l)' /\ call'[l].request.op = "fail"
                                           /\ call'[l].request.report.token = c
        BY DEF FailedByReport
      <3>1. \E l \in Calls : IsReport(l) /\ call[l].request.op = "fail"
                             /\ call[l].request.report.token = c
        BY <1>1, <1>6 DEF FailedByReport
      <3> QED
        BY <2>3, <3>1
    <2>5. ASSUME NEW l \in Calls, l # k, Accepted(k)', Accepted(l)',
                 call'[k].request.report.token = call'[l].request.report.token
          PROVE  FALSE
      <3>1. Accepted(l) /\ call'[l].request = call[l].request
        BY <2>1, <2>2, <2>5
      <3>2. lease[call[l].request.report.token].status # "ACTIVE"
        BY <1>1, <3>1 DEF CallInv, Accepted
      <3>3. CASE Accepted(k)
        <4>1. call'[k].request = call[k].request
          BY <2>3, <3>3 DEF Accepted
        <4> QED
          BY <1>1, <2>5, <3>1, <3>3, <4>1 DEF OneAccepted
      <3>4. CASE IsReport(k) /\ lease[call[k].request.report.token].status = "ACTIVE"
        <4>1. call'[k].request = call[k].request
          BY <2>3, <3>4
        <4> QED
          BY <2>5, <3>1, <3>2, <3>4, <4>1
      <3> QED
        BY <1>6, <2>5, <3>3, <3>4
    <2>6. OneAccepted'
      <3> SUFFICES ASSUME NEW l \in Calls, NEW m \in Calls, l # m,
                          Accepted(l)', Accepted(m)',
                          call'[l].request.report.token = call'[m].request.report.token
                   PROVE  FALSE
        BY DEF OneAccepted
      <3>1. CASE l = k
        BY <2>5, <3>1
      <3>2. CASE m = k
        BY <2>5, <3>2
      <3>3. CASE l # k /\ m # k
        BY <1>1, <2>1, <2>2, <3>3 DEF OneAccepted
      <3> QED
        BY <3>1, <3>2, <3>3
    <2>7. CallsTypeOK' /\ \A l \in Calls : CallInv(l)'
      BY <1>3, <1>6, <2>1 DEF CallStep
    <2> QED
      BY <1>2, <2>4, <2>6, <2>7 DEF TerminalInv
  <1>7. CASE UNCHANGED terminalVars
    BY <1>5, <1>7 DEF terminalVars, vars
  <1>8. CASE Kernel
    <2>1. UNCHANGED call
      BY <1>8 DEF Kernel
    <2> QED
      BY <1>1, <1>5, <1>8, <2>1, KernelFailures
  <1>9. ASSUME NEW k \in Calls, SendReport(k) \/ SendSnapshot(k)
        PROVE  TerminalInv'
    <2>1. UNCHANGED vars
      BY <1>9 DEF SendReport, SendSnapshot, Send
    <2> QED
      BY <1>1, <1>6, <1>9, <2>1, SendStep DEF vars
  <1>10. ASSUME NEW k \in Calls, Receive(k) \/ TimeOut(k)
         PROVE  TerminalInv'
    <2>1. UNCHANGED vars
      BY <1>10 DEF Receive, TimeOut
    <2> QED
      BY <1>1, <1>6, <1>10, <2>1, OutcomeStep DEF vars
  <1>11. ASSUME NEW k \in Calls, Invalid(k) \/ Refuse(k) \/ ServerFault(k)
         PROVE  TerminalInv'
    <2>1. UNCHANGED vars
      BY <1>11 DEF Invalid, Refuse, ServerFault
    <2> QED
      BY <1>1, <1>2, <1>6, <1>11, <2>1, RefusalStep DEF vars
  <1>12. ASSUME NEW k \in Calls, ReadJob(k) \/ ReadAttempt(k) \/ ReadLease(k)
         PROVE  TerminalInv'
    <2>1. UNCHANGED vars
      BY <1>12 DEF ReadJob, ReadAttempt, ReadLease
    <2> QED
      BY <1>1, <1>2, <1>6, <1>12, <2>1, ReadStep DEF vars
  <1>13. ASSUME NEW k \in Calls, CompleteCall(k) \/ FailCall(k)
         PROVE  TerminalInv'
    <2>1. PICK r \in Reports : r = call[k].request.report
      BY <1>1, <1>2, <1>13, ReportStep
    <2>2. /\ CallStep(k) /\ IsReport(k) /\ lease[r.token].status = "ACTIVE"
          /\ \/ CompleteJob(r)
             \/ /\ call[k].request.op = "fail"
                /\ \E ending \in FailedAttemptStatuses, next \in FailureNextStatuses,
                      expire \in BOOLEAN, at \in Nows : FailJob(r, ending, next, expire, at)
      BY <1>1, <1>2, <1>13, <2>1, ReportStep
    <2>3. FailuresReported(k)
      BY <1>1, <2>1, <2>2, ReportFailures
    <2> QED
      BY <1>6, <2>1, <2>2, <2>3
  <1> QED
    BY <1>7, <1>8, <1>9, <1>10, <1>11, <1>12, <1>13 DEF TerminalNext, Caller, Server

\* The invariant holds throughout.
LEMMA TerminalInvHolds == TerminalSpec => []TerminalInv
  BY InitTerminalInv, StepTerminalInv, PTL DEF TerminalSpec

----------------------------------------------------------------------------
(* The theorems *)

\* The calls keep their types (CallsTypeOK), whatever is repeated or given up.
THEOREM CallsTypeCorrect == TerminalSpec => []CallsTypeOK
  BY TerminalInvHolds, PTL DEF TerminalInv

\* At most one report on a claim is answered 200 (OneReportPerClaim): the one that is
\* accepted closes the lease, and no later one finds it ACTIVE.
THEOREM OneReportAccepted == TerminalSpec => []OneReportPerClaim
  <1>1. TerminalInv => OneReportPerClaim
    BY DEF TerminalInv, CallInv, OneAccepted, Accepted, OneReportPerClaim
  <1> QED
    BY <1>1, TerminalInvHolds, PTL

\* A 409 is final (ConflictIsFinal): a report that was refused is not accepted in any
\* later state.
THEOREM ConflictsAreFinal == TerminalSpec => []ConflictIsFinal
  <1>1. TerminalInv => ConflictIsFinal
    BY DEF TerminalInv, CallInv, ConflictIsFinal
  <1> QED
    BY <1>1, TerminalInvHolds, PTL

\* A worker that repeats complete_job after it lost the reply, and gets a 409, knows that
\* the attempt is COMPLETED, unless somebody reported it failed (RepeatedCompleteIsKnown).
THEOREM RepeatedCompletesAreKnown == TerminalSpec => []RepeatedCompleteIsKnown
  <1>1. ASSUME TerminalInv, NEW k \in Calls, IsReport(k), call[k].outcome = "conflict",
               Genuine(call[k].request.report),
               \A l \in Calls : IsReport(l)
                  /\ call[l].request.report.token = call[k].request.report.token
                  => call[l].request.op = "complete"
        PROVE  attempt[call[k].request.report.token].status = "COMPLETED"
    <2>1. KernelInv /\ CallInv(k) /\ FailedByReport
      BY <1>1 DEF TerminalInv
    <2>2. PICK r \in Reports : r = call[k].request.report
      BY <1>1, <2>1, ReportOfCall
    <2>3. r.token \in DOMAIN lease
      BY <1>1, <2>1, <2>2, ReportOfCall
    <2>4. lease[r.token].status # "ACTIVE"
      BY <1>1, <2>1, <2>2, <2>3, AcceptedWhileActive DEF CallInv
    <2>5. /\ attempt[r.token].status \in AttemptStatuses
          /\ attempt[r.token].status \notin ActiveAttemptStatuses
      BY <2>1, <2>3, <2>4 DEF KernelInv, TypeOK, AttemptRows, SettledTogether
    <2>6. attempt[r.token].status \notin FailedAttemptStatuses
      BY <1>1, <2>1, <2>2, <2>3 DEF FailedByReport
    <2> QED
      BY <2>2, <2>5, <2>6 DEF AttemptStatuses
  <1>2. TerminalInv => RepeatedCompleteIsKnown
    BY <1>1 DEF RepeatedCompleteIsKnown
  <1> QED
    BY <1>2, TerminalInvHolds, PTL

\* The terminal view, read in three steps without a lock, is torn only towards what is
\* newer (ViewOnlyMovesForward).
THEOREM ViewsMoveForward == TerminalSpec => []ViewOnlyMovesForward
  <1>1. TerminalInv => ViewOnlyMovesForward
    BY DEF TerminalInv, CallInv, LeaseRead, ViewOnlyMovesForward
  <1> QED
    BY <1>1, TerminalInvHolds, PTL

\* Whatever the callers send, repeat or give up, the rows only take the steps of the
\* kernel's services, so every theorem about ServiceSpec holds below the calls.
THEOREM CallsAreServices == TerminalSpec => ServiceSpec
  <1>1. TerminalInit => Init
    BY DEF TerminalInit
  <1>2. TerminalInv /\ [TerminalNext]_terminalVars => [ServiceNext]_vars
    BY StepIsService DEF TerminalInv
  <1> QED
    BY <1>1, <1>2, TerminalInvHolds, PTL DEF TerminalSpec, ServiceSpec

=============================================================================
