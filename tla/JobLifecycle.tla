---------------------------- MODULE JobLifecycle ----------------------------
(***************************************************************************)
(* What is promised of the status column of a job: it only moves forward   *)
(* along the job contract, and a job nothing dispatches stays queued.  One  *)
(* write is excepted: the last one of the compile request may set jobs     *)
(* that a worker has moved on back to "dispatched", once in all.           *)
(***************************************************************************)
CONSTANTS
    Jobs,           \* every job row a runtime may get
    Dispatchable    \* the ones a compile request sends to the workers, members of Jobs

VARIABLES
    status,
    overrun         \* the jobs the compile request has set back

Statuses == {"ABSENT", "queued", "dispatched", "running", "succeeded", "failed"}

Init ==
    /\ status = [j \in Jobs |-> "ABSENT"]
    /\ overrun = {}

Successors(s) ==
    CASE s = "ABSENT" -> {"queued"}
      [] s = "queued" -> {"dispatched", "running", "failed"}
      [] s = "dispatched" -> {"running", "failed"}
      [] s = "running" -> {"succeeded", "failed"}
      [] OTHER -> {}

\* A job that was set back while its task was under way ends without running again.
Advances(j, new) ==
    /\ \/ new \in Successors(status[j])
       \/ j \in overrun /\ status[j] = "dispatched" /\ new = "succeeded"
    /\ j \in Dispatchable \/ new = "queued"

\* One transaction may move several jobs, each by one step.
Advance ==
    /\ \E moved \in SUBSET Jobs :
          /\ \A j \in moved : Advances(j, status'[j])
          /\ \A j \in Jobs \ moved : status'[j] = status[j]
    /\ overrun' = overrun

SetBack ==
    /\ overrun = {}
    /\ overrun' = {j \in Dispatchable : status[j] # "queued"}
    /\ overrun' # {}
    /\ \A j \in Dispatchable : status[j] # "ABSENT"
    /\ \A j \in Jobs : status'[j] = IF j \in Dispatchable THEN "dispatched" ELSE status[j]

Next == Advance \/ SetBack

Spec == Init /\ [][Next]_<<status, overrun>>

=============================================================================
