----------------------------- MODULE ClaimRules -----------------------------
(***************************************************************************)
(* What claims and reports promise to do to the jobs: a worker with a free *)
(* slot takes a queued job it is capable of, and nobody but its holder     *)
(* ends it or puts it back, in one step each.                              *)
(***************************************************************************)
EXTENDS Naturals

CONSTANTS Jobs, Workers, NoWorker, Capacity, CanDo

VARIABLES holder, ended, load

Init ==
    /\ holder = [j \in Jobs |-> NoWorker]
    /\ ended = {}
    /\ load = [w \in Workers |-> 0]

Claim(w, j) ==
    /\ holder[j] = NoWorker /\ j \notin ended
    /\ j \in CanDo[w]
    /\ load[w] < Capacity[w]
    /\ holder' = [holder EXCEPT ![j] = w]
    /\ load' = [load EXCEPT ![w] = @ + 1]
    /\ UNCHANGED ended

Report(w, j) ==
    /\ holder[j] = w
    /\ holder' = [holder EXCEPT ![j] = NoWorker]
    /\ ended' \in {ended, ended \cup {j}}
    /\ load' = [load EXCEPT ![w] = @ - 1]

Next == \E w \in Workers, j \in Jobs : Claim(w, j) \/ Report(w, j)

Spec == Init /\ [][Next]_<<holder, ended, load>>

=============================================================================
