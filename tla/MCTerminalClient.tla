-------------------------- MODULE MCTerminalClient --------------------------
(* Small instances of TerminalClient for TLC. *)
EXTENDS TerminalClient, TLC

\* No action names a call, a worker or a claim; the two CHOOSEs have one candidate.
Symmetry == Permutations(Calls) \cup Permutations(Workers) \cup Permutations(Claims)

Retry == [ending |-> "TIMED_OUT", next |-> "WAITING_RETRY", expire |-> TRUE]
Stale == [ending |-> "STALE", next |-> "STALE", expire |-> FALSE]
Malformed == [ending |-> "FAILED", next |-> "SUCCEEDED", expire |-> FALSE]

RetryOnly == {Retry}
AnyFailure == {Retry, Stale, Malformed}

=============================================================================
