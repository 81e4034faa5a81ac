---------------------------- MODULE MCClaimQueue ----------------------------
(* Small instances of ClaimQueue for TLC. *)
EXTENDS ClaimQueue, TLC

CONSTANTS a, b, a1, a2, a3, b1

AThriceBOnce == (a1 :> a) @@ (a2 :> a) @@ (a3 :> a) @@ (b1 :> b)

TwoAndOne == (a :> 2) @@ (b :> 1)

BothOrSecond == (a :> {1, 2}) @@ (b :> {2})

=============================================================================
