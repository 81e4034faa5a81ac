--------------------------- MODULE MCRuntimeAssets ---------------------------
(* Small instances of RuntimeAssets for TLC. *)
EXTENDS RuntimeAssets, TLC

CONSTANTS video, voice, merge, v1, v2, v3, m1

ThreeVideosAndMerge == [r \in Runs |-> IF r = m1 THEN merge ELSE video]

Kinds == (video :> "render_video") @@ (voice :> "render_voice") @@ (merge :> "merge")

=============================================================================
