--------------------------- MODULE MCRenderContent ---------------------------
(* Small instances of RenderContent for TLC. *)
EXTENDS RenderContent, TLC

CONSTANTS r1, r2

Auto == [r \in Runs |-> 0]

AllDispatched == [r \in Runs |-> Kinds]

OneDispatched == (r1 :> Kinds) @@ (r2 :> {})

=============================================================================
