------------------------- MODULE MCDispatchPipeline -------------------------
(* Small instances of DispatchPipeline for TLC. *)
EXTENDS DispatchPipeline

\* The code of an exception that carries none, and one that a provider's error carries.
OneCode == {"worker_execution_failed"}
TwoCodes == OneCode \cup {"google_provider_response_invalid"}

=============================================================================
