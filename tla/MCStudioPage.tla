---------------------------- MODULE MCStudioPage ----------------------------
(* Small instances of StudioPage for TLC. *)
EXTENDS StudioPage

Row(jobs, blamed, assets) == [jobs |-> jobs, blamed |-> blamed, assets |-> assets]

\* No jobs yet; jobs under way; failed and active jobs; an export, and one next to a
\* failed job; a failure that only the error columns, or only compile_status, report.
SomeRows ==
    {Row({}, {}, "none"), Queued,
     Row({"active", "failed"}, {"compile_status", "last_error"}, "media"),
     Row({}, {}, "export"), Row({"failed"}, {"compile_status", "last_error"}, "export"),
     Row({"active"}, {"last_error"}, "media"),
     Row({}, {"compile_status"}, "media")}

=============================================================================
