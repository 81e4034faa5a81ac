---------------------------- MODULE ProviderClient ----------------------------
(***************************************************************************)
(* One request to the generation service per run: GoogleProviderClient     *)
(* (app/providers/google/client.py) against the relay it calls.            *)
(*                                                                         *)
(* An image is one call.  A video is an operation the relay works on while *)
(* the client polls it, a bounded number of times; each answer replaces    *)
(* the one before, and the next poll is addressed by what the last answer  *)
(* says.  Any call may fail, and any answer may be malformed.              *)
(***************************************************************************)
EXTENDS Integers, FiniteSets

CONSTANTS
    Runs,
    MaxPolls        \* max_polls of the job, or 45

ASSUME PollsAreNatural == MaxPolls \in Nat

VARIABLES
    call,           \* the client's side, per run
    operation       \* the relay's side: the state of the video operation

clientVars == <<call, operation>>

----------------------------------------------------------------------------
\* A finished operation says so by its status or by done, and tells a failure by
\* its status or by an error object.
FinishedStates == {"succeeded", "done_with_error", "failed"}

OperationStates == {"none", "pending"} \cup FinishedStates

\* An answer of the relay: the state it reports, whether it names the operation,
\* and what it says of the video: a url, generated_videos without one, or nothing.
Answers == [state: OperationStates \ {"none"}, id: BOOLEAN, video: {"url", "generated_videos", "none"}]

\* No answer was read yet.
NoAnswer == [state |-> "none", id |-> FALSE, video |-> "none"]

\* An answer that is JSON but no operation: the client finds neither an end nor an id.
Unreadable == [state |-> "pending", id |-> FALSE, video |-> "none"]

ErrorCodes ==
    {"google_image_generation_failed", "google_video_generation_failed",
     "google_video_poll_failed", "google_video_generation_timeout",
     "google_video_download_failed", "google_provider_response_invalid",
     "google_tts_generation_failed"}

CallPhases == {"idle", "requesting", "creating", "polling", "waiting", "downloading", "speaking",
               "returned", "raised"}

Calls ==
    [phase: CallPhases, polls: 0..MaxPolls, answer: Answers \cup {NoAnswer},
     code: ErrorCodes \cup {"none"}, payload: {"none", "empty", "bytes"}]

NoCall ==
    [phase |-> "idle", polls |-> 0, answer |-> NoAnswer, code |-> "none", payload |-> "none"]

ClientInit ==
    /\ call = [r \in Runs |-> NoCall]
    /\ operation = [r \in Runs |-> "none"]

Calling(r, phase) == call[r].phase = phase

\* GoogleProviderError
Fail(r, code) == call' = [call EXCEPT ![r].phase = "raised", ![r].code = code]

Return(r, payload) == call' = [call EXCEPT ![r].phase = "returned", ![r].payload = payload]

----------------------------------------------------------------------------
\* The bytes of an image come in the answer, where they are checked, or from a url,
\* where they are not.
ImagePayloads == {"empty", "bytes"}

GenerateImage(r) ==
    /\ Calling(r, "requesting")
    /\ \/ \E code \in {"google_image_generation_failed", "google_provider_response_invalid"} :
             Fail(r, code)
       \/ \E payload \in ImagePayloads : Return(r, payload)
    /\ UNCHANGED operation

\* generate_voice never reaches the relay.
GenerateVoice(r) ==
    /\ Calling(r, "speaking")
    /\ Fail(r, "google_tts_generation_failed")
    /\ UNCHANGED operation

\* What the relay may answer about an operation: a video belongs to a success, and
\* the id matters only while there is something left to ask for.
AnswerAbout(state) ==
    {Unreadable} \cup
    {a \in Answers :
        /\ a.state = state
        /\ a.video # "none" => state = "succeeded"
        /\ ~a.id => state = "pending"}

\* _poll_video_operation refuses null as an operation before it looks at anything.
RefuseNullOperation(r) == Fail(r, "google_provider_response_invalid")

\* POST /v1/video/create: a failure, or null for an answer, may leave an operation
\* behind that nobody asks for again.
CreateOperation(r) ==
    /\ Calling(r, "creating")
    /\ \E state \in OperationStates \ {"none"} :
          /\ operation' = [operation EXCEPT ![r] = state]
          /\ \/ Fail(r, "google_video_generation_failed")
             \/ RefuseNullOperation(r)
             \/ \E a \in AnswerAbout(state) :
                   call' = [call EXCEPT ![r].phase = "polling", ![r].answer = a]

\* The relay finishes an operation; it stays as it is then.
RelayWorks(r) ==
    /\ operation[r] = "pending"
    /\ \E state \in FinishedStates : operation' = [operation EXCEPT ![r] = state]
    /\ UNCHANGED call

\* _is_video_operation_done, _extract_video_operation_error
IsDone(a) == a.state \in FinishedStates

\* Mutant: only an error object counts as an error.
HasErrorObject(a) == a.state = "done_with_error"

HasError(a) == a.state \in {"done_with_error", "failed"}

\* Mutant: one poll too many.
PollOnceMore(r) ==
    /\ Calling(r, "polling")
    /\ CASE IsDone(call[r].answer) /\ HasError(call[r].answer) ->
              Fail(r, "google_video_generation_failed")
         [] IsDone(call[r].answer) /\ ~HasError(call[r].answer) ->
              call' = [call EXCEPT ![r].phase = "downloading"]
         [] ~IsDone(call[r].answer) /\ call[r].polls > MaxPolls ->
              Fail(r, "google_video_generation_timeout")
         [] OTHER -> call' = [call EXCEPT ![r].phase = "waiting"]
    /\ UNCHANGED operation

\* One round of _poll_video_operation up to its sleep.
Look(r) ==
    /\ Calling(r, "polling")
    /\ CASE IsDone(call[r].answer) /\ HasError(call[r].answer) ->
              Fail(r, "google_video_generation_failed")
         [] IsDone(call[r].answer) /\ ~HasError(call[r].answer) ->
              call' = [call EXCEPT ![r].phase = "downloading"]
         [] ~IsDone(call[r].answer) /\ call[r].polls = MaxPolls ->
              Fail(r, "google_video_generation_timeout")
         [] OTHER -> call' = [call EXCEPT ![r].phase = "waiting"]
    /\ UNCHANGED operation

\* The sleep and _fetch_video_operation: without an id or a name in the last answer
\* there is nothing to ask for.
Fetch(r) ==
    /\ Calling(r, "waiting")
    /\ \/ Fail(r, "google_video_poll_failed")
       \/ /\ call[r].answer.id
          /\ \E a \in AnswerAbout(operation[r]) :
                call' = [call EXCEPT ![r].phase = "polling", ![r].answer = a, ![r].polls = @ + 1]
    /\ UNCHANGED operation

\* _extract_generated_video: the HTTP client has no files service, so that
\* generated_videos cannot be downloaded; an empty video is refused.
Download(r) ==
    /\ Calling(r, "downloading")
    /\ \/ /\ call[r].answer.video # "url"
          /\ Fail(r, IF call[r].answer.video = "none" THEN "google_provider_response_invalid"
                     ELSE "google_video_download_failed")
       \/ /\ call[r].answer.video = "url"
          /\ \/ Fail(r, "google_video_download_failed")
             \/ Fail(r, "google_provider_response_invalid")
             \/ Return(r, "bytes")
    /\ UNCHANGED operation

ClientStep(r) ==
    \/ GenerateImage(r) \/ GenerateVoice(r)
    \/ CreateOperation(r) \/ Look(r) \/ Fetch(r) \/ Download(r)

----------------------------------------------------------------------------
(* Properties *)

ClientTypeOK ==
    /\ call \in [Runs -> Calls]
    /\ operation \in [Runs -> OperationStates]

\* What a run of a video concludes is what the relay did.  Bytes, and complaints about
\* the video, come from an operation that succeeded; google_provider_response_invalid
\* is such a complaint once an answer was read, and says nothing of the operation
\* before.  The operation is blamed only if it failed, and a timeout means that it was
\* unfinished in the answer to the last of all the polls.
VideoOutcomeIsReal ==
    \A r \in Runs : operation[r] # "none" =>
        /\ \/ Calling(r, "returned")
           \/ call[r].code = "google_video_download_failed"
           \/ call[r].code = "google_provider_response_invalid" /\ call[r].answer # NoAnswer
           => operation[r] = "succeeded"
        /\ call[r].code = "google_video_generation_failed" /\ call[r].answer # NoAnswer =>
              operation[r] \in {"done_with_error", "failed"}
        /\ call[r].code = "google_video_generation_timeout" =>
              call[r].polls = MaxPolls /\ call[r].answer.state = "pending"

=============================================================================
