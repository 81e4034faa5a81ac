------------------------- MODULE RenderContentProofs -------------------------
(***************************************************************************)
(* Proofs about RenderContent and ProviderClient, for every set of runs,   *)
(* every plan, any number of polls and whatever the relay answers.         *)
(*                                                                         *)
(* Rows are only added, so that what a query saw stays as it was (Grow).   *)
(* A version that was chosen by the count is one more than the count, and  *)
(* the count is behind the place the row gets.  The sequence a request     *)
(* chooses comes first among at least the sequences of its own packet.     *)
(***************************************************************************)
EXTENDS RenderContent, LeastNumber

----------------------------------------------------------------------------
(* The invariant *)

\* The client and its operation: there is none before it is created, an answer that ends
\* the polling tells the state the operation is in, and what was concluded was right.
ClientInv(r) ==
    /\ call[r].phase \in {"idle", "requesting", "creating", "speaking"} =>
          operation[r] = "none" /\ call[r].code = "none" /\ call[r].answer = NoAnswer
    /\ call[r].phase # "raised" => call[r].code = "none"
    /\ call[r].phase \in {"polling", "waiting", "downloading"} =>
          /\ operation[r] # "none" /\ call[r].answer \in Answers
          /\ IsDone(call[r].answer) => call[r].answer.state = operation[r]
    /\ call[r].phase = "waiting" => ~IsDone(call[r].answer) /\ call[r].polls < MaxPolls
    /\ call[r].phase = "downloading" => operation[r] = "succeeded"
    /\ operation[r] # "none" =>
          /\ \/ call[r].phase = "returned"
             \/ call[r].code = "google_video_download_failed"
             \/ /\ call[r].code = "google_provider_response_invalid"
                /\ call[r].answer # NoAnswer
             => operation[r] = "succeeded"
          /\ call[r].code = "google_video_generation_failed" /\ call[r].answer # NoAnswer =>
                operation[r] \in {"done_with_error", "failed"}
          /\ call[r].code = "google_video_generation_timeout" =>
                call[r].polls = MaxPolls /\ call[r].answer.state = "pending"

\* The selector s comes first among the first n sequences.
ComesFirst(s, n) ==
    s \in 1..Len(sequences) /\ \A t \in 1..n : sequences[s] <= sequences[t]

\* The packet of a request was valid and is there, and its version follows its count.
RequestInv(r) ==
    /\ request[r].packet.sequences <= Len(sequences)
    /\ request[r].packet.spus <= Len(spus) /\ request[r].packet.vbus <= Len(vbus)
    /\ request[r].image <= Len(spus)
    /\ request[r].phase \in {"valid", "versioned", "planned", "read", "selected", "prompted"} =>
          Len(sequences) > 0
    /\ request[r].phase \in {"planned", "read", "selected", "prompted"} =>
          request[r].packet.sequences > 0
    /\ request[r].phase \in {"versioned", "planned", "read", "selected", "prompted"} =>
          /\ request[r].counted <= Len(runtimes)
          /\ ExplicitVersion[r] = 0 => request[r].version = request[r].counted + 1
    /\ request[r].phase \in {"selected", "prompted"} =>
          ComesFirst(request[r].selector, request[r].packet.sequences)

\* The same of a runtime, whose request has been sent and keeps its selector.
RuntimeInv(n) ==
    LET row == runtimes[n] IN
    /\ row.packet.sequences \in 1..Len(sequences)
    /\ row.packet.spus <= Len(spus) /\ row.packet.vbus <= Len(vbus)
    /\ row.counted < n /\ (row.auto => row.version = row.counted + 1)
    /\ request[row.by].phase \in {"sent", "taken"}
    /\ ComesFirst(request[row.by].selector, row.packet.sequences)

\* A job that was taken has a runtime, and its call begins when its inputs are selected.
InputInv(r) ==
    /\ input[r].phase = "none" <=> request[r].phase # "taken"
    /\ input[r].phase = "none" => input[r].kind = "none"
    /\ input[r].phase # "none" => input[r].runtime \in 1..Len(runtimes)
    /\ input[r].phase # "selected" => call[r].phase = "idle"

RenderInv ==
    /\ TypeOK /\ FirstPromptIsRendered
    /\ \A r \in Runs : ClientInv(r) /\ RequestInv(r) /\ InputInv(r)
    /\ \A n \in 1..Len(runtimes) : RuntimeInv(n)

----------------------------------------------------------------------------
(* What comes first *)

\* The index of a sequence is a natural number.
LEMMA IndexesAreNatural ==
    ASSUME TypeOK, NEW s \in 1..Len(sequences)
    PROVE  sequences[s] \in Nat
  <1>1. sequences \in Seq(Indexes)
    BY DEF TypeOK
  <1>2. sequences[s] \in Indexes
    BY <1>1
  <1> QED
    BY <1>2, RequestsAreTyped

\* Of some sequences one has the least index.
LEMMA FirstExists ==
    ASSUME TypeOK, NEW S, S \subseteq 1..Len(sequences), S # {}
    PROVE  \E s \in S : \A t \in S : sequences[s] <= sequences[t]
  <1> DEFINE T == {sequences[s] : s \in S}
  <1>1. T \subseteq Nat /\ T # {}
    BY IndexesAreNatural
  <1>2. PICK x \in T : \A y \in T : x <= y
    BY <1>1, LeastNatural
  <1>3. PICK s \in S : x = sequences[s]
    BY <1>2
  <1> QED
    BY <1>2, <1>3

\* The primary sequence of the first n comes first among them.
LEMMA PrimaryComesFirst ==
    ASSUME TypeOK, NEW n \in 1..Len(sequences)
    PROVE  /\ PrimarySequence(n) \in 1..n
           /\ \A t \in 1..n : sequences[PrimarySequence(n)] <= sequences[t]
  <1>0. Len(sequences) \in Nat /\ 1..n \subseteq 1..Len(sequences) /\ n \in 1..n /\ n # 0
    <2>1. sequences \in Seq(Indexes)
      BY DEF TypeOK
    <2> QED
      BY <2>1
  <1> DEFINE Before(s) == \A t \in 1..n :
                sequences[s] < sequences[t] \/ (sequences[s] = sequences[t] /\ s <= t)
  <1>1. PICK a \in 1..n : \A t \in 1..n : sequences[a] <= sequences[t]
    BY <1>0, FirstExists
  <1> DEFINE S == {s \in 1..n : sequences[s] = sequences[a]}
  <1>2. S \subseteq Nat /\ S # {}
    BY <1>1
  <1>3. PICK s \in S : \A t \in S : s <= t
    BY <1>2, LeastNatural
  <1>4. Before(s)
    <2> SUFFICES ASSUME NEW t \in 1..n
                 PROVE  \/ sequences[s] < sequences[t]
                        \/ sequences[s] = sequences[t] /\ s <= t
      OBVIOUS
    <2>1. sequences[s] = sequences[a] /\ sequences[a] <= sequences[t]
      BY <1>1, <1>3
    <2>2. sequences[a] \in Nat /\ sequences[t] \in Nat
      BY <1>0, IndexesAreNatural
    <2>3. CASE t \in S
      BY <1>3, <2>1, <2>3
    <2>4. CASE t \notin S
      BY <2>1, <2>2, <2>4
    <2> QED
      BY <2>3, <2>4
  <1>5. PrimarySequence(n) = CHOOSE c \in 1..n : Before(c)
    BY <1>0 DEF PrimarySequence
  <1> HIDE DEF Before
  <1>6. PrimarySequence(n) \in 1..n /\ Before(PrimarySequence(n))
    BY <1>3, <1>4, <1>5
  <1>7. \A t \in 1..n : sequences[t] \in Nat
    BY <1>0, IndexesAreNatural
  <1> QED
    BY <1>6, <1>7 DEF Before

----------------------------------------------------------------------------
(* The provider client *)

\* What a step makes of the call of r.
CallBecomes(r, phase, polls, answer, code) ==
    /\ call' \in [Runs -> Calls]
    /\ \A q \in Runs : q # r => call'[q] = call[q]
    /\ call'[r].phase = phase /\ call'[r].polls = polls
    /\ call'[r].answer = answer /\ call'[r].code = code

\* The updates of a call keep its type.
LEMMA CallUpdates ==
    ASSUME ClientTypeOK, NEW r \in Runs
    PROVE  /\ \A code \in ErrorCodes : Fail(r, code) =>
                 CallBecomes(r, "raised", call[r].polls, call[r].answer, code)
           /\ \A payload \in {"none", "empty", "bytes"} : Return(r, payload) =>
                 CallBecomes(r, "returned", call[r].polls, call[r].answer, call[r].code)
           /\ \A phase \in CallPhases : call' = [call EXCEPT ![r].phase = phase] =>
                 CallBecomes(r, phase, call[r].polls, call[r].answer, call[r].code)
           /\ \A phase \in CallPhases, a \in Answers :
                 call' = [call EXCEPT ![r].phase = phase, ![r].answer = a] =>
                 CallBecomes(r, phase, call[r].polls, a, call[r].code)
           /\ \A phase \in CallPhases, a \in Answers :
                 call[r].polls < MaxPolls
                 /\ call' = [call EXCEPT ![r].phase = phase, ![r].answer = a,
                                         ![r].polls = @ + 1] =>
                 CallBecomes(r, phase, call[r].polls + 1, a, call[r].code)
  <1> DEFINE answers == Answers \cup {NoAnswer}
             codes == ErrorCodes \cup {"none"}
             polls == 0..MaxPolls
             payloads == {"none", "empty", "bytes"}
  <1>1. Calls = [phase: CallPhases, polls: polls, answer: answers, code: codes,
                 payload: payloads]
    BY DEF Calls
  <1>2. /\ call \in [Runs -> [phase: CallPhases, polls: polls, answer: answers,
                              code: codes, payload: payloads]]
        /\ "raised" \in CallPhases /\ "returned" \in CallPhases
        /\ Answers \subseteq answers /\ ErrorCodes \subseteq codes
    BY <1>1 DEF ClientTypeOK, CallPhases
  <1>3. call[r].polls < MaxPolls => call[r].polls + 1 \in polls
    BY <1>2, PollsAreNatural
  <1> HIDE DEF answers, codes, polls, payloads
  <1>4. ASSUME NEW code \in ErrorCodes, Fail(r, code)
        PROVE  CallBecomes(r, "raised", call[r].polls, call[r].answer, code)
    BY <1>1, <1>2, <1>4 DEF Fail, CallBecomes
  <1>5. ASSUME NEW payload \in payloads, Return(r, payload)
        PROVE  CallBecomes(r, "returned", call[r].polls, call[r].answer, call[r].code)
    BY <1>1, <1>2, <1>5 DEF Return, CallBecomes
  <1>6. ASSUME NEW phase \in CallPhases, call' = [call EXCEPT ![r].phase = phase]
        PROVE  CallBecomes(r, phase, call[r].polls, call[r].answer, call[r].code)
    BY <1>1, <1>2, <1>6 DEF CallBecomes
  <1>7. ASSUME NEW phase \in CallPhases, NEW a \in Answers,
               call' = [call EXCEPT ![r].phase = phase, ![r].answer = a]
        PROVE  CallBecomes(r, phase, call[r].polls, a, call[r].code)
    BY <1>1, <1>2, <1>7 DEF CallBecomes
  <1>8. ASSUME NEW phase \in CallPhases, NEW a \in Answers, call[r].polls < MaxPolls,
               call' = [call EXCEPT ![r].phase = phase, ![r].answer = a, ![r].polls = @ + 1]
        PROVE  CallBecomes(r, phase, call[r].polls + 1, a, call[r].code)
    <2> DEFINE n == call[r].polls + 1
    <2>1. n \in polls
      BY <1>3, <1>8
    <2>2. call' = [call EXCEPT ![r].phase = phase, ![r].answer = a, ![r].polls = n]
      BY <1>8
    <2> HIDE DEF n
    <2>3. CallBecomes(r, phase, n, a, call[r].code)
      BY <1>1, <1>2, <2>1, <2>2 DEF CallBecomes
    <2> QED
      BY <2>3 DEF n
  <1> QED
    BY <1>4, <1>5, <1>6, <1>7, <1>8 DEF payloads

\* The state an answer reports, and when it ends the polling.
LEMMA AnswerStates ==
    ASSUME NEW a \in Answers
    PROVE  /\ a.state \in OperationStates \ {"none"} /\ a # NoAnswer
           /\ IsDone(a) <=> a.state \in {"succeeded", "done_with_error", "failed"}
           /\ ~IsDone(a) => a.state = "pending"
           /\ HasError(a) <=> a.state \in {"done_with_error", "failed"}
  BY DEF Answers, NoAnswer, IsDone, FinishedStates, OperationStates, HasError

\* An answer about an operation is typed, and tells its state if it ends the polling.
LEMMA AnswersAreTrue ==
    ASSUME NEW state \in OperationStates \ {"none"}, NEW a \in AnswerAbout(state)
    PROVE  a \in Answers /\ (IsDone(a) => a.state = state)
  <1>1. Unreadable \in Answers /\ ~IsDone(Unreadable)
    BY DEF Unreadable, Answers, OperationStates, IsDone, FinishedStates
  <1> QED
    BY <1>1 DEF AnswerAbout

\* A step of the client keeps its types and ClientInv, and leaves the other runs alone.
LEMMA ClientStepEffect ==
    ASSUME ClientTypeOK, NEW r \in Runs, ClientInv(r), ClientStep(r)
    PROVE  /\ ClientTypeOK' /\ ClientInv(r)' /\ call[r].phase # "idle"
           /\ \A q \in Runs : q # r => call'[q] = call[q] /\ operation'[q] = operation[q]
  <1> DEFINE Holds == /\ ClientTypeOK' /\ ClientInv(r)' /\ call[r].phase # "idle"
                      /\ \A q \in Runs : q # r =>
                            call'[q] = call[q] /\ operation'[q] = operation[q]
  <1>0. /\ operation \in [Runs -> OperationStates] /\ call[r].polls \in 0..MaxPolls
        /\ call[r].answer \in Answers \cup {NoAnswer}
    BY DEF ClientTypeOK, Calls
  <1>1. CASE GenerateImage(r)
    <2>1. /\ call[r].phase = "requesting" /\ operation' = operation
          /\ \/ \E code \in {"google_image_generation_failed",
                             "google_provider_response_invalid"} : Fail(r, code)
             \/ \E payload \in {"empty", "bytes"} : Return(r, payload)
      BY <1>1 DEF GenerateImage, Calling, ImagePayloads
    <2>2. \E phase \in {"raised", "returned"},
             code \in {"none", "google_image_generation_failed",
                       "google_provider_response_invalid"} :
             /\ CallBecomes(r, phase, call[r].polls, call[r].answer, code)
             /\ phase = "returned" => code = "none"
      BY <2>1, CallUpdates DEF ErrorCodes, ClientInv
    <2> QED
      BY <1>0, <2>1, <2>2 DEF CallBecomes, ClientTypeOK, ClientInv
  <1>2. CASE GenerateVoice(r)
    <2>1. call[r].phase = "speaking" /\ operation' = operation
          /\ Fail(r, "google_tts_generation_failed")
      BY <1>2 DEF GenerateVoice, Calling
    <2>2. CallBecomes(r, "raised", call[r].polls, call[r].answer, "google_tts_generation_failed")
      BY <2>1, CallUpdates DEF ErrorCodes
    <2> QED
      BY <1>0, <2>1, <2>2 DEF CallBecomes, ClientTypeOK, ClientInv
  <1>3. CASE CreateOperation(r)
    <2>1. PICK state \in OperationStates \ {"none"} :
             /\ operation' = [operation EXCEPT ![r] = state]
             /\ \/ \E code \in {"google_video_generation_failed",
                                "google_provider_response_invalid"} : Fail(r, code)
                \/ \E a \in AnswerAbout(state) :
                      call' = [call EXCEPT ![r].phase = "polling", ![r].answer = a]
      BY <1>3 DEF CreateOperation, RefuseNullOperation
    <2>2. /\ call[r].phase = "creating" /\ call[r].answer = NoAnswer
          /\ call[r].code = "none"
      BY <1>3 DEF CreateOperation, RefuseNullOperation, Calling, ClientInv
    <2>3. /\ operation' \in [Runs -> OperationStates] /\ operation'[r] = state
          /\ \A q \in Runs : q # r => operation'[q] = operation[q]
      BY <1>0, <2>1
    <2>4. ASSUME NEW code \in {"google_video_generation_failed",
                               "google_provider_response_invalid"},
                 Fail(r, code)
          PROVE  Holds
      <3>1. CallBecomes(r, "raised", call[r].polls, NoAnswer, code)
        BY <2>2, <2>4, CallUpdates DEF ErrorCodes
      <3> QED
        BY <2>2, <2>3, <3>1 DEF CallBecomes, ClientTypeOK, ClientInv
    <2>5. ASSUME NEW a \in AnswerAbout(state),
                 call' = [call EXCEPT ![r].phase = "polling", ![r].answer = a]
          PROVE  Holds
      <3>1. a \in Answers /\ (IsDone(a) => a.state = state)
        BY AnswersAreTrue
      <3>2. CallBecomes(r, "polling", call[r].polls, a, "none")
        BY <2>2, <2>5, <3>1, CallUpdates DEF CallPhases
      <3> QED
        BY <2>2, <2>3, <3>1, <3>2 DEF CallBecomes, ClientTypeOK, ClientInv
    <2> QED
      BY <2>1, <2>4, <2>5
  <1>4. CASE Look(r)
    <2>1. /\ call[r].phase = "polling" /\ operation' = operation /\ operation[r] # "none"
          /\ call[r].answer \in Answers /\ call[r].code = "none"
          /\ IsDone(call[r].answer) => call[r].answer.state = operation[r]
      BY <1>4 DEF Look, Calling, ClientInv
    <2> DEFINE a == call[r].answer
    <2>2. CASE IsDone(a) /\ HasError(a)
      <3>1. Fail(r, "google_video_generation_failed")
        BY <1>4, <2>2 DEF Look
      <3>2. CallBecomes(r, "raised", call[r].polls, a, "google_video_generation_failed")
        BY <3>1, CallUpdates DEF ErrorCodes
      <3> QED
        BY <1>0, <2>1, <2>2, <3>2, AnswerStates DEF CallBecomes, ClientTypeOK, ClientInv
    <2>3. CASE IsDone(a) /\ ~HasError(a)
      <3>1. call' = [call EXCEPT ![r].phase = "downloading"]
        BY <1>4, <2>3 DEF Look
      <3>2. CallBecomes(r, "downloading", call[r].polls, a, "none")
        BY <2>1, <3>1, CallUpdates DEF CallPhases
      <3> QED
        BY <1>0, <2>1, <2>3, <3>2, AnswerStates DEF CallBecomes, ClientTypeOK, ClientInv
    <2>4. CASE ~IsDone(a) /\ call[r].polls = MaxPolls
      <3>1. Fail(r, "google_video_generation_timeout")
        BY <1>4, <2>4 DEF Look
      <3>2. CallBecomes(r, "raised", call[r].polls, a, "google_video_generation_timeout")
        BY <3>1, CallUpdates DEF ErrorCodes
      <3> QED
        BY <1>0, <2>1, <2>4, <3>2, AnswerStates DEF CallBecomes, ClientTypeOK, ClientInv
    <2>5. CASE ~IsDone(a) /\ call[r].polls # MaxPolls
      <3>1. call' = [call EXCEPT ![r].phase = "waiting"]
        BY <1>4, <2>5 DEF Look
      <3>2. CallBecomes(r, "waiting", call[r].polls, a, "none")
        BY <2>1, <3>1, CallUpdates DEF CallPhases
      <3>3. call[r].polls < MaxPolls
        BY <1>0, <2>5, PollsAreNatural
      <3> QED
        BY <1>0, <2>1, <2>5, <3>2, <3>3 DEF CallBecomes, ClientTypeOK, ClientInv
    <2> QED
      BY <2>2, <2>3, <2>4, <2>5
  <1>5. CASE Fetch(r)
    <2>1. /\ call[r].phase = "waiting" /\ operation' = operation /\ operation[r] # "none"
          /\ call[r].code = "none" /\ call[r].polls < MaxPolls
      BY <1>5 DEF Fetch, Calling, ClientInv
    <2>2. CASE Fail(r, "google_video_poll_failed")
      <3>1. CallBecomes(r, "raised", call[r].polls, call[r].answer, "google_video_poll_failed")
        BY <2>2, CallUpdates DEF ErrorCodes
      <3> QED
        BY <1>0, <2>1, <3>1 DEF CallBecomes, ClientTypeOK, ClientInv
    <2>3. ASSUME NEW a \in AnswerAbout(operation[r]),
                 call' = [call EXCEPT ![r].phase = "polling", ![r].answer = a,
                                      ![r].polls = @ + 1]
          PROVE  Holds
      <3>1. a \in Answers /\ (IsDone(a) => a.state = operation[r])
        BY <2>1, AnswersAreTrue DEF ClientTypeOK
      <3>2. CallBecomes(r, "polling", call[r].polls + 1, a, "none")
        BY <2>1, <2>3, <3>1, CallUpdates DEF CallPhases
      <3> QED
        BY <1>0, <2>1, <3>1, <3>2 DEF CallBecomes, ClientTypeOK, ClientInv
    <2> QED
      BY <1>5, <2>2, <2>3 DEF Fetch
  <1>6. CASE Download(r)
    <2>1. /\ call[r].phase = "downloading" /\ operation' = operation
          /\ operation[r] = "succeeded" /\ call[r].code = "none"
      BY <1>6 DEF Download, Calling, ClientInv
    <2>2. \/ \E code \in {"google_provider_response_invalid", "google_video_download_failed"} :
                Fail(r, code)
          \/ Return(r, "bytes")
      BY <1>6 DEF Download
    <2>3. \E phase \in {"raised", "returned"},
             code \in {"none", "google_video_download_failed",
                       "google_provider_response_invalid"} :
             /\ CallBecomes(r, phase, call[r].polls, call[r].answer, code)
             /\ phase = "returned" => code = "none"
      BY <2>1, <2>2, CallUpdates DEF ErrorCodes
    <2> QED
      BY <1>0, <2>1, <2>3 DEF CallBecomes, ClientTypeOK, ClientInv
  <1> QED
    BY <1>1, <1>2, <1>3, <1>4, <1>5, <1>6 DEF ClientStep

\* The relay finishes an operation nobody has concluded anything from.
LEMMA RelayEffect ==
    ASSUME ClientTypeOK, NEW r \in Runs, ClientInv(r), RelayWorks(r)
    PROVE  /\ ClientTypeOK' /\ ClientInv(r)' /\ UNCHANGED call
           /\ \A q \in Runs : q # r => operation'[q] = operation[q]
  <1>1. PICK state \in FinishedStates : operation' = [operation EXCEPT ![r] = state]
    BY DEF RelayWorks
  <1>2. operation[r] = "pending" /\ call' = call
    BY DEF RelayWorks
  <1>3. /\ state \in OperationStates /\ state # "none"
        /\ operation' \in [Runs -> OperationStates] /\ operation'[r] = state
        /\ \A q \in Runs : q # r => operation'[q] = operation[q]
    BY <1>1 DEF ClientTypeOK, OperationStates, FinishedStates
  <1>4. ClientTypeOK'
    BY <1>2, <1>3 DEF ClientTypeOK
  <1>5. call[r].answer \in Answers /\ IsDone(call[r].answer) =>
           call[r].answer.state # "pending"
    BY AnswerStates
  <1>6. ClientInv(r)'
    BY <1>2, <1>3, <1>5 DEF ClientInv
  <1> QED
    BY <1>2, <1>3, <1>4, <1>6

\* What was concluded of a video is part of ClientInv.
LEMMA ClientInvOutcome == (\A r \in Runs : ClientInv(r)) => VideoOutcomeIsReal
  BY DEF ClientInv, VideoOutcomeIsReal, Calling

----------------------------------------------------------------------------
(* Rows are only added *)

Grows(s, t) == Len(s) <= Len(t) /\ \A i \in 1..Len(s) : t[i] = s[i]

Grow ==
    /\ Grows(sequences, sequences') /\ Grows(spus, spus')
    /\ Grows(vbus, vbus') /\ Grows(runtimes, runtimes')

\* A sequence grows when a row is appended, and when it stays as it is.
LEMMA AppendGrows ==
    ASSUME NEW S, NEW s \in Seq(S), NEW x \in S
    PROVE  /\ Append(s, x) \in Seq(S) /\ Grows(s, Append(s, x)) /\ Grows(s, s)
           /\ Len(Append(s, x)) = Len(s) + 1 /\ Append(s, x)[Len(s) + 1] = x
           /\ Len(s) \in Nat
  BY DEF Grows

\* The lengths of the tables.
LEMMA Lengths ==
    ASSUME TypeOK
    PROVE  /\ Len(sequences) \in 0..MaxSequences /\ Len(spus) \in 0..MaxSpus
           /\ Len(vbus) \in 0..MaxVbus /\ Len(runtimes) \in Nat
           /\ Len(sequences) \in Nat /\ Len(spus) \in Nat /\ Len(vbus) \in Nat
  <1>1. /\ sequences \in Seq(Indexes) /\ Len(sequences) <= MaxSequences
        /\ spus \in Seq(Spus) /\ Len(spus) <= MaxSpus
        /\ vbus \in Seq(Vbus) /\ Len(vbus) <= MaxVbus
        /\ runtimes \in Seq(Runtimes)
    BY DEF TypeOK
  <1> QED
    BY <1>1, RequestsAreTyped

\* The fields of the records.
LEMMA Fields ==
    ASSUME TypeOK
    PROVE  /\ \A r \in Runs :
                 /\ request[r].phase \in RequestPhases /\ request[r].packet \in Packets
                 /\ request[r].packet.sequences \in Nat /\ request[r].packet.spus \in Nat
                 /\ request[r].packet.vbus \in Nat
                 /\ request[r].counted \in Nat /\ request[r].version \in Nat
                 /\ request[r].selector \in 0..MaxSequences
                 /\ request[r].image \in 0..MaxSpus
           /\ \A n \in 1..Len(runtimes) :
                 /\ runtimes[n].by \in Runs /\ runtimes[n].packet \in Packets
                 /\ runtimes[n].packet.sequences \in Nat /\ runtimes[n].packet.spus \in Nat
                 /\ runtimes[n].packet.vbus \in Nat
                 /\ runtimes[n].counted \in Nat /\ runtimes[n].version \in Nat
  <1>1. request \in [Runs -> RequestRecords] /\ runtimes \in Seq(Runtimes)
    BY DEF TypeOK
  <1>2. ASSUME NEW n \in 1..Len(runtimes) PROVE runtimes[n] \in Runtimes
    BY <1>1
  <1>3. \A p \in Packets : p.sequences \in Nat /\ p.spus \in Nat /\ p.vbus \in Nat
    BY DEF Packets
  <1> QED
    BY <1>1, <1>2, <1>3 DEF RequestRecords, Runtimes

\* What comes first among rows that are there goes on to.
LEMMA KeepsFirst ==
    ASSUME TypeOK, Grow, NEW s, NEW n \in Nat, n <= Len(sequences), ComesFirst(s, n),
           Len(sequences') \in Nat
    PROVE  ComesFirst(s, n)'
  <1>1. /\ Len(sequences) \in Nat /\ Len(sequences) <= Len(sequences')
        /\ \A i \in 1..Len(sequences) : sequences'[i] = sequences[i]
    BY Lengths DEF Grow, Grows
  <1> QED
    BY <1>1 DEF ComesFirst

\* A request that a step leaves alone keeps its invariant.
LEMMA KeepsRequest ==
    ASSUME TypeOK, TypeOK', Grow, NEW r \in Runs, RequestInv(r), request'[r] = request[r]
    PROVE  RequestInv(r)'
  <1>1. /\ Len(sequences) <= Len(sequences') /\ Len(spus) <= Len(spus')
        /\ Len(vbus) <= Len(vbus') /\ Len(runtimes) <= Len(runtimes')
    BY DEF Grow, Grows
  <1>2. /\ Len(sequences') \in Nat /\ Len(spus') \in Nat /\ Len(vbus') \in Nat
        /\ Len(runtimes') \in Nat
    <2>1. /\ sequences' \in Seq(Indexes) /\ spus' \in Seq(Spus) /\ vbus' \in Seq(Vbus)
          /\ runtimes' \in Seq(Runtimes)
      BY DEF TypeOK
    <2> QED
      BY <2>1
  <1>3. PICK s \in 0..MaxSequences : s = request[r].selector
    BY Fields
  <1>4. PICK n \in Nat : n = request[r].packet.sequences
    BY Fields
  <1>5. request[r].phase \in {"selected", "prompted"} => ComesFirst(s, n)'
    <2>1. request[r].phase \in {"selected", "prompted"} => ComesFirst(s, n)
      BY <1>3, <1>4 DEF RequestInv
    <2>2. n <= Len(sequences)
      BY <1>4 DEF RequestInv
    <2> QED
      BY <1>2, <2>1, <2>2, KeepsFirst
  <1>6. \/ request[r].phase \notin {"selected", "prompted"}
        \/ ComesFirst(request[r].selector, request[r].packet.sequences)'
    BY <1>3, <1>4, <1>5 DEF ComesFirst
  <1>7. /\ request[r].packet.sequences <= Len(sequences')
        /\ request[r].packet.spus <= Len(spus') /\ request[r].packet.vbus <= Len(vbus')
        /\ request[r].image <= Len(spus')
        /\ request[r].counted <= Len(runtimes) => request[r].counted <= Len(runtimes')
    <2>1. /\ request[r].packet.sequences \in Nat /\ request[r].packet.spus \in Nat
          /\ request[r].packet.vbus \in Nat /\ request[r].image \in Int
          /\ request[r].counted \in Nat
      BY Fields
    <2>2. /\ request[r].packet.sequences <= Len(sequences)
          /\ request[r].packet.spus <= Len(spus) /\ request[r].packet.vbus <= Len(vbus)
          /\ request[r].image <= Len(spus)
      BY DEF RequestInv
    <2>3. /\ Len(sequences) \in Nat /\ Len(spus) \in Nat /\ Len(vbus) \in Nat
          /\ Len(runtimes) \in Nat
      BY Lengths
    <2>4. request[r].packet.sequences <= Len(sequences')
      BY <1>1, <1>2, <2>1, <2>2, <2>3
    <2>5. request[r].packet.spus <= Len(spus')
      BY <1>1, <1>2, <2>1, <2>2, <2>3
    <2>6. request[r].image <= Len(spus')
      BY <1>1, <1>2, <2>1, <2>2, <2>3
    <2>7. request[r].packet.vbus <= Len(vbus')
      BY <1>1, <1>2, <2>1, <2>2, <2>3
    <2>8. request[r].counted <= Len(runtimes) => request[r].counted <= Len(runtimes')
      BY <1>1, <1>2, <2>1, <2>3
    <2> QED
      BY <2>4, <2>5, <2>6, <2>7, <2>8
  <1>8. Len(sequences) > 0 => Len(sequences') > 0
    BY <1>1, <1>2, Lengths
  <1> QED
    BY <1>6, <1>7, <1>8 DEF RequestInv

\* A runtime whose request has been sent and keeps its selector keeps its invariant.
LEMMA KeepsRuntime ==
    ASSUME TypeOK, TypeOK', Grow, NEW n \in 1..Len(runtimes), RuntimeInv(n),
           request'[runtimes[n].by].phase \in {"sent", "taken"},
           request'[runtimes[n].by].selector = request[runtimes[n].by].selector
    PROVE  RuntimeInv(n)'
  <1>1. /\ Len(sequences) <= Len(sequences') /\ Len(spus) <= Len(spus')
        /\ Len(vbus) <= Len(vbus') /\ runtimes'[n] = runtimes[n]
    BY DEF Grow, Grows
  <1>2. /\ Len(sequences') \in Nat /\ Len(spus') \in Nat /\ Len(vbus') \in Nat
    <2>1. sequences' \in Seq(Indexes) /\ spus' \in Seq(Spus) /\ vbus' \in Seq(Vbus)
      BY DEF TypeOK
    <2> QED
      BY <2>1
  <1>3. PICK s : s = request[runtimes[n].by].selector
    OBVIOUS
  <1>4. PICK m \in Nat : m = runtimes[n].packet.sequences
    BY Fields
  <1>5. ComesFirst(s, m) /\ m \in 1..Len(sequences)
    BY <1>3, <1>4 DEF RuntimeInv
  <1>6. ComesFirst(s, m)'
    BY <1>2, <1>5, KeepsFirst, Lengths
  <1>7. ComesFirst(request[runtimes[n].by].selector, runtimes[n].packet.sequences)'
    BY <1>1, <1>3, <1>4, <1>6 DEF ComesFirst
  <1> QED
    BY <1>1, <1>2, <1>7, Lengths, Fields DEF RuntimeInv

----------------------------------------------------------------------------
(* Compile requests *)

\* What a step makes of the request of r.
RequestBecomes(r, phase, packet, counted, version, selector, image) ==
    /\ request' \in [Runs -> RequestRecords]
    /\ \A q \in Runs : q # r => request'[q] = request[q]
    /\ request'[r].phase = phase /\ request'[r].packet = packet
    /\ request'[r].counted = counted /\ request'[r].version = version
    /\ request'[r].selector = selector /\ request'[r].image = image

\* The updates of a request keep its type.
LEMMA RequestUpdates ==
    ASSUME TypeOK, NEW r \in Runs, NEW phase \in RequestPhases
    PROVE  /\ request' = [request EXCEPT ![r].phase = phase] =>
                 RequestBecomes(r, phase, request[r].packet, request[r].counted,
                                request[r].version, request[r].selector, request[r].image)
           /\ \A n \in 0..MaxSequences :
                 request' = [request EXCEPT ![r].phase = phase, ![r].packet.sequences = n] =>
                 RequestBecomes(r, phase, [request[r].packet EXCEPT !.sequences = n],
                                request[r].counted, request[r].version,
                                request[r].selector, request[r].image)
           /\ \A c, v \in Nat :
                 request' = [request EXCEPT ![r].phase = phase, ![r].counted = c,
                                            ![r].version = v] =>
                 RequestBecomes(r, phase, request[r].packet, c, v,
                                request[r].selector, request[r].image)
           /\ \A u \in 0..MaxSpus, v \in 0..MaxVbus :
                 request' = [request EXCEPT ![r].phase = phase, ![r].packet.spus = u,
                                            ![r].packet.vbus = v] =>
                 RequestBecomes(r, phase, [request[r].packet EXCEPT !.spus = u, !.vbus = v],
                                request[r].counted, request[r].version,
                                request[r].selector, request[r].image)
           /\ \A s \in 0..MaxSequences :
                 request' = [request EXCEPT ![r].phase = phase, ![r].selector = s] =>
                 RequestBecomes(r, phase, request[r].packet, request[r].counted,
                                request[r].version, s, request[r].image)
           /\ \A u \in 0..MaxSpus :
                 request' = [request EXCEPT ![r].phase = phase, ![r].image = u] =>
                 RequestBecomes(r, phase, request[r].packet, request[r].counted,
                                request[r].version, request[r].selector, u)
           /\ request' = [request EXCEPT ![r].phase = phase, ![r].counted = 0,
                                         ![r].packet = NewRequest.packet] =>
                 RequestBecomes(r, phase, NewRequest.packet, 0, request[r].version,
                                request[r].selector, request[r].image)
  <1> DEFINE selectors == 0..MaxSequences
             images == 0..MaxSpus
             scripts == 0..MaxVbus
  <1>1. /\ RequestRecords = [phase: RequestPhases, packet: Packets, counted: Nat,
                             version: Nat, selector: selectors, image: images]
        /\ Packets = [sequences: selectors, spus: images, vbus: scripts]
    BY DEF RequestRecords, Packets
  <1>2. request \in [Runs -> [phase: RequestPhases, packet: Packets, counted: Nat,
                              version: Nat, selector: selectors, image: images]]
    BY <1>1 DEF TypeOK
  <1>3. NewRequest.packet \in Packets
    BY RequestsAreTyped DEF NewRequest, Packets
  <1> HIDE DEF selectors, images, scripts
  <1>4. request' = [request EXCEPT ![r].phase = phase] =>
           RequestBecomes(r, phase, request[r].packet, request[r].counted,
                          request[r].version, request[r].selector, request[r].image)
    BY <1>1, <1>2 DEF RequestBecomes
  <1>5. ASSUME NEW n \in selectors,
               request' = [request EXCEPT ![r].phase = phase, ![r].packet.sequences = n]
        PROVE  RequestBecomes(r, phase, [request[r].packet EXCEPT !.sequences = n],
                              request[r].counted, request[r].version,
                              request[r].selector, request[r].image)
    <2> DEFINE p == [request[r].packet EXCEPT !.sequences = n]
    <2>1. p \in Packets
      BY <1>1, <1>2
    <2>2. request' = [request EXCEPT ![r].phase = phase, ![r].packet = p]
      BY <1>2, <1>5
    <2> HIDE DEF p
    <2>3. RequestBecomes(r, phase, p, request[r].counted, request[r].version,
                         request[r].selector, request[r].image)
      BY <1>1, <1>2, <2>1, <2>2 DEF RequestBecomes
    <2> QED
      BY <2>3 DEF p
  <1>6. ASSUME NEW c \in Nat, NEW v \in Nat,
               request' = [request EXCEPT ![r].phase = phase, ![r].counted = c,
                                          ![r].version = v]
        PROVE  RequestBecomes(r, phase, request[r].packet, c, v,
                              request[r].selector, request[r].image)
    BY <1>1, <1>2, <1>6 DEF RequestBecomes
  <1>7. ASSUME NEW u \in images, NEW v \in scripts,
               request' = [request EXCEPT ![r].phase = phase, ![r].packet.spus = u,
                                          ![r].packet.vbus = v]
        PROVE  RequestBecomes(r, phase, [request[r].packet EXCEPT !.spus = u, !.vbus = v],
                              request[r].counted, request[r].version,
                              request[r].selector, request[r].image)
    <2> DEFINE p == [request[r].packet EXCEPT !.spus = u, !.vbus = v]
    <2>1. p \in Packets
      BY <1>1, <1>2
    <2>2. request' = [request EXCEPT ![r].phase = phase, ![r].packet = p]
      BY <1>2, <1>7
    <2> HIDE DEF p
    <2>3. RequestBecomes(r, phase, p, request[r].counted, request[r].version,
                         request[r].selector, request[r].image)
      BY <1>1, <1>2, <2>1, <2>2 DEF RequestBecomes
    <2> QED
      BY <2>3 DEF p
  <1>8. ASSUME NEW s \in selectors,
               request' = [request EXCEPT ![r].phase = phase, ![r].selector = s]
        PROVE  RequestBecomes(r, phase, request[r].packet, request[r].counted,
                              request[r].version, s, request[r].image)
    BY <1>1, <1>2, <1>8 DEF RequestBecomes
  <1>9. ASSUME NEW u \in images,
               request' = [request EXCEPT ![r].phase = phase, ![r].image = u]
        PROVE  RequestBecomes(r, phase, request[r].packet, request[r].counted,
                              request[r].version, request[r].selector, u)
    BY <1>1, <1>2, <1>9 DEF RequestBecomes
  <1>10. ASSUME request' = [request EXCEPT ![r].phase = phase, ![r].counted = 0,
                                           ![r].packet = NewRequest.packet]
         PROVE  RequestBecomes(r, phase, NewRequest.packet, 0, request[r].version,
                               request[r].selector, request[r].image)
    BY <1>1, <1>2, <1>3, <1>10 DEF RequestBecomes
  <1> QED
    BY <1>4, <1>5, <1>6, <1>7, <1>8, <1>9, <1>10 DEF selectors, images, scripts

\* Every step of a compile request but its commit keeps its invariant.
LEMMA RequestStep ==
    ASSUME TypeOK, NEW r \in Runs, RequestInv(r),
           \/ ReadSequences(r) \/ Validate(r) \/ ResolveVersion(r)
           \/ ReadPlan(r) \/ ReadUnits(r) \/ SelectPrimarySequence(r)
           \/ BuildImagePayload(r)
    PROVE  /\ request' \in [Runs -> RequestRecords] /\ RequestInv(r)'
           /\ \A q \in Runs : q # r => request'[q] = request[q]
           /\ request[r].phase \notin {"sent", "taken"}
           /\ request'[r].phase \notin {"sent", "taken"}
           /\ UNCHANGED <<call, operation, sequences, spus, vbus, runtimes, input>>
  <1> DEFINE Holds == /\ request' \in [Runs -> RequestRecords] /\ RequestInv(r)'
                      /\ \A q \in Runs : q # r => request'[q] = request[q]
                      /\ request[r].phase \notin {"sent", "taken"}
                      /\ request'[r].phase \notin {"sent", "taken"}
  <1> DEFINE p == request[r].packet
  <1>0. UNCHANGED <<call, operation, sequences, spus, vbus, runtimes, input>>
    BY DEF ReadSequences, Validate, ResolveVersion, ReadPlan, ReadUnits,
           SelectPrimarySequence, BuildImagePayload, RequestOnly, clientVars
  <1>1. /\ Len(sequences) \in 0..MaxSequences /\ Len(spus) \in 0..MaxSpus
        /\ Len(vbus) \in 0..MaxVbus /\ Len(runtimes) \in Nat
        /\ Len(sequences) \in Nat /\ Len(spus) \in Nat /\ Len(vbus) \in Nat
    BY Lengths
  <1>2. /\ p \in Packets /\ p.sequences \in Nat /\ request[r].selector \in 0..MaxSequences
        /\ request[r].counted \in Nat /\ request[r].version \in Nat
    BY Fields
  <1>3. \A n : /\ [p EXCEPT !.sequences = n].sequences = n
               /\ [p EXCEPT !.sequences = n].spus = p.spus
               /\ [p EXCEPT !.sequences = n].vbus = p.vbus
    BY <1>2 DEF Packets
  <1>4. {"validating", "valid", "refused", "versioned", "planned", "read", "selected",
         "prompted"} \subseteq RequestPhases
    BY DEF RequestPhases
  <1>5. CASE ReadSequences(r)
    <2>1. RequestBecomes(r, "validating", [p EXCEPT !.sequences = Len(sequences)],
                         request[r].counted, request[r].version, request[r].selector,
                         request[r].image)
      BY <1>1, <1>4, <1>5, RequestUpdates DEF ReadSequences
    <2> QED
      BY <1>0, <1>1, <1>3, <1>5, <2>1
         DEF ReadSequences, Requesting, RequestInv, RequestBecomes
  <1>6. CASE Validate(r)
    <2> DEFINE seen == p.sequences
               valid == /\ seen > 0 /\ Len(spus) > 0
                        /\ \A i \in 1..Len(spus) : spus[i].sequence <= seen
                        /\ \A i \in 1..Len(vbus) : vbus[i].sequence <= seen
               phase == IF valid THEN "valid" ELSE "refused"
    <2>1. request' = [request EXCEPT ![r].phase = phase, ![r].packet.sequences = 0]
      BY <1>6 DEF Validate
    <2>2. /\ phase \in {"valid", "refused"}
          /\ phase = "valid" => p.sequences > 0
      OBVIOUS
    <2> HIDE DEF phase
    <2>3. 0 \in 0..MaxSequences /\ phase \in RequestPhases
      BY <1>4, <2>2, RequestsAreTyped
    <2>4. RequestBecomes(r, phase, [p EXCEPT !.sequences = 0], request[r].counted,
                         request[r].version, request[r].selector, request[r].image)
      BY <2>1, <2>3, RequestUpdates
    <2>5. p.sequences > 0 => Len(sequences) > 0
      BY <1>1, <1>2 DEF RequestInv
    <2>6. /\ request'[r].phase = phase /\ request'[r].packet.sequences = 0
          /\ request'[r].packet.spus = p.spus /\ request'[r].packet.vbus = p.vbus
          /\ request'[r].image = request[r].image
      BY <1>3, <2>4 DEF RequestBecomes
    <2>7. 0 <= Len(sequences)
      BY <1>1
    <2>8. RequestInv(r)'
      <3>1. CASE phase = "valid"
        BY <1>0, <2>2, <2>5, <2>6, <2>7, <3>1 DEF RequestInv
      <3>2. CASE phase = "refused"
        BY <1>0, <2>6, <2>7, <3>2 DEF RequestInv
      <3> QED
        BY <2>2, <3>1, <3>2
    <2> QED
      BY <1>0, <1>6, <2>2, <2>4, <2>8 DEF Validate, Requesting, RequestBecomes
  <1>7. CASE ResolveVersion(r)
    <2> DEFINE v == IF ExplicitVersion[r] # 0 THEN ExplicitVersion[r]
                    ELSE NextVersion(runtimes)
    <2>1. v \in Nat /\ (ExplicitVersion[r] = 0 => v = Len(runtimes) + 1)
      BY <1>1, RequestsAreTyped DEF NextVersion
    <2>2. request' = [request EXCEPT ![r].phase = "versioned",
                                     ![r].counted = Len(runtimes), ![r].version = v]
      BY <1>7 DEF ResolveVersion
    <2> HIDE DEF v
    <2>3. RequestBecomes(r, "versioned", p, Len(runtimes), v, request[r].selector,
                         request[r].image)
      BY <1>1, <1>4, <2>1, <2>2, RequestUpdates
    <2> QED
      BY <1>0, <1>1, <1>7, <2>1, <2>3
         DEF ResolveVersion, Requesting, RequestInv, RequestBecomes
  <1>8. CASE ReadPlan(r)
    <2>1. RequestBecomes(r, "planned", [p EXCEPT !.sequences = Len(sequences)],
                         request[r].counted, request[r].version, request[r].selector,
                         request[r].image)
      BY <1>1, <1>4, <1>8, RequestUpdates DEF ReadPlan
    <2> QED
      BY <1>0, <1>1, <1>3, <1>8, <2>1
         DEF ReadPlan, Requesting, RequestInv, RequestBecomes
  <1>9. CASE ReadUnits(r)
    <2> DEFINE q == [p EXCEPT !.spus = Len(spus), !.vbus = Len(vbus)]
    <2>1. RequestBecomes(r, "read", q, request[r].counted, request[r].version,
                         request[r].selector, request[r].image)
      BY <1>1, <1>4, <1>9, RequestUpdates DEF ReadUnits
    <2>2. q.sequences = p.sequences /\ q.spus = Len(spus) /\ q.vbus = Len(vbus)
      BY <1>2 DEF Packets
    <2> HIDE DEF q
    <2> QED
      BY <1>0, <1>1, <1>9, <2>1, <2>2
         DEF ReadUnits, Requesting, RequestInv, RequestBecomes
  <1>10. CASE SelectPrimarySequence(r)
    <2> DEFINE s == PrimarySequence(Len(sequences))
    <2>1. request[r].phase = "read" /\ Len(sequences) > 0 /\ p.sequences <= Len(sequences)
      BY <1>10 DEF SelectPrimarySequence, Requesting, RequestInv
    <2>2. Len(sequences) \in 1..Len(sequences)
      BY <1>1, <2>1
    <2>3. s \in 1..Len(sequences)
          /\ \A t \in 1..Len(sequences) : sequences[s] <= sequences[t]
      BY <2>2, PrimaryComesFirst
    <2>4. s \in 0..MaxSequences
      BY <1>1, <2>3, RequestsAreTyped
    <2>5. request' = [request EXCEPT ![r].phase = "selected", ![r].selector = s]
      BY <1>10 DEF SelectPrimarySequence
    <2> HIDE DEF s
    <2>6. RequestBecomes(r, "selected", p, request[r].counted, request[r].version, s,
                         request[r].image)
      BY <1>4, <2>4, <2>5, RequestUpdates
    <2>7. ComesFirst(s, p.sequences)
      BY <1>1, <1>2, <2>1, <2>3 DEF ComesFirst
    <2> QED
      BY <1>0, <1>1, <2>1, <2>6, <2>7 DEF RequestInv, RequestBecomes, ComesFirst
  <1>11. CASE BuildImagePayload(r)
    <2>1. PICK u \in {0} \cup 1..Len(spus) :
             request' = [request EXCEPT ![r].phase = "prompted", ![r].image = u]
      BY <1>11 DEF BuildImagePayload
    <2>2. u \in 0..MaxSpus /\ u <= Len(spus)
      BY <1>1, RequestsAreTyped
    <2>3. RequestBecomes(r, "prompted", p, request[r].counted, request[r].version,
                         request[r].selector, u)
      BY <1>4, <2>1, <2>2, RequestUpdates
    <2> QED
      BY <1>0, <1>1, <1>11, <2>2, <2>3
         DEF BuildImagePayload, Requesting, RequestInv, RequestBecomes, ComesFirst
  <1> QED
    BY <1>0, <1>5, <1>6, <1>7, <1>8, <1>9, <1>10, <1>11

----------------------------------------------------------------------------
(* Jobs *)

\* What a step makes of the input of r.
InputBecomes(r, phase, kind, runtime, sequence, unit, source) ==
    /\ input' \in [Runs -> Inputs]
    /\ \A q \in Runs : q # r => input'[q] = input[q]
    /\ input'[r].phase = phase /\ input'[r].kind = kind /\ input'[r].runtime = runtime
    /\ input'[r].sequence = sequence /\ input'[r].unit = unit /\ input'[r].source = source

\* The updates of an input keep its type.
LEMMA InputUpdates ==
    ASSUME TypeOK, NEW r \in Runs,
           NEW phase \in {"loaded", "selected", "missing", "crashed"}
    PROVE  /\ input' = [input EXCEPT ![r].phase = phase] =>
                 InputBecomes(r, phase, input[r].kind, input[r].runtime, input[r].sequence,
                              input[r].unit, input[r].source)
           /\ \A kind \in Kinds, n \in Nat :
                 input' = [input EXCEPT ![r].phase = phase, ![r].kind = kind,
                                        ![r].runtime = n] =>
                 InputBecomes(r, phase, kind, n, input[r].sequence, input[r].unit,
                              input[r].source)
           /\ \A s \in 0..MaxSequences, u \in 0..MaxSpus \cup 0..MaxVbus,
                 source \in {"job_payload", "runtime_spu", "runtime_vbu", "runtime_fallback"} :
                 input' = [input EXCEPT ![r].phase = phase, ![r].sequence = s,
                                        ![r].unit = u, ![r].source = source] =>
                 InputBecomes(r, phase, input[r].kind, input[r].runtime, s, u, source)
  <1> DEFINE phases == {"none", "loaded", "selected", "missing", "crashed"}
             kinds == Kinds \cup {"none"}
             selectors == 0..MaxSequences
             units == 0..MaxSpus \cup 0..MaxVbus
             sources == {"none", "job_payload", "runtime_spu", "runtime_vbu",
                         "runtime_fallback"}
  <1>1. /\ Inputs = [phase: phases, kind: kinds, runtime: Nat, sequence: selectors,
                     unit: units, source: sources]
        /\ phase \in phases /\ Kinds \subseteq kinds
        /\ {"job_payload", "runtime_spu", "runtime_vbu", "runtime_fallback"} \subseteq sources
    BY DEF Inputs
  <1>2. input \in [Runs -> [phase: phases, kind: kinds, runtime: Nat, sequence: selectors,
                            unit: units, source: sources]]
    BY <1>1 DEF TypeOK
  <1> HIDE DEF phases, kinds, selectors, units, sources
  <1>3. input' = [input EXCEPT ![r].phase = phase] =>
           InputBecomes(r, phase, input[r].kind, input[r].runtime, input[r].sequence,
                        input[r].unit, input[r].source)
    BY <1>1, <1>2 DEF InputBecomes
  <1>4. ASSUME NEW kind \in Kinds, NEW n \in Nat,
               input' = [input EXCEPT ![r].phase = phase, ![r].kind = kind, ![r].runtime = n]
        PROVE  InputBecomes(r, phase, kind, n, input[r].sequence, input[r].unit,
                            input[r].source)
    BY <1>1, <1>2, <1>4 DEF InputBecomes
  <1>5. ASSUME NEW s \in selectors, NEW u \in units, NEW source \in sources,
               input' = [input EXCEPT ![r].phase = phase, ![r].sequence = s,
                                      ![r].unit = u, ![r].source = source]
        PROVE  InputBecomes(r, phase, input[r].kind, input[r].runtime, s, u, source)
    BY <1>1, <1>2, <1>5 DEF InputBecomes
  <1> QED
    BY <1>1, <1>3, <1>4, <1>5 DEF selectors, units

\* What the selections choose from.
LEMMA Choices ==
    ASSUME TypeOK, NEW r \in Runs, input[r].runtime \in 1..Len(runtimes)
    PROVE  /\ InPacket(r) \subseteq 0..MaxSequences
           /\ SelectedSequences(r) \subseteq InPacket(r) \cup {0}
           /\ \A s \in SelectedSequences(r) : SearchSequences(r, s) \subseteq InPacket(r)
           /\ \A s : /\ PromptSpus(r, s) \subseteq 0..MaxSpus
                     /\ AnySpus(r, s) \subseteq 0..MaxSpus
                     /\ ScriptVbus(r, s) \subseteq 0..MaxVbus
  <1>1. PacketOf(r) \in Packets
    BY Fields DEF PacketOf
  <1>2. /\ InPacket(r) \subseteq 0..MaxSequences
        /\ 1..PacketOf(r).spus \subseteq 0..MaxSpus
        /\ 1..PacketOf(r).vbus \subseteq 0..MaxVbus
    BY <1>1, RequestsAreTyped DEF Packets, InPacket
  <1>3. SelectedSequences(r) \subseteq InPacket(r) \cup {0}
    BY DEF SelectedSequences
  <1>4. \A s \in SelectedSequences(r) : SearchSequences(r, s) \subseteq InPacket(r)
    BY <1>3 DEF SearchSequences
  <1> QED
    BY <1>2, <1>3, <1>4 DEF PromptSpus, AnySpus, ScriptVbus

\* What FirstPromptIsRendered says of one run.
FirstPrompt(r) ==
    input[r].kind = "render_video" =>
        LET own == runtimes[input[r].runtime].by = r IN
        /\ input[r].phase = "selected" =>
              /\ input[r].sequence \in InPacket(r)
              /\ input[r].unit \in PromptSpus(r, input[r].sequence)
              /\ own => \A s \in InPacket(r) : PromptSpus(r, s) # {} =>
                            sequences[input[r].sequence] <= sequences[s]
        /\ input[r].phase = "missing" /\ own =>
              \E s \in InPacket(r) :
                  /\ PromptSpus(r, s) = {}
                  /\ \A t \in InPacket(r) : sequences[s] <= sequences[t]

\* FirstPromptIsRendered is that of every run.
LEMMA FirstPrompts == FirstPromptIsRendered <=> \A r \in Runs : FirstPrompt(r)
  BY DEF FirstPromptIsRendered, FirstPrompt

\* What a selection of a video finds: the text of a sequence of the packet, of the first
\* that has one if the packet is that of the request, and nothing only if the first has
\* none.
LEMMA VideoSelection ==
    ASSUME TypeOK, NEW r \in Runs, input[r].kind = "render_video",
           input[r].runtime \in 1..Len(runtimes), RuntimeInv(input[r].runtime),
           NEW selected \in SelectedSequences(r),
           NEW found, found = {s \in SearchSequences(r, selected) : PromptSpus(r, s) # {}}
    PROVE  /\ \A s \in FirstOf(found) :
                 /\ s \in InPacket(r)
                 /\ runtimes[input[r].runtime].by = r =>
                       \A t \in InPacket(r) :
                          PromptSpus(r, t) # {} => sequences[s] <= sequences[t]
           /\ found = {} /\ runtimes[input[r].runtime].by = r =>
                 \E s \in InPacket(r) :
                    /\ PromptSpus(r, s) = {}
                    /\ \A t \in InPacket(r) : sequences[s] <= sequences[t]
  <1> DEFINE own == runtimes[input[r].runtime].by = r
             sel == request[r].selector
  <1>1. /\ SelectedSequences(r) \subseteq InPacket(r) \cup {0}
        /\ SearchSequences(r, selected) \subseteq InPacket(r)
    BY Choices
  <1>2. FirstOf(found) \subseteq found /\ found \subseteq InPacket(r)
    BY <1>1 DEF FirstOf
  <1>3. SelectorOf(r) = sel
    BY DEF SelectorOf
  <1>4. own => sel \in 1..Len(sequences) /\ sel # 0
                /\ \A t \in InPacket(r) : sequences[sel] <= sequences[t]
    <2>1. Len(sequences) \in Nat
      BY Lengths
    <2> QED
      BY <2>1 DEF RuntimeInv, ComesFirst, InPacket, PacketOf
  <1>5. ASSUME own, selected # 0
        PROVE  /\ selected \in InPacket(r) /\ SearchSequences(r, selected) = {selected}
               /\ \A t \in InPacket(r) : sequences[selected] <= sequences[t]
    <2>1. selected \in InPacket(r) /\ SearchSequences(r, selected) = {selected}
      BY <1>1, <1>5 DEF SearchSequences
    <2>2. sequences[selected] = sequences[sel]
      BY <1>3, <1>5 DEF SelectedSequences
    <2> QED
      BY <1>4, <1>5, <2>1, <2>2
  <1>6. ASSUME NEW s \in FirstOf(found), own, NEW t \in InPacket(r), PromptSpus(r, t) # {}
        PROVE  sequences[s] <= sequences[t]
    <2>1. CASE selected # 0
      BY <1>2, <1>5, <1>6, <2>1
    <2>2. CASE selected = 0
      <3>1. t \in found
        BY <1>6, <2>2 DEF SearchSequences
      <3> QED
        BY <1>6, <3>1 DEF FirstOf
    <2> QED
      BY <2>1, <2>2
  <1>7. ASSUME found = {}, own
        PROVE  \E s \in InPacket(r) :
                  /\ PromptSpus(r, s) = {}
                  /\ \A t \in InPacket(r) : sequences[s] <= sequences[t]
    <2>1. CASE selected # 0
      BY <1>5, <1>7, <2>1
    <2>2. CASE selected = 0
      <3>1. \A s \in InPacket(r) : PromptSpus(r, s) = {}
        BY <1>7, <2>2 DEF SearchSequences
      <3>2. PacketOf(r).sequences \in 1..Len(sequences)
        BY DEF RuntimeInv, PacketOf
      <3>3. InPacket(r) \subseteq 1..Len(sequences) /\ InPacket(r) # {}
        BY <3>2, Lengths DEF InPacket
      <3> QED
        BY <3>1, <3>3, FirstExists
    <2> QED
      BY <2>1, <2>2
  <1> QED
    BY <1>2, <1>6, <1>7

\* A job whose packet was read keeps it, and what its worker found there.
LEMMA KeepsFirstPrompt ==
    ASSUME TypeOK, Grow, NEW r \in Runs, FirstPrompt(r), input'[r] = input[r],
           input[r].phase # "none" =>
              input[r].runtime \in 1..Len(runtimes) /\ RuntimeInv(input[r].runtime)
    PROVE  FirstPrompt(r)'
  <1>1. CASE input[r].phase = "none"
    BY <1>1 DEF FirstPrompt
  <1>2. CASE input[r].phase # "none"
    <2>1. PICK n \in 1..Len(runtimes) : n = input[r].runtime /\ RuntimeInv(n)
      BY <1>2
    <2>2. PICK p \in Packets : p = runtimes[n].packet
      BY Fields
    <2>3. runtimes'[n] = runtimes[n]
      BY DEF Grow, Grows
    <2>4. p.sequences \in 1..Len(sequences) /\ p.spus \in Nat /\ p.spus <= Len(spus)
      BY <2>1, <2>2, Fields DEF RuntimeInv
    <2>5. Len(sequences) \in Nat /\ Len(spus) \in Nat
      BY Lengths
    <2>6. /\ \A i \in 1..p.sequences : sequences'[i] = sequences[i]
          /\ \A i \in 1..p.spus : spus'[i] = spus[i]
      BY <2>4, <2>5 DEF Grow, Grows
    <2>7. /\ InPacket(r) = 1..p.sequences /\ InPacket(r)' = 1..p.sequences
          /\ input'[r].runtime = n /\ runtimes'[n].by = runtimes[n].by
      BY <2>1, <2>2, <2>3 DEF InPacket, PacketOf
    <2>8. ASSUME NEW s PROVE PromptSpus(r, s)' = PromptSpus(r, s)
      BY <2>1, <2>2, <2>3, <2>6 DEF PromptSpus, PacketOf
    <2>9. PICK s0 : s0 = input[r].sequence
      OBVIOUS
    <2>10. PromptSpus(r, input[r].sequence)' = PromptSpus(r, s0)
      BY <2>8, <2>9 DEF PromptSpus, PacketOf
    <2> QED
      BY <2>1, <2>6, <2>7, <2>8, <2>9, <2>10 DEF FirstPrompt
  <1> QED
    BY <1>1, <1>2

----------------------------------------------------------------------------
(* The steps *)

\* A run that a step leaves alone keeps what is true of it.
LEMMA KeepsRun ==
    ASSUME RenderInv, TypeOK', Grow, NEW r \in Runs,
           call'[r] = call[r], operation'[r] = operation[r],
           request'[r] = request[r], input'[r] = input[r]
    PROVE  ClientInv(r)' /\ RequestInv(r)' /\ InputInv(r)' /\ FirstPrompt(r)'
  <1>1. /\ TypeOK /\ ClientInv(r) /\ RequestInv(r) /\ InputInv(r) /\ FirstPrompt(r)
        /\ \A n \in 1..Len(runtimes) : RuntimeInv(n)
    BY FirstPrompts DEF RenderInv
  <1>2. ClientInv(r)'
    BY <1>1 DEF ClientInv
  <1>3. RequestInv(r)'
    BY <1>1, KeepsRequest
  <1>4. InputInv(r)'
    <2>1. Len(runtimes) \in Nat /\ Len(runtimes') \in Nat /\ Len(runtimes) <= Len(runtimes')
      <3>1. runtimes \in Seq(Runtimes) /\ runtimes' \in Seq(Runtimes)
        BY <1>1 DEF TypeOK
      <3> QED
        BY <3>1 DEF Grow, Grows
    <2>2. 1..Len(runtimes) \subseteq 1..Len(runtimes')
      BY <2>1
    <2> QED
      BY <1>1, <2>2 DEF InputInv
  <1>5. FirstPrompt(r)'
    <2>1. input[r].phase # "none" =>
             input[r].runtime \in 1..Len(runtimes) /\ RuntimeInv(input[r].runtime)
      BY <1>1 DEF InputInv
    <2> QED
      BY <1>1, <2>1, KeepsFirstPrompt
  <1> QED
    BY <1>2, <1>3, <1>4, <1>5

\* The runtimes that are there keep their invariant if a step takes back nothing that
\* was sent and changes no selector then.
LEMMA KeepsRuntimes ==
    ASSUME RenderInv, TypeOK', Grow,
           \A q \in Runs : request[q].phase \in {"sent", "taken"} =>
              /\ request'[q].phase \in {"sent", "taken"}
              /\ request'[q].selector = request[q].selector
    PROVE  \A n \in 1..Len(runtimes) : RuntimeInv(n)'
  <1> SUFFICES ASSUME NEW n \in 1..Len(runtimes) PROVE RuntimeInv(n)'
    OBVIOUS
  <1>1. TypeOK /\ RuntimeInv(n)
    BY DEF RenderInv
  <1>2. PICK q \in Runs : q = runtimes[n].by
    BY <1>1, Fields
  <1>3. request[q].phase \in {"sent", "taken"}
    BY <1>1, <1>2 DEF RuntimeInv
  <1>4. /\ request'[q].phase \in {"sent", "taken"}
        /\ request'[q].selector = request[q].selector
    BY <1>3
  <1> QED
    BY <1>1, <1>2, <1>4, KeepsRuntime

\* Tables that are left alone grow, too.
LEMMA SameGrows ==
    ASSUME TypeOK, UNCHANGED <<sequences, spus, vbus, runtimes>>
    PROVE  Grow
  BY Lengths DEF Grow, Grows

\* Editors keep the invariant.
LEMMA EditStep == ASSUME RenderInv, Edit PROVE RenderInv'
  <1>1. TypeOK
    BY DEF RenderInv
  <1>2. /\ sequences \in Seq(Indexes) /\ spus \in Seq(Spus) /\ vbus \in Seq(Vbus)
        /\ runtimes \in Seq(Runtimes)
        /\ Len(sequences) <= MaxSequences /\ Len(spus) <= MaxSpus /\ Len(vbus) <= MaxVbus
    BY <1>1 DEF TypeOK
  <1>3. /\ Len(sequences) \in 0..MaxSequences /\ Len(sequences) \in Nat
        /\ Len(spus) \in Nat /\ Len(vbus) \in Nat
    BY <1>1, Lengths
  <1>4. UNCHANGED <<runtimes, request, input, call, operation>>
    BY DEF Edit, CreateSequence, CreateSpu, CreateVbu, clientVars
  <1>5. TypeOK' /\ Grow
    <2>1. CASE CreateSequence
      <3>1. PICK i \in Indexes : sequences' = Append(sequences, i)
        BY <2>1 DEF CreateSequence
      <3>2. sequences' \in Seq(Indexes) /\ Grows(sequences, sequences')
            /\ Len(sequences') = Len(sequences) + 1
        BY <1>2, <3>1, AppendGrows
      <3>3. Len(sequences') <= MaxSequences
        BY <1>3, <2>1, <3>2, RequestsAreTyped DEF CreateSequence
      <3>4. UNCHANGED <<spus, vbus>>
        BY <2>1 DEF CreateSequence
      <3> QED
        BY <1>1, <1>3, <1>4, <3>2, <3>3, <3>4, Lengths
           DEF TypeOK, ClientTypeOK, Grow, Grows
    <2>2. CASE CreateSpu
      <3>1. PICK s \in 0..Len(sequences), b \in BOOLEAN :
               spus' = Append(spus, [sequence |-> s, prompt |-> b])
        BY <2>2 DEF CreateSpu
      <3>2. s \in 0..MaxSequences
        BY <1>3, RequestsAreTyped
      <3>3. [sequence |-> s, prompt |-> b] \in Spus
        BY <3>2 DEF Spus
      <3>4. spus' \in Seq(Spus) /\ Grows(spus, spus') /\ Len(spus') = Len(spus) + 1
        BY <1>2, <3>1, <3>3, AppendGrows
      <3>5. Len(spus') <= MaxSpus
        BY <1>3, <2>2, <3>4, RequestsAreTyped DEF CreateSpu
      <3>6. UNCHANGED <<sequences, vbus>>
        BY <2>2 DEF CreateSpu
      <3> QED
        BY <1>1, <1>3, <1>4, <3>4, <3>5, <3>6, Lengths
           DEF TypeOK, ClientTypeOK, Grow, Grows
    <2>3. CASE CreateVbu
      <3>1. PICK s \in 0..Len(sequences), b \in BOOLEAN :
               vbus' = Append(vbus, [sequence |-> s, script |-> b])
        BY <2>3 DEF CreateVbu
      <3>2. s \in 0..MaxSequences
        BY <1>3, RequestsAreTyped
      <3>3. [sequence |-> s, script |-> b] \in Vbus
        BY <3>2 DEF Vbus
      <3>4. vbus' \in Seq(Vbus) /\ Grows(vbus, vbus') /\ Len(vbus') = Len(vbus) + 1
        BY <1>2, <3>1, <3>3, AppendGrows
      <3>5. Len(vbus') <= MaxVbus
        BY <1>3, <2>3, <3>4, RequestsAreTyped DEF CreateVbu
      <3>6. UNCHANGED <<sequences, spus>>
        BY <2>3 DEF CreateVbu
      <3> QED
        BY <1>1, <1>3, <1>4, <3>4, <3>5, <3>6, Lengths
           DEF TypeOK, ClientTypeOK, Grow, Grows
    <2> QED
      BY <2>1, <2>2, <2>3 DEF Edit
  <1>6. \A r \in Runs : ClientInv(r)' /\ RequestInv(r)' /\ InputInv(r)' /\ FirstPrompt(r)'
    BY <1>4, <1>5, KeepsRun
  <1>7. \A n \in 1..Len(runtimes) : RuntimeInv(n)'
    BY <1>4, <1>5, KeepsRuntimes
  <1>8. FirstPromptIsRendered'
    BY <1>6 DEF FirstPrompt, FirstPromptIsRendered
  <1> QED
    BY <1>4, <1>5, <1>6, <1>7, <1>8 DEF RenderInv

\* A compile request keeps the invariant: its commit hands what it read and chose to the
\* runtime.
LEMMA CompileStep == ASSUME RenderInv, NEW r \in Runs, Compile(r) PROVE RenderInv'
  <1>1. /\ TypeOK /\ ClientInv(r) /\ RequestInv(r) /\ InputInv(r) /\ FirstPrompt(r)
        /\ \A n \in 1..Len(runtimes) : RuntimeInv(n)
    BY FirstPrompts DEF RenderInv
  <1> DEFINE Before == \/ ReadSequences(r) \/ Validate(r) \/ ResolveVersion(r)
                       \/ ReadPlan(r) \/ ReadUnits(r) \/ SelectPrimarySequence(r)
                       \/ BuildImagePayload(r)
  <1>2. CASE Before
    <2>1. /\ request' \in [Runs -> RequestRecords] /\ RequestInv(r)'
          /\ \A q \in Runs : q # r => request'[q] = request[q]
          /\ request[r].phase \notin {"sent", "taken"}
          /\ request'[r].phase \notin {"sent", "taken"}
          /\ UNCHANGED <<call, operation, sequences, spus, vbus, runtimes, input>>
      BY <1>1, <1>2, RequestStep
    <2>2. TypeOK' /\ Grow
      BY <1>1, <2>1, SameGrows DEF TypeOK, ClientTypeOK
    <2>3. \A q \in Runs : q # r =>
             ClientInv(q)' /\ RequestInv(q)' /\ InputInv(q)' /\ FirstPrompt(q)'
      BY <2>1, <2>2, KeepsRun
    <2>4. ClientInv(r)' /\ InputInv(r)'
      BY <1>1, <2>1 DEF ClientInv, InputInv
    <2>5. FirstPrompt(r)'
      BY <1>1, <2>1 DEF FirstPrompt, InPacket, PromptSpus, PacketOf
    <2>6. \A n \in 1..Len(runtimes) : RuntimeInv(n)'
      BY <2>1, <2>2, KeepsRuntimes
    <2>7. FirstPromptIsRendered'
      BY <2>3, <2>5 DEF FirstPrompt, FirstPromptIsRendered
    <2> QED
      BY <2>1, <2>2, <2>3, <2>4, <2>6, <2>7 DEF RenderInv
  <1>3. CASE CommitAndSend(r)
    <2> DEFINE row == [by |-> r, version |-> request[r].version,
                       packet |-> request[r].packet, counted |-> request[r].counted,
                       auto |-> ExplicitVersion[r] = 0]
    <2>1. /\ request[r].phase = "prompted" /\ runtimes' = Append(runtimes, row)
          /\ request' = [request EXCEPT ![r].phase = "sent", ![r].counted = 0,
                                        ![r].packet = NewRequest.packet]
          /\ UNCHANGED <<call, operation, sequences, spus, vbus, input>>
      BY <1>3 DEF CommitAndSend, Requesting, clientVars
    <2>2. RequestBecomes(r, "sent", NewRequest.packet, 0, request[r].version,
                         request[r].selector, request[r].image)
      BY <1>1, <2>1, RequestUpdates DEF RequestPhases
    <2>3. row \in Runtimes
      BY <1>1, Fields DEF Runtimes
    <2>4. /\ runtimes' \in Seq(Runtimes) /\ Grows(runtimes, runtimes')
          /\ Len(runtimes') = Len(runtimes) + 1 /\ runtimes'[Len(runtimes) + 1] = row
          /\ Len(runtimes) \in Nat
      <3>1. runtimes \in Seq(Runtimes)
        BY <1>1 DEF TypeOK
      <3> HIDE DEF row
      <3> QED
        BY <2>1, <2>3, <3>1, AppendGrows
    <2>5. TypeOK' /\ Grow
      BY <1>1, <2>1, <2>2, <2>4, Lengths
         DEF TypeOK, ClientTypeOK, Grow, Grows, RequestBecomes
    <2>6. \A q \in Runs : q # r =>
             ClientInv(q)' /\ RequestInv(q)' /\ InputInv(q)' /\ FirstPrompt(q)'
      BY <2>1, <2>2, <2>5, KeepsRun DEF RequestBecomes
    <2>7. ClientInv(r)'
      BY <1>1, <2>1 DEF ClientInv
    <2>8. RequestInv(r)'
      <3>1. /\ request'[r].phase = "sent" /\ request'[r].packet = NewRequest.packet
            /\ request'[r].image = request[r].image
        BY <2>2 DEF RequestBecomes
      <3>2. 0 <= Len(sequences) /\ 0 <= Len(spus) /\ 0 <= Len(vbus)
        BY <1>1, Lengths
      <3> QED
        BY <1>1, <2>1, <3>1, <3>2 DEF RequestInv, NewRequest
    <2>9. InputInv(r)' /\ FirstPrompt(r)'
      <3>1. input[r].phase = "none" /\ input[r].kind = "none"
        BY <1>1, <2>1 DEF InputInv
      <3>2. input'[r] = input[r] /\ call'[r] = call[r] /\ request'[r].phase = "sent"
        BY <2>1, <2>2 DEF RequestBecomes
      <3> QED
        BY <1>1, <3>1, <3>2 DEF InputInv, FirstPrompt
    <2>10. \A n \in 1..Len(runtimes) : RuntimeInv(n)'
      BY <2>1, <2>2, <2>5, KeepsRuntimes DEF RequestBecomes
    <2>11. ASSUME NEW m, m = Len(runtimes) + 1 PROVE RuntimeInv(m)'
      <3>0. PICK p \in Packets : p = request[r].packet
        BY <1>1, Fields
      <3>1. PICK s : s = request[r].selector
        OBVIOUS
      <3>2. /\ p.sequences > 0 /\ p.sequences <= Len(sequences)
            /\ p.spus <= Len(spus) /\ p.vbus <= Len(vbus)
            /\ row.counted <= Len(runtimes) /\ ComesFirst(s, p.sequences)
            /\ ExplicitVersion[r] = 0 => row.version = row.counted + 1
        BY <1>1, <2>1, <3>0, <3>1 DEF RequestInv
      <3>3. p.sequences \in 1..Len(sequences)
        BY <1>1, <3>0, <3>2, Fields, Lengths
      <3>4. row.counted < m
        BY <1>1, <2>4, <2>11, <3>2, Fields
      <3>5. /\ runtimes'[m].by = r /\ runtimes'[m].packet = p
            /\ runtimes'[m].counted = row.counted /\ runtimes'[m].version = row.version
            /\ runtimes'[m].auto = (ExplicitVersion[r] = 0)
        BY <2>4, <2>11, <3>0
      <3>6. request'[r].phase = "sent" /\ request'[r].selector = s
        BY <2>2, <3>1 DEF RequestBecomes
      <3> HIDE DEF row
      <3>7. ComesFirst(request[runtimes[m].by].selector, runtimes[m].packet.sequences)'
        BY <2>1, <3>2, <3>5, <3>6 DEF ComesFirst
      <3> QED
        BY <2>1, <3>2, <3>3, <3>4, <3>5, <3>6, <3>7 DEF RuntimeInv
    <2>12. \A n \in 1..Len(runtimes') : RuntimeInv(n)'
      <3> SUFFICES ASSUME NEW n \in 1..Len(runtimes') PROVE RuntimeInv(n)'
        OBVIOUS
      <3>1. n \in 1..Len(runtimes) \/ n = Len(runtimes) + 1
        BY <2>4
      <3> QED
        BY <2>10, <2>11, <3>1
    <2>13. FirstPromptIsRendered'
      BY <2>6, <2>9 DEF FirstPrompt, FirstPromptIsRendered
    <2> QED
      BY <2>5, <2>6, <2>7, <2>8, <2>9, <2>12, <2>13 DEF RenderInv
  <1> QED
    BY <1>2, <1>3 DEF Compile

\* The call of a run that had none begins, or is over at once.
LEMMA CallBegins ==
    ASSUME ClientTypeOK, NEW r \in Runs, ClientInv(r), call[r].phase = "idle",
           NEW phase \in {"requesting", "creating", "speaking", "returned"},
           call' = [call EXCEPT ![r].phase = phase], operation' = operation
    PROVE  /\ ClientTypeOK' /\ ClientInv(r)'
           /\ \A q \in Runs : q # r => call'[q] = call[q]
  <1>1. CallBecomes(r, phase, call[r].polls, call[r].answer, call[r].code)
    BY CallUpdates DEF CallPhases
  <1>2. operation[r] = "none" /\ call[r].code = "none" /\ call[r].answer = NoAnswer
    BY DEF ClientInv
  <1> QED
    BY <1>1, <1>2 DEF CallBecomes, ClientTypeOK, ClientInv

\* What a worker selects, and where it stops.
Selected(r, s, u, source, phase) ==
    /\ s \in 0..MaxSequences /\ u \in 0..MaxSpus \cup 0..MaxVbus
    /\ source \in {"job_payload", "runtime_spu", "runtime_vbu", "runtime_fallback"}
    /\ phase \in {"requesting", "creating", "speaking"}
    /\ Select(r, s, u, source, phase)

\* A step of a worker's selection keeps the invariant if what is selected is right.
LEMMA SelectionStep ==
    ASSUME RenderInv, NEW r \in Runs, input[r].phase = "loaded",
           \/ \E s, u, source, phase : Selected(r, s, u, source, phase)
           \/ \E phase \in {"missing", "crashed"} : Stop(r, phase)
           \/ ReportRuntime(r),
           FirstPrompt(r)'
    PROVE  RenderInv'
  <1>1. /\ TypeOK /\ ClientInv(r) /\ RequestInv(r) /\ InputInv(r)
        /\ \A n \in 1..Len(runtimes) : RuntimeInv(n)
    BY DEF RenderInv
  <1>2. UNCHANGED <<operation, sequences, spus, vbus, runtimes, request>>
    BY DEF Selected, Select, Stop, ReportRuntime, clientVars
  <1>3. call[r].phase = "idle" /\ ClientTypeOK
    BY <1>1 DEF InputInv, TypeOK
  <1> DEFINE Holds == /\ input' \in [Runs -> Inputs] /\ \A q \in Runs : q # r => input'[q] = input[q]
                      /\ input'[r].phase \in {"selected", "missing", "crashed"}
                      /\ input'[r].kind = input[r].kind /\ input'[r].runtime = input[r].runtime
                      /\ input'[r].phase # "selected" => call' = call
                      /\ ClientTypeOK' /\ ClientInv(r)' /\ \A q \in Runs : q # r => call'[q] = call[q]
  <1>4. Holds
    <2>1. ASSUME NEW s, NEW u, NEW source, NEW phase, Selected(r, s, u, source, phase)
          PROVE  Holds
      <3>1. InputBecomes(r, "selected", input[r].kind, input[r].runtime, s, u, source)
        BY <1>1, <2>1, InputUpdates DEF Selected, Select
      <3>2. /\ ClientTypeOK' /\ ClientInv(r)'
            /\ \A q \in Runs : q # r => call'[q] = call[q]
        BY <1>1, <1>2, <1>3, <2>1, CallBegins DEF Selected, Select
      <3> QED
        BY <3>1, <3>2 DEF InputBecomes
    <2>2. ASSUME NEW phase \in {"missing", "crashed"}, Stop(r, phase)
          PROVE  Holds
      <3>1. InputBecomes(r, phase, input[r].kind, input[r].runtime, input[r].sequence,
                         input[r].unit, input[r].source)
        BY <1>1, <2>2, InputUpdates DEF Stop
      <3>2. call' = call /\ operation' = operation
        BY <2>2 DEF Stop, clientVars
      <3> QED
        BY <1>1, <1>3, <3>1, <3>2 DEF InputBecomes, ClientTypeOK, ClientInv
    <2>3. CASE ReportRuntime(r)
      <3>1. InputBecomes(r, "selected", input[r].kind, input[r].runtime, input[r].sequence,
                         input[r].unit, input[r].source)
        BY <1>1, <2>3, InputUpdates DEF ReportRuntime
      <3>2. /\ ClientTypeOK' /\ ClientInv(r)'
            /\ \A q \in Runs : q # r => call'[q] = call[q]
        BY <1>1, <1>2, <1>3, <2>3, CallBegins DEF ReportRuntime
      <3> QED
        BY <3>1, <3>2 DEF InputBecomes
    <2> QED
      BY <2>1, <2>2, <2>3
  <1>5. TypeOK' /\ Grow
    BY <1>1, <1>2, <1>4, SameGrows DEF TypeOK
  <1>6. \A q \in Runs : q # r =>
           ClientInv(q)' /\ RequestInv(q)' /\ InputInv(q)' /\ FirstPrompt(q)'
    BY <1>2, <1>4, <1>5, KeepsRun
  <1>7. RequestInv(r)'
    BY <1>1, <1>2, <1>5, KeepsRequest
  <1>8. InputInv(r)'
    BY <1>1, <1>2, <1>3, <1>4 DEF InputInv
  <1>9. \A n \in 1..Len(runtimes) : RuntimeInv(n)'
    BY <1>2, <1>5, KeepsRuntimes
  <1>10. FirstPromptIsRendered'
    BY <1>6 DEF FirstPrompt, FirstPromptIsRendered
  <1> QED
    BY <1>2, <1>4, <1>5, <1>6, <1>7, <1>8, <1>9, <1>10 DEF RenderInv

\* A worker takes a job of a request that was sent.
LEMMA LoadStep == ASSUME RenderInv, NEW r \in Runs, LoadRuntime(r) PROVE RenderInv'
  <1>1. /\ TypeOK /\ ClientInv(r) /\ RequestInv(r) /\ InputInv(r)
        /\ \A n \in 1..Len(runtimes) : RuntimeInv(n)
    BY DEF RenderInv
  <1>2. /\ request[r].phase = "sent"
        /\ request' = [request EXCEPT ![r].phase = "taken"]
        /\ UNCHANGED <<call, operation, sequences, spus, vbus, runtimes>>
    BY DEF LoadRuntime, Requesting, Advance, clientVars
  <1>3. PICK kind \in JobKinds[r], n \in Newest(request[r].version) :
           input' = [input EXCEPT ![r].phase = "loaded", ![r].kind = kind, ![r].runtime = n]
    BY DEF LoadRuntime
  <1>4. kind \in Kinds /\ n \in 1..Len(runtimes) /\ n \in Nat
    <2>1. n \in 1..Len(runtimes)
      BY DEF Newest
    <2> QED
      BY <1>1, <2>1, Lengths, RequestsAreTyped
  <1>5. RequestBecomes(r, "taken", request[r].packet, request[r].counted,
                       request[r].version, request[r].selector, request[r].image)
    BY <1>1, <1>2, RequestUpdates DEF RequestPhases
  <1>6. InputBecomes(r, "loaded", kind, n, input[r].sequence, input[r].unit,
                     input[r].source)
    BY <1>1, <1>3, <1>4, InputUpdates
  <1>7. TypeOK' /\ Grow
    BY <1>1, <1>2, <1>5, <1>6, SameGrows
       DEF TypeOK, ClientTypeOK, RequestBecomes, InputBecomes
  <1>8. \A q \in Runs : q # r =>
           ClientInv(q)' /\ RequestInv(q)' /\ InputInv(q)' /\ FirstPrompt(q)'
    BY <1>2, <1>5, <1>6, <1>7, KeepsRun DEF RequestBecomes, InputBecomes
  <1>9. ClientInv(r)'
    BY <1>1, <1>2 DEF ClientInv
  <1>10. RequestInv(r)'
    <2>1. request'[r].phase = "taken" /\ request'[r].packet = request[r].packet
          /\ request'[r].image = request[r].image
      BY <1>5 DEF RequestBecomes
    <2> QED
      BY <1>1, <1>2, <2>1 DEF RequestInv
  <1>11. InputInv(r)' /\ FirstPrompt(r)'
    <2>1. input[r].phase = "none" /\ call[r].phase = "idle"
      BY <1>1, <1>2 DEF InputInv
    <2>2. /\ request'[r].phase = "taken" /\ input'[r].phase = "loaded"
          /\ input'[r].runtime = n /\ call'[r] = call[r]
      BY <1>2, <1>5, <1>6 DEF RequestBecomes, InputBecomes
    <2> QED
      BY <1>2, <1>4, <2>1, <2>2 DEF InputInv, FirstPrompt
  <1>12. \A m \in 1..Len(runtimes) : RuntimeInv(m)'
    BY <1>5, <1>7, KeepsRuntimes DEF RequestBecomes
  <1>13. FirstPromptIsRendered'
    BY <1>8, <1>11 DEF FirstPrompt, FirstPromptIsRendered
  <1> QED
    BY <1>2, <1>7, <1>8, <1>9, <1>10, <1>11, <1>12, <1>13 DEF RenderInv

\* The selection of a video keeps the invariant.
LEMMA VideoStep == ASSUME RenderInv, NEW r \in Runs, SelectVideoInputs(r) PROVE RenderInv'
  <1>1. /\ TypeOK /\ InputInv(r) /\ \A n \in 1..Len(runtimes) : RuntimeInv(n)
        /\ input[r].phase = "loaded" /\ input[r].kind = "render_video"
    BY DEF RenderInv, SelectVideoInputs, Loaded
  <1>2. input[r].runtime \in 1..Len(runtimes)
    BY <1>1 DEF InputInv
  <1>3. RuntimeInv(input[r].runtime)
    BY <1>1, <1>2
  <1>4. PICK selected \in SelectedSequences(r) :
           LET found == {s \in SearchSequences(r, selected) : PromptSpus(r, s) # {}}
           IN \/ \E s \in FirstOf(found) : \E u \in PromptSpus(r, s) :
                    Select(r, s, u, "runtime_spu", "creating")
              \/ found = {} /\ Stop(r, "missing")
    BY DEF SelectVideoInputs
  <1> DEFINE found == {s \in SearchSequences(r, selected) : PromptSpus(r, s) # {}}
             own == runtimes[input[r].runtime].by = r
  <1>5. /\ \A s \in FirstOf(found) :
              /\ s \in InPacket(r)
              /\ own => \A t \in InPacket(r) :
                          PromptSpus(r, t) # {} => sequences[s] <= sequences[t]
        /\ found = {} /\ own =>
              \E s \in InPacket(r) :
                 /\ PromptSpus(r, s) = {}
                 /\ \A t \in InPacket(r) : sequences[s] <= sequences[t]
    BY <1>1, <1>2, <1>3, VideoSelection
  <1>6. ASSUME NEW s \in FirstOf(found), NEW u \in PromptSpus(r, s),
               Select(r, s, u, "runtime_spu", "creating")
        PROVE  RenderInv'
    <2>1. s \in InPacket(r)
      BY <1>5
    <2>2. s \in 0..MaxSequences /\ u \in 0..MaxSpus
      BY <1>1, <1>2, <2>1, Choices
    <2>3. InputBecomes(r, "selected", input[r].kind, input[r].runtime, s, u, "runtime_spu")
      BY <1>1, <1>6, <2>2, InputUpdates DEF Select
    <2>4. UNCHANGED <<sequences, spus, vbus, runtimes>>
      BY <1>6 DEF Select
    <2>5. InPacket(r)' = InPacket(r)
      BY <2>3, <2>4 DEF InPacket, PacketOf, InputBecomes
    <2>6. ASSUME NEW t PROVE PromptSpus(r, t)' = PromptSpus(r, t)
      BY <2>3, <2>4 DEF PromptSpus, PacketOf, InputBecomes
    <2>7. PromptSpus(r, input[r].sequence)' = PromptSpus(r, s)
      BY <2>3, <2>6 DEF PromptSpus, PacketOf, InputBecomes
    <2>8. /\ input'[r].phase = "selected" /\ input'[r].sequence = s /\ input'[r].unit = u
          /\ input'[r].runtime = input[r].runtime
      BY <2>3 DEF InputBecomes
    <2>9. own => \A t \in InPacket(r) : PromptSpus(r, t) # {} => sequences[s] <= sequences[t]
      BY <1>5
    <2> HIDE DEF found
    <2>10. FirstPrompt(r)'
      BY <2>1, <2>4, <2>5, <2>6, <2>7, <2>8, <2>9 DEF FirstPrompt
    <2>11. Selected(r, s, u, "runtime_spu", "creating")
      BY <1>6, <2>2 DEF Selected
    <2> QED
      BY <1>1, <2>10, <2>11, SelectionStep
  <1>7. CASE found = {} /\ Stop(r, "missing")
    <2>1. InputBecomes(r, "missing", input[r].kind, input[r].runtime, input[r].sequence,
                       input[r].unit, input[r].source)
      BY <1>1, <1>7, InputUpdates DEF Stop
    <2>2. UNCHANGED <<sequences, spus, vbus, runtimes>>
      BY <1>7 DEF Stop
    <2>3. InPacket(r)' = InPacket(r)
      BY <2>1, <2>2 DEF InPacket, PacketOf, InputBecomes
    <2>4. ASSUME NEW t PROVE PromptSpus(r, t)' = PromptSpus(r, t)
      BY <2>1, <2>2 DEF PromptSpus, PacketOf, InputBecomes
    <2>5. input'[r].phase = "missing" /\ input'[r].runtime = input[r].runtime
      BY <2>1 DEF InputBecomes
    <2>6. own => \E s \in InPacket(r) :
                    /\ PromptSpus(r, s) = {}
                    /\ \A t \in InPacket(r) : sequences[s] <= sequences[t]
      BY <1>5, <1>7
    <2> HIDE DEF found
    <2>7. FirstPrompt(r)'
      BY <2>2, <2>3, <2>4, <2>5, <2>6 DEF FirstPrompt
    <2> QED
      BY <1>1, <1>7, <2>7, SelectionStep
  <1> QED
    BY <1>4, <1>6, <1>7

\* The other executors keep it: none of their jobs is a video.
LEMMA OtherSelectionStep ==
    ASSUME RenderInv, NEW r \in Runs,
           ReportRuntime(r) \/ SelectImageInputs(r) \/ SelectVoiceInputs(r)
    PROVE  RenderInv'
  <1>1. /\ TypeOK /\ InputInv(r)
        /\ input[r].phase = "loaded" /\ input[r].kind # "render_video"
    BY DEF RenderInv, ReportRuntime, SelectImageInputs, SelectVoiceInputs, Loaded
  <1>2. input[r].runtime \in 1..Len(runtimes)
    BY <1>1 DEF InputInv
  <1>3. /\ InPacket(r) \subseteq 0..MaxSequences
        /\ SelectedSequences(r) \subseteq InPacket(r) \cup {0}
        /\ \A s \in SelectedSequences(r) : SearchSequences(r, s) \subseteq InPacket(r)
        /\ \A s : AnySpus(r, s) \subseteq 0..MaxSpus /\ ScriptVbus(r, s) \subseteq 0..MaxVbus
    BY <1>1, <1>2, Choices
  <1>4. \/ \E s, u, source, phase : Selected(r, s, u, source, phase)
        \/ \E phase \in {"missing", "crashed"} : Stop(r, phase)
        \/ ReportRuntime(r)
    <2>1. CASE SelectImageInputs(r)
      <3>1. PICK s \in SelectedSequences(r) :
               IF s = 0 THEN Stop(r, "crashed")
               ELSE Select(r, s, request[r].image, "job_payload", "requesting")
        BY <2>1 DEF SelectImageInputs
      <3>2. CASE s = 0
        BY <3>1, <3>2
      <3>3. CASE s # 0
        <4>1. s \in 0..MaxSequences /\ request[r].image \in 0..MaxSpus
          BY <1>1, <1>3, <3>3, Fields
        <4> QED
          BY <3>1, <3>3, <4>1 DEF Selected
      <3> QED
        BY <3>2, <3>3
    <2>2. CASE SelectVoiceInputs(r)
      <3>1. PICK selected \in SelectedSequences(r) :
               LET searched == SearchSequences(r, selected)
                   spoken == {s \in searched : ScriptVbus(r, s) # {}}
                   shown == {s \in searched : AnySpus(r, s) # {}}
               IN \/ \E s \in FirstOf(spoken) : \E u \in ScriptVbus(r, s) :
                        Select(r, s, u, "runtime_vbu", "speaking")
                  \/ /\ spoken = {}
                     /\ \/ \E s \in FirstOf(shown) : \E u \in AnySpus(r, s) :
                              Select(r, s, u, "runtime_fallback", "speaking")
                        \/ shown = {} /\ Stop(r, "missing")
        BY <2>2 DEF SelectVoiceInputs
      <3> DEFINE searched == SearchSequences(r, selected)
                 spoken == {s \in searched : ScriptVbus(r, s) # {}}
                 shown == {s \in searched : AnySpus(r, s) # {}}
      <3>2. searched \subseteq 0..MaxSequences
        BY <1>3
      <3>3. FirstOf(spoken) \subseteq 0..MaxSequences /\ FirstOf(shown) \subseteq 0..MaxSequences
        BY <3>2 DEF FirstOf
      <3>4. ASSUME NEW s \in FirstOf(spoken), NEW u \in ScriptVbus(r, s),
                   Select(r, s, u, "runtime_vbu", "speaking")
            PROVE  Selected(r, s, u, "runtime_vbu", "speaking")
        BY <1>3, <3>3, <3>4 DEF Selected
      <3>5. ASSUME NEW s \in FirstOf(shown), NEW u \in AnySpus(r, s),
                   Select(r, s, u, "runtime_fallback", "speaking")
            PROVE  Selected(r, s, u, "runtime_fallback", "speaking")
        BY <1>3, <3>3, <3>5 DEF Selected
      <3> QED
        BY <3>1, <3>4, <3>5
    <2> QED
      BY <2>1, <2>2
  <1>5. input'[r].kind = input[r].kind
    <2>1. \/ \E s, u, source, phase : Selected(r, s, u, source, phase)
          \/ \E phase \in {"missing", "crashed"} :
                input' = [input EXCEPT ![r].phase = phase]
          \/ input' = [input EXCEPT ![r].phase = "selected"]
      BY <1>4 DEF Stop, ReportRuntime
    <2>2. ASSUME NEW s, NEW u, NEW source, NEW phase, Selected(r, s, u, source, phase)
          PROVE  input'[r].kind = input[r].kind
      BY <1>1, <2>2, InputUpdates DEF Selected, Select, InputBecomes
    <2> QED
      BY <1>1, <2>1, <2>2, InputUpdates DEF InputBecomes
  <1>6. FirstPrompt(r)'
    BY <1>1, <1>5 DEF FirstPrompt
  <1> QED
    BY <1>1, <1>4, <1>6, SelectionStep

\* The provider client and the relay keep it.
LEMMA CallStep ==
    ASSUME RenderInv, NEW r \in Runs, ClientStep(r) \/ RelayWorks(r),
           UNCHANGED <<sequences, spus, vbus, runtimes, request, input>>
    PROVE  RenderInv'
  <1>1. /\ TypeOK /\ ClientTypeOK /\ ClientInv(r) /\ RequestInv(r) /\ InputInv(r)
        /\ FirstPrompt(r) /\ \A n \in 1..Len(runtimes) : RuntimeInv(n)
    BY FirstPrompts DEF RenderInv, TypeOK
  <1>2. /\ ClientTypeOK' /\ ClientInv(r)' /\ (call[r].phase # "idle" \/ call' = call)
        /\ \A q \in Runs : q # r => call'[q] = call[q] /\ operation'[q] = operation[q]
    BY <1>1, ClientStepEffect, RelayEffect
  <1>3. TypeOK' /\ Grow
    BY <1>1, <1>2, SameGrows DEF TypeOK
  <1>4. \A q \in Runs : q # r =>
           ClientInv(q)' /\ RequestInv(q)' /\ InputInv(q)' /\ FirstPrompt(q)'
    BY <1>2, <1>3, KeepsRun
  <1>5. RequestInv(r)'
    BY <1>1, <1>3, KeepsRequest
  <1>6. InputInv(r)'
    BY <1>1, <1>2 DEF InputInv
  <1>7. FirstPrompt(r)'
    BY <1>1 DEF FirstPrompt, InPacket, PromptSpus, PacketOf
  <1>8. \A n \in 1..Len(runtimes) : RuntimeInv(n)'
    BY <1>3, KeepsRuntimes
  <1>9. FirstPromptIsRendered'
    BY <1>4, <1>7 DEF FirstPrompt, FirstPromptIsRendered
  <1> QED
    BY <1>2, <1>3, <1>4, <1>5, <1>6, <1>8, <1>9 DEF RenderInv

----------------------------------------------------------------------------
(* The theorems *)

\* RenderInv holds at the start.
LEMMA InitRenderInv == Init => RenderInv
  <1> SUFFICES ASSUME Init PROVE RenderInv
    OBVIOUS
  <1>1. /\ call = [r \in Runs |-> NoCall] /\ operation = [r \in Runs |-> "none"]
        /\ sequences = <<>> /\ spus = <<>> /\ vbus = <<>> /\ runtimes = <<>>
        /\ request = [r \in Runs |-> NewRequest] /\ input = [r \in Runs |-> NoInput]
    BY DEF Init, ClientInit
  <1>2. NoCall \in Calls
    BY PollsAreNatural DEF NoCall, Calls, CallPhases
  <1>3. ClientTypeOK
    BY <1>1, <1>2 DEF ClientTypeOK, OperationStates
  <1>4. NewRequest \in RequestRecords
    BY RequestsAreTyped DEF NewRequest, RequestRecords, Packets, RequestPhases
  <1>5. NoInput \in Inputs
    BY RequestsAreTyped DEF NoInput, Inputs
  <1>6. TypeOK
    BY <1>1, <1>3, <1>4, <1>5, RequestsAreTyped DEF TypeOK
  <1>7. \A r \in Runs : ClientInv(r)
    BY <1>1 DEF ClientInv, NoCall
  <1>8. \A r \in Runs : RequestInv(r)
    BY <1>1 DEF RequestInv, NewRequest
  <1>9. \A r \in Runs : InputInv(r)
    BY <1>1 DEF InputInv, NoInput, NewRequest, NoCall
  <1>10. FirstPromptIsRendered
    BY <1>1 DEF FirstPromptIsRendered, NoInput
  <1>11. \A n \in 1..Len(runtimes) : RuntimeInv(n)
    BY <1>1
  <1> QED
    BY <1>6, <1>7, <1>8, <1>9, <1>10, <1>11 DEF RenderInv

\* Every step keeps it.
LEMMA StepRenderInv == RenderInv /\ [Next]_vars => RenderInv'
  <1> SUFFICES ASSUME RenderInv, [Next]_vars PROVE RenderInv'
    OBVIOUS
  <1>1. CASE Edit
    BY <1>1, EditStep
  <1>2. ASSUME NEW r \in Runs, Compile(r) PROVE RenderInv'
    BY <1>2, CompileStep
  <1>3. ASSUME NEW r \in Runs, Execute(r) PROVE RenderInv'
    <2>1. CASE LoadRuntime(r)
      BY <2>1, LoadStep
    <2>2. CASE ReportRuntime(r) \/ SelectImageInputs(r) \/ SelectVoiceInputs(r)
      BY <2>2, OtherSelectionStep
    <2>3. CASE SelectVideoInputs(r)
      BY <2>3, VideoStep
    <2>4. CASE ClientStep(r) /\ UNCHANGED <<sequences, spus, vbus, runtimes, request, input>>
      BY <2>4, CallStep
    <2> QED
      BY <1>3, <2>1, <2>2, <2>3, <2>4 DEF Execute
  <1>4. ASSUME NEW r \in Runs, Relay(r) PROVE RenderInv'
    BY <1>4, CallStep DEF Relay
  <1>5. CASE UNCHANGED vars
    <2>1. UNCHANGED <<call, operation, sequences, spus, vbus, runtimes, request, input>>
      BY <1>5 DEF vars
    <2>2. TypeOK' /\ Grow
      BY <2>1, SameGrows DEF RenderInv, TypeOK, ClientTypeOK
    <2>3. \A q \in Runs : ClientInv(q)' /\ RequestInv(q)' /\ InputInv(q)' /\ FirstPrompt(q)'
      BY <2>1, <2>2, KeepsRun
    <2>4. \A n \in 1..Len(runtimes) : RuntimeInv(n)'
      BY <2>1, <2>2, KeepsRuntimes
    <2>5. FirstPromptIsRendered'
      BY <2>3 DEF FirstPrompt, FirstPromptIsRendered
    <2> QED
      BY <2>1, <2>2, <2>3, <2>4, <2>5 DEF RenderInv
  <1> QED
    BY <1>1, <1>2, <1>3, <1>4, <1>5 DEF Next

\* RenderInv is an invariant.
LEMMA RenderInvariant == Spec => []RenderInv
  <1>1. Init => RenderInv
    BY InitRenderInv
  <1>2. RenderInv /\ [Next]_vars => RenderInv'
    BY StepRenderInv
  <1> QED
    BY <1>1, <1>2, PTL DEF Spec

\* The types of the tables, the requests, the inputs and the calls.
THEOREM TypesAreKept == Spec => []TypeOK
  <1>1. RenderInv => TypeOK
    BY DEF RenderInv
  <1> QED
    BY <1>1, RenderInvariant, PTL

\* Two requests that choose their version by the count, one after the other has committed,
\* get two versions: the version of the first is not behind the count of the second.
THEOREM LaterRequestsGetNewVersions == Spec => []LaterVersionsDiffer
  <1>1. RenderInv => LaterVersionsDiffer
    <2> SUFFICES ASSUME RenderInv, NEW m \in 1..Len(runtimes), NEW n \in 1..Len(runtimes),
                        runtimes[m].auto, runtimes[n].auto, m <= runtimes[n].counted
                 PROVE  runtimes[m].version # runtimes[n].version
      BY DEF LaterVersionsDiffer
    <2>1. TypeOK /\ RuntimeInv(m) /\ RuntimeInv(n)
      BY DEF RenderInv
    <2>2. /\ runtimes[m].counted \in Nat /\ runtimes[n].counted \in Nat
          /\ m \in Nat
      BY <2>1, Fields
    <2>3. /\ runtimes[m].version = runtimes[m].counted + 1 /\ runtimes[m].counted < m
          /\ runtimes[n].version = runtimes[n].counted + 1
      BY <2>1 DEF RuntimeInv
    <2> QED
      BY <2>2, <2>3
  <1> QED
    BY <1>1, RenderInvariant, PTL

\* A video shows the text of the first sequence of its packet that has any, and a job stops
\* for want of a prompt only because the very first has none, if the packet is that of the
\* job's request; with the packet of an overlapping request it shows text of that packet.
THEOREM VideosShowTheFirstPrompt == Spec => []FirstPromptIsRendered
  <1>1. RenderInv => FirstPromptIsRendered
    BY DEF RenderInv
  <1> QED
    BY <1>1, RenderInvariant, PTL

\* What a run of a video concludes is what the relay did, for any number of polls.
THEOREM VideoOutcomesAreReal == Spec => []VideoOutcomeIsReal
  <1>1. RenderInv => VideoOutcomeIsReal
    BY ClientInvOutcome DEF RenderInv
  <1> QED
    BY <1>1, RenderInvariant, PTL

=============================================================================
