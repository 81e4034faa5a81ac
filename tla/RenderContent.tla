---------------------------- MODULE RenderContent ----------------------------
(***************************************************************************)
(* From the content of a project to what is asked of the provider: editors *)
(* add sequences and their units, compile requests validate the project,   *)
(* choose a version, write a packet and create a job, and a worker reads   *)
(* the packet of the job's version, selects its inputs and calls the       *)
(* provider (app/compilers/orchestrator/compiler_service.py,               *)
(* app/services, app/workers/executors.py, app/providers/google/client.py).*)
(*                                                                         *)
(* Rows are only ever added.  A row's identifier is its place in the order *)
(* of creation, and what a query saw is how many rows there were.  Every   *)
(* query reads what is committed at that moment (READ COMMITTED), so the   *)
(* queries of one request may see different contents.                      *)
(*                                                                         *)
(* Each request stands for one of the jobs of its version, any of them:    *)
(* they read a packet and share nothing else.  Bridges, which no job       *)
(* reads, are left out.                                                    *)
(***************************************************************************)
EXTENDS ProviderClient, Sequences

CONSTANTS
    ExplicitVersion,\* the runtime_version a request names, 0 for auto_version
    JobKinds,       \* the jobs a request may stand for, none without dispatch_jobs
    Indexes,        \* values of sequence_index
    MaxSequences, MaxSpus, MaxVbus  \* bounds on the rows

Kinds == {"compile", "render_image", "render_video", "render_voice"}

ASSUME RequestsAreTyped ==
    /\ ExplicitVersion \in [Runs -> Nat]
    /\ JobKinds \in [Runs -> SUBSET Kinds]
    /\ Indexes \subseteq Nat
    /\ MaxSequences \in Nat /\ MaxSpus \in Nat /\ MaxVbus \in Nat

VARIABLES
    sequences,      \* sequence_index of each sequences row
    spus,           \* the spus rows
    vbus,           \* the vbus rows
    runtimes,       \* the compiled_runtimes rows
    request,        \* the session of each compile request
    input           \* what the worker selected for the job

contentVars == <<sequences, spus, vbus>>
vars == <<call, operation, sequences, spus, vbus, runtimes, request, input>>

----------------------------------------------------------------------------
\* sequence: the sequence a unit belongs to, 0 for none; prompt, script: whether
\* the text is there.
Spus == [sequence: 0..MaxSequences, prompt: BOOLEAN]
Vbus == [sequence: 0..MaxSequences, script: BOOLEAN]

\* A packet is how many rows its queries saw.
Packets == [sequences: 0..MaxSequences, spus: 0..MaxSpus, vbus: 0..MaxVbus]

\* by: the request that created the row; counted: how many runtimes the version was
\* chosen after; auto: by the count.
Runtimes == [by: Runs, version: Nat, packet: Packets, counted: Nat, auto: BOOLEAN]

RequestPhases == {"new", "validating", "valid", "versioned", "planned", "read", "selected",
                  "prompted", "refused", "sent", "taken"}

RequestRecords ==
    [phase: RequestPhases, packet: Packets, counted: Nat, version: Nat,
     selector: 0..MaxSequences, image: 0..MaxSpus]

\* unit: the spu or, for a voice, the vbu that gives the text, 0 for none.
Inputs ==
    [phase: {"none", "loaded", "selected", "missing", "crashed"},
     kind: Kinds \cup {"none"}, runtime: Nat, sequence: 0..MaxSequences,
     unit: 0..MaxSpus \cup 0..MaxVbus,
     source: {"none", "job_payload", "runtime_spu", "runtime_vbu", "runtime_fallback"}]

NoInput ==
    [phase |-> "none", kind |-> "none", runtime |-> 0, sequence |-> 0, unit |-> 0, source |-> "none"]

NewRequest ==
    [phase |-> "new", packet |-> [sequences |-> 0, spus |-> 0, vbus |-> 0],
     counted |-> 0, version |-> 0, selector |-> 0, image |-> 0]

Init ==
    /\ ClientInit
    /\ sequences = <<>> /\ spus = <<>> /\ vbus = <<>>
    /\ runtimes = <<>>
    /\ request = [r \in Runs |-> NewRequest]
    /\ input = [r \in Runs |-> NoInput]

----------------------------------------------------------------------------
(* Editors *)

CreateSequence ==
    /\ Len(sequences) < MaxSequences
    /\ \E i \in Indexes : sequences' = Append(sequences, i)
    /\ UNCHANGED <<spus, vbus, runtimes, request, input, clientVars>>

\* The foreign key: a unit names a sequence that is there, or none.
CreateSpu ==
    /\ Len(spus) < MaxSpus
    /\ \E s \in 0..Len(sequences), p \in BOOLEAN :
          spus' = Append(spus, [sequence |-> s, prompt |-> p])
    /\ UNCHANGED <<sequences, vbus, runtimes, request, input, clientVars>>

CreateVbu ==
    /\ Len(vbus) < MaxVbus
    /\ \E s \in 0..Len(sequences), p \in BOOLEAN :
          vbus' = Append(vbus, [sequence |-> s, script |-> p])
    /\ UNCHANGED <<sequences, spus, runtimes, request, input, clientVars>>

----------------------------------------------------------------------------
(* compile_project *)

Requesting(r, phase) == request[r].phase = phase

Advance(r, phase) == request' = [request EXCEPT ![r].phase = phase]

RequestOnly == UNCHANGED <<sequences, spus, vbus, runtimes, input, clientVars>>

\* The validator reads the sequences,
ReadSequences(r) ==
    /\ Requesting(r, "new")
    /\ request' = [request EXCEPT ![r].phase = "validating",
                                  ![r].packet.sequences = Len(sequences)]
    /\ RequestOnly

\* then the units: one of a sequence it has not seen is an error.
Validate(r) ==
    /\ Requesting(r, "validating")
    /\ LET seen == request[r].packet.sequences
           valid == /\ seen > 0 /\ Len(spus) > 0
                    /\ \A i \in 1..Len(spus) : spus[i].sequence <= seen
                    /\ \A i \in 1..Len(vbus) : vbus[i].sequence <= seen
       IN request' = [request EXCEPT ![r].phase = IF valid THEN "valid" ELSE "refused",
                                     ![r].packet.sequences = 0]
    /\ RequestOnly

\* Mutant: only the first version is one more than the count.
AtLeastOne(rows) == IF rows = <<>> THEN 1 ELSE Len(rows)

\* RuntimeVersionService.next_version
NextVersion(rows) == Len(rows) + 1

\* _resolve_runtime_version
ResolveVersion(r) ==
    /\ Requesting(r, "valid")
    /\ request' = [request EXCEPT
                     ![r].phase = "versioned",
                     ![r].counted = Len(runtimes),
                     ![r].version = IF ExplicitVersion[r] # 0 THEN ExplicitVersion[r]
                                    ELSE NextVersion(runtimes)]
    /\ RequestOnly

ReadPlan(r) ==
    /\ Requesting(r, "versioned")
    /\ request' = [request EXCEPT ![r].phase = "planned",
                                  ![r].packet.sequences = Len(sequences)]
    /\ RequestOnly

ReadUnits(r) ==
    /\ Requesting(r, "planned")
    /\ request' = [request EXCEPT ![r].phase = "read", ![r].packet.spus = Len(spus),
                                  ![r].packet.vbus = Len(vbus)]
    /\ RequestOnly

\* Mutant: the sequence that was created first.
OldestSequence(n) == IF n = 0 THEN 0 ELSE 1

\* The first of n sequences by index, then by creation.
PrimarySequence(n) ==
    IF n = 0 THEN 0
    ELSE CHOOSE s \in 1..n : \A t \in 1..n :
            sequences[s] < sequences[t] \/ (sequences[s] = sequences[t] /\ s <= t)

\* _resolve_primary_sequence_selector
SelectPrimarySequence(r) ==
    /\ Requesting(r, "read")
    /\ request' = [request EXCEPT ![r].phase = "selected",
                                  ![r].selector = PrimarySequence(Len(sequences))]
    /\ RequestOnly

\* _build_render_image_payload: the oldest unit of the project that has a prompt.
BuildImagePayload(r) ==
    /\ Requesting(r, "selected")
    /\ LET prompted == {u \in 1..Len(spus) : spus[u].prompt}
       IN \E u \in IF prompted = {} THEN {0} ELSE prompted :
             /\ \A v \in prompted : u <= v
             /\ request' = [request EXCEPT ![r].phase = "prompted", ![r].image = u]
    /\ RequestOnly

\* The runtime and its jobs are committed, and the message is sent.
CommitAndSend(r) ==
    /\ Requesting(r, "prompted")
    /\ runtimes' = Append(runtimes, [by |-> r, version |-> request[r].version,
                                     packet |-> request[r].packet,
                                     counted |-> request[r].counted,
                                     auto |-> ExplicitVersion[r] = 0])
    /\ request' = [request EXCEPT ![r].phase = "sent", ![r].counted = 0,
                                  ![r].packet = NewRequest.packet]
    /\ UNCHANGED <<sequences, spus, vbus, input, clientVars>>

----------------------------------------------------------------------------
(* The executors *)

\* The newest rows of a version.  created_at is the start of a transaction: of requests
\* that overlapped any may be the newest here, and requests that chose one version by
\* the count always overlapped.
Newest(version) ==
    LET same == {n \in 1..Len(runtimes) : runtimes[n].version = version}
    IN {n \in same : \A m \in same : runtimes[m].counted < n}

\* A worker takes a job of the request; _load_runtime_payload reads the newest runtime
\* of the job's version.
LoadRuntime(r) ==
    /\ Requesting(r, "sent")
    /\ Advance(r, "taken")
    /\ \E kind \in JobKinds[r], n \in Newest(request[r].version) :
          input' = [input EXCEPT ![r].phase = "loaded", ![r].kind = kind, ![r].runtime = n]
    /\ UNCHANGED <<sequences, spus, vbus, runtimes, clientVars>>

PacketOf(r) == runtimes[input[r].runtime].packet

InPacket(r) == 1..PacketOf(r).sequences

\* The jobs of the compiler carry its selector, a voice job comes without one.
SelectorOf(r) == IF input[r].kind = "render_voice" THEN 0 ELSE request[r].selector

\* _resolve_selected_sequence: by identifier, then by index; 0 if neither is there.
SelectedSequences(r) ==
    LET s == SelectorOf(r)
        same == {t \in InPacket(r) : s # 0 /\ sequences[t] = sequences[s]}
    IN IF s \in InPacket(r) THEN {s} ELSE IF same # {} THEN same ELSE {0}

\* What a selection with the selected sequence s looks through.
SearchSequences(r, s) == IF s = 0 THEN InPacket(r) ELSE {s}

PromptSpus(r, s) == {u \in 1..PacketOf(r).spus : spus[u].sequence = s /\ spus[u].prompt}

AnySpus(r, s) == {u \in 1..PacketOf(r).spus : spus[u].sequence = s}

ScriptVbus(r, s) == {u \in 1..PacketOf(r).vbus : vbus[u].sequence = s /\ vbus[u].script}

\* The first by index; the order of equal indexes, like the order of the units of a
\* sequence, is the database's.
FirstOf(found) == {s \in found : \A t \in found : sequences[s] <= sequences[t]}

Loaded(r, kind) == input[r].phase = "loaded" /\ input[r].kind = kind

Select(r, s, u, source, phase) ==
    /\ input' = [input EXCEPT ![r].phase = "selected", ![r].sequence = s, ![r].unit = u,
                              ![r].source = source]
    /\ call' = [call EXCEPT ![r].phase = phase]
    /\ UNCHANGED <<operation, sequences, spus, vbus, runtimes, request>>

Stop(r, phase) ==
    /\ input' = [input EXCEPT ![r].phase = phase]
    /\ UNCHANGED <<sequences, spus, vbus, runtimes, request, clientVars>>

\* CompileRuntimeExecutor reports what the packet holds.
ReportRuntime(r) ==
    /\ Loaded(r, "compile")
    /\ input' = [input EXCEPT ![r].phase = "selected"]
    /\ call' = [call EXCEPT ![r].phase = "returned"]
    /\ UNCHANGED <<operation, sequences, spus, vbus, runtimes, request>>

\* GoogleImagenExecutor: the prompt is the one of the job's payload, wherever its unit
\* belongs, and the selected sequence is only reported.  Without one the executor
\* calls a method its class does not have.
SelectImageInputs(r) ==
    /\ Loaded(r, "render_image")
    /\ \E s \in SelectedSequences(r) :
          IF s = 0 THEN Stop(r, "crashed")
          ELSE Select(r, s, request[r].image, "job_payload", "requesting")

\* _select_primary_spu of GoogleVideoExecutor
SelectVideoInputs(r) ==
    /\ Loaded(r, "render_video")
    /\ \E selected \in SelectedSequences(r) :
          LET found == {s \in SearchSequences(r, selected) : PromptSpus(r, s) # {}}
          IN \/ \E s \in FirstOf(found) : \E u \in PromptSpus(r, s) :
                   Select(r, s, u, "runtime_spu", "creating")
             \/ found = {} /\ Stop(r, "missing")

\* GoogleVoiceExecutor: a script, or else a narration made of a visual unit.
SelectVoiceInputs(r) ==
    /\ Loaded(r, "render_voice")
    /\ \E selected \in SelectedSequences(r) :
          LET searched == SearchSequences(r, selected)
              spoken == {s \in searched : ScriptVbus(r, s) # {}}
              shown == {s \in searched : AnySpus(r, s) # {}}
          IN \/ \E s \in FirstOf(spoken) : \E u \in ScriptVbus(r, s) :
                   Select(r, s, u, "runtime_vbu", "speaking")
             \/ /\ spoken = {}
                /\ \/ \E s \in FirstOf(shown) : \E u \in AnySpus(r, s) :
                         Select(r, s, u, "runtime_fallback", "speaking")
                   \/ shown = {} /\ Stop(r, "missing")

----------------------------------------------------------------------------
Compile(r) ==
    \/ ReadSequences(r) \/ Validate(r) \/ ResolveVersion(r)
    \/ ReadPlan(r) \/ ReadUnits(r) \/ SelectPrimarySequence(r)
    \/ BuildImagePayload(r) \/ CommitAndSend(r)

Execute(r) ==
    \/ LoadRuntime(r) \/ ReportRuntime(r)
    \/ SelectImageInputs(r) \/ SelectVideoInputs(r) \/ SelectVoiceInputs(r)
    \/ ClientStep(r) /\ UNCHANGED <<sequences, spus, vbus, runtimes, request, input>>

Edit == CreateSequence \/ CreateSpu \/ CreateVbu

Relay(r) == RelayWorks(r) /\ UNCHANGED <<sequences, spus, vbus, runtimes, request, input>>

Next == Edit \/ \E r \in Runs : Compile(r) \/ Execute(r) \/ Relay(r)

Spec == Init /\ [][Next]_vars

----------------------------------------------------------------------------
(* Properties *)

TypeOK ==
    /\ ClientTypeOK
    /\ sequences \in Seq(Indexes) /\ Len(sequences) <= MaxSequences
    /\ spus \in Seq(Spus) /\ Len(spus) <= MaxSpus
    /\ vbus \in Seq(Vbus) /\ Len(vbus) <= MaxVbus
    /\ runtimes \in Seq(Runtimes)
    /\ request \in [Runs -> RequestRecords]
    /\ input \in [Runs -> Inputs]

\* Two requests that choose their version by the count, the second after the first
\* has committed, get two versions, whatever explicit versions came in between.
LaterVersionsDiffer ==
    \A m, n \in 1..Len(runtimes) :
        /\ runtimes[m].auto /\ runtimes[n].auto
        /\ m <= runtimes[n].counted
        => runtimes[m].version # runtimes[n].version

\* A video shows a sequence of the packet its worker read, and text of that sequence.
\* If the packet is the one of the job's own request, the sequence is the first of it
\* that has a prompt at all, and the job stops for want of a prompt only because the
\* very first has none: also when the plan is edited between the query that made the
\* packet and the one that chose the sequence.
FirstPromptIsRendered ==
    \A r \in Runs :
        input[r].kind = "render_video" =>
            LET own == runtimes[input[r].runtime].by = r IN
            /\ input[r].phase = "selected" =>
                  /\ input[r].sequence \in InPacket(r)
                  /\ input[r].unit \in PromptSpus(r, input[r].sequence)
                  /\ own => \A s \in InPacket(r) : PromptSpus(r, s) # {} =>
                                sequences[input[r].sequence] <= sequences[s]
            /\ input[r].phase = "missing" /\ own =>
                  \E s \in InPacket(r) :
                      /\ PromptSpus(r, s) = {}
                      /\ \A t \in InPacket(r) : sequences[s] <= sequences[t]

=============================================================================
