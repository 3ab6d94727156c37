------------------------------ MODULE HostRun ------------------------------
(***************************************************************************)
(* One process of tt_row_reduce_metal: main() and run() of                 *)
(* src/metal_main.cpp, from the command line to the exit status.           *)
(*                                                                         *)
(* The device is what the host has to judge, so nothing is assumed of it:  *)
(* it may store a page rightly or wrongly, skip it, or find in fresh DRAM  *)
(* whatever an earlier process left there.  Every Metal call may throw.    *)
(***************************************************************************)
EXTENDS Integers, Sequences

CONSTANTS
    Ht,          \* output pages
    MaxRepeats,  \* largest --repeat, 100 in parse_options
    Poison       \* a page holding 0x7fc1 in every element

ASSUME HtAssumption == Ht \in Nat \ {0}
ASSUME MaxRepeatsAssumption == MaxRepeats \in Nat \ {0}

Row == 0 .. Ht - 1

\* Quantized inputs, by what the host and the sums can tell apart.
Content == {"zero", "ones", "balanced", "mixed"}

\* balanced is the cancellation pattern: non-zero tiles, zero sums.
SumOf == [zero |-> "nil", balanced |-> "nil", ones |-> "width", mixed |-> "other"]

\* An output page: the sums in its first column and whether the rest is zero.
Good(content) == [sum |-> SumOf[content], clean |-> TRUE]
StoredPage == [sum : {"nil", "width", "other"}, clean : BOOLEAN]

ASSUME PoisonAssumption == Poison \notin StoredPage

OutPage == StoredPage \cup {Poison}

\* What the command line asks for.  malformed stands for an unknown flag, a
\* missing value, a number out of range; data is bad when the shape, length,
\* nodes, pattern or a value is refused; profile is unset when --profile comes
\* without TT_METAL_DEVICE_PROFILER=1.
Request ==
    [help : BOOLEAN, malformed : BOOLEAN, repeats : 0 .. MaxRepeats + 1,
     profile : {"off", "on", "unset"}, data : Content \cup {"bad"}]

VARIABLES
    request,       \* the command line and the environment
    phase,         \* the next call of main or run
    before_device,
    device,        \* the MeshDevice
    closes,        \* calls of close()
    prepared,      \* the PreparedInput
    inDram,        \* input tensor
    outDram,       \* output tensor, one OutPage per row
    launched,      \* the workload is running
    stored,        \* pages the running launch stored rightly (history)
    actual,        \* the output as read back
    iteration,
    verdict,       \* comparison.pass && padding_zero of this iteration
    pass,
    records,       \* TT_ROW_REDUCE_RESULT lines
    exit           \* exit status, or -1

mesh == <<device, closes>>
dram == <<inDram, outDram>>
kernel == <<launched, stored>>
judged == <<actual, verdict>>
loop == <<prepared, iteration, pass, records>>
vars == <<request, phase, before_device, mesh, loop, dram, kernel, judged, exit>>

\* An allocation holds what an earlier process left in it.
Init ==
    /\ request \in Request
    /\ phase = IF request.help THEN "help" ELSE "parse"
    /\ before_device = TRUE
    /\ device = "none"
    /\ closes = 0
    /\ prepared = "none"
    /\ inDram = "none"
    /\ outDram = [r \in Row |-> Poison]
    /\ launched = FALSE
    /\ stored = {}
    /\ actual = [r \in Row |-> Poison]
    /\ verdict = FALSE
    /\ iteration = 0
    /\ pass = TRUE
    /\ records = << >>
    /\ exit = -1

Step(here, there) == phase = here /\ phase' = there

-----------------------------------------------------------------------------
\* Before the device

Help ==
    /\ Step("help", "exit")
    /\ exit' = 0
    /\ UNCHANGED <<request, before_device, mesh, loop, dram, kernel, judged>>

RejectOptions == request.malformed \/ request.repeats \notin 1 .. MaxRepeats

ParseOptions ==
    /\ phase = "parse"
    /\ phase' = IF RejectOptions THEN "catch" ELSE "prepare"
    /\ UNCHANGED <<request, before_device, mesh, loop, dram, kernel, judged, exit>>

\* make_input or read_input_file, prepare_input and the first run of the host
\* cross-checks.
PrepareInput ==
    /\ phase = "prepare"
    /\ IF request.data = "bad"
         THEN phase' = "catch" /\ UNCHANGED prepared
         ELSE phase' = "profiler" /\ prepared' = request.data
    /\ UNCHANGED <<request, before_device, mesh, dram, kernel, judged,
                   iteration, pass, records, exit>>

RejectProfiler == request.profile = "unset"

\* Faulty variant: before_device is cleared ahead of the check.
CheckProfilerLate ==
    /\ phase = "profiler"
    /\ IF RejectProfiler
         THEN phase' = "catch" /\ before_device' = FALSE
         ELSE phase' = "create" /\ before_device' = FALSE
    /\ UNCHANGED <<request, mesh, loop, dram, kernel, judged, exit>>

CheckProfiler ==
    /\ phase = "profiler"
    /\ IF RejectProfiler
         THEN phase' = "catch" /\ UNCHANGED before_device
         ELSE phase' = "create" /\ before_device' = FALSE
    /\ UNCHANGED <<request, mesh, loop, dram, kernel, judged, exit>>

-----------------------------------------------------------------------------
\* run()

CreateDevice ==
    /\ Step("create", "setup")
    /\ device' = "open"
    /\ UNCHANGED <<request, before_device, closes, loop, dram, kernel, judged, exit>>

\* The architecture check, the two allocations and make_program.
Setup ==
    /\ Step("setup", "change")
    /\ inDram' \in Content
    /\ outDram' \in [Row -> OutPage]
    /\ UNCHANGED <<request, before_device, mesh, loop, kernel, judged, exit>>

\* Faulty variant: the second input is all ones whatever the first was.
NextInputOnes ==
    IF iteration = 0 THEN prepared
    ELSE "ones"

NextInput ==
    IF iteration = 0 THEN prepared
    ELSE IF prepared = "ones" THEN "zero" ELSE "ones"

\* The start of an iteration: every launch but the first changes the input.
ChangeInput ==
    /\ Step("change", "bind")
    /\ prepared' = NextInput
    /\ UNCHANGED <<request, before_device, mesh, dram, kernel, judged,
                   iteration, pass, records, exit>>

BindArguments ==
    /\ Step("bind", "upload")
    /\ UNCHANGED <<request, before_device, mesh, loop, dram, kernel, judged, exit>>

Upload ==
    /\ Step("upload", "poison")
    /\ inDram' = prepared
    /\ UNCHANGED <<request, before_device, mesh, loop, outDram, kernel, judged, exit>>

\* Faulty variant: the output keeps what was there.
PoisonOmitted ==
    /\ Step("poison", "enqueue")
    /\ UNCHANGED <<request, before_device, mesh, loop, dram, kernel, judged, exit>>

PoisonOutput ==
    /\ Step("poison", "enqueue")
    /\ outDram' = [r \in Row |-> Poison]
    /\ UNCHANGED <<request, before_device, mesh, loop, inDram, kernel, judged, exit>>

\* EnqueueMeshWorkload does not block.
Enqueue ==
    /\ Step("enqueue", "finish")
    /\ launched' = TRUE
    /\ stored' = {}
    /\ UNCHANGED <<request, before_device, mesh, loop, dram, judged, exit>>

\* Faulty variant: waits until every page has been stored.
FinishWhenComplete ==
    /\ Step("finish", "read")
    /\ ~launched /\ stored = Row
    /\ UNCHANGED <<request, before_device, mesh, loop, dram, kernel, judged, exit>>

Finish ==
    /\ Step("finish", "read")
    /\ ~launched
    /\ UNCHANGED <<request, before_device, mesh, loop, dram, kernel, judged, exit>>

ReadOutput ==
    /\ Step("read", "compare")
    /\ actual' = outDram
    /\ UNCHANGED <<request, before_device, mesh, loop, dram, kernel, verdict, exit>>

\* A poisoned element is a NaN, which no row accepts, and is not zero padding.
RowsPass == \A r \in Row : actual[r] # Poison /\ actual[r].sum = SumOf[prepared]
PaddingZero == \A r \in Row : actual[r] # Poison /\ actual[r].clean

Compare ==
    /\ Step("compare", "emit")
    /\ verdict' = (RowsPass /\ PaddingZero)
    /\ UNCHANGED <<request, before_device, mesh, loop, dram, kernel, actual, exit>>

\* Faulty variant: the last iteration decides alone.
EmitResultLast ==
    /\ Step("emit", "next")
    /\ records' = Append(records,
         [repeat_index |-> iteration, input |-> prepared, pass |-> verdict])
    /\ pass' = verdict
    /\ UNCHANGED <<request, before_device, mesh, dram, kernel, judged,
                   prepared, iteration, exit>>

EmitResult ==
    /\ Step("emit", "next")
    /\ records' = Append(records,
         [repeat_index |-> iteration, input |-> prepared, pass |-> verdict])
    /\ pass' = (verdict /\ pass)
    /\ UNCHANGED <<request, before_device, mesh, dram, kernel, judged,
                   prepared, iteration, exit>>

\* ReadMeshDeviceProfilerResults when profiling, and the end of the loop body.
NextIteration ==
    /\ phase = "next"
    /\ iteration' = iteration + 1
    /\ phase' = IF iteration + 1 < request.repeats THEN "change" ELSE "close"
    /\ UNCHANGED <<request, before_device, mesh, dram, kernel, judged,
                   prepared, pass, records, exit>>

Status(closed) == IF pass /\ closed THEN 0 ELSE 1

\* close() says whether it succeeded; device.reset() drops the handle.
Close ==
    \E closed \in BOOLEAN :
        /\ Step("close", "exit")
        /\ device' = IF closed THEN "closed" ELSE "open"
        /\ closes' = closes + 1
        /\ exit' = Status(closed)
        /\ UNCHANGED <<request, before_device, loop, dram, kernel, judged>>

\* Calls that may throw.  profile: the profiler is read only when asked for.
\* compare and prepare: a disagreement of the independent host checks.
MayThrow ==
    \/ phase \in {"prepare", "create", "setup", "change", "bind", "upload",
                  "poison", "enqueue", "finish", "read"}
    \/ phase = "compare" /\ RowsPass /\ PaddingZero
    \/ phase = "next" /\ request.profile = "on"

Throw ==
    /\ MayThrow
    /\ phase' = "catch"
    /\ UNCHANGED <<request, before_device, mesh, loop, dram, kernel, judged, exit>>

\* close() itself throws: the handler closes a second time.
CloseThrows ==
    /\ Step("close", "catch")
    /\ closes' = closes + 1
    /\ UNCHANGED <<request, before_device, device, loop, dram, kernel, judged, exit>>

\* Faulty variant: the handler only reports.
CatchUnclosed ==
    /\ Step("catch", "exit")
    /\ exit' = IF before_device THEN 2 ELSE 1
    /\ UNCHANGED <<request, before_device, mesh, loop, dram, kernel, judged>>

\* catch (const std::exception&); what its close() throws or returns is lost.
Catch ==
    /\ Step("catch", "exit")
    /\ IF device = "none"
         THEN UNCHANGED mesh
         ELSE device' \in {"open", "closed"} /\ closes' = closes + 1
    /\ exit' = IF before_device THEN 2 ELSE 1
    /\ UNCHANGED <<request, before_device, loop, dram, kernel, judged>>

-----------------------------------------------------------------------------
\* The device, as the host may find it

StoreRight(r) ==
    /\ launched
    /\ outDram' = [outDram EXCEPT ![r] = Good(inDram)]
    /\ stored' = stored \cup {r}
    /\ UNCHANGED <<request, phase, before_device, mesh, loop, inDram, launched,
                   judged, exit>>

StoreWrong(r) ==
    /\ launched
    /\ outDram' \in {[outDram EXCEPT ![r] = page] : page \in OutPage \ {Good(inDram)}}
    /\ stored' = stored \ {r}
    /\ UNCHANGED <<request, phase, before_device, mesh, loop, inDram, launched,
                   judged, exit>>

Return ==
    /\ launched
    /\ launched' = FALSE
    /\ UNCHANGED <<request, phase, before_device, mesh, loop, dram, stored,
                   judged, exit>>

-----------------------------------------------------------------------------
Terminating == phase = "exit" /\ UNCHANGED vars

Host ==
    \/ Help \/ ParseOptions \/ PrepareInput \/ CheckProfiler
    \/ CreateDevice \/ Setup
    \/ ChangeInput \/ BindArguments \/ Upload \/ PoisonOutput
    \/ Enqueue \/ Finish \/ ReadOutput \/ Compare \/ EmitResult \/ NextIteration
    \/ Close \/ Catch

Next ==
    \/ Host \/ Throw \/ CloseThrows
    \/ \E r \in Row : StoreRight(r) \/ StoreWrong(r)
    \/ Return
    \/ Terminating

Spec == Init /\ [][Next]_vars

\* The process runs on, no call has to throw, and a launch returns
\* (EveryLaunchFinishes of ReducePipeline).
FairSpec == Spec /\ WF_vars(Host) /\ WF_vars(Return)

-----------------------------------------------------------------------------
\* "skipped writes cannot accidentally pass an all-zero case or inherit a
\* previous invocation's allocation": an iteration passes only if this very
\* launch stored every page, rightly.
PassMeansStored == phase = "emit" /\ verdict => stored = Row

\* "even a one-element random input or an input file containing only ones must
\* change on the next launch": no two consecutive uploads are the same.
UploadsDiffer ==
    [][phase = "upload" /\ iteration > 0 /\ phase' = "poison" => inDram' # inDram]_vars

\* Exit status 0 is the evidence the runners trust: every iteration left a
\* passing record, in order, and the device was closed.
ExitZeroIsEvidence ==
    exit = 0 /\ ~request.help =>
        /\ Len(records) = request.repeats
        /\ \A i \in 1 .. Len(records) :
             records[i].pass /\ records[i].repeat_index = i - 1
        /\ device = "closed"

\* Whatever throws and wherever, a device that was created is given back
\* before the process ends by itself.
DeviceGivenBack == exit # -1 /\ device = "open" => closes > 0

\* The process ends, whatever the device stores and whatever throws.
ProcessEnds == <>(phase = "exit")

=============================================================================
