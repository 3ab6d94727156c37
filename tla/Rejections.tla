----------------------------- MODULE Rejections -----------------------------
(***************************************************************************)
(* Rejected input as evidence: run_case() and classify_rejection() of      *)
(* tools/run_rejections.py over one process of the host program.  The      *)
(* runner starts the program with input it has to refuse, waits for it or  *)
(* kills it, and classifies what it left: an exit status and its output.   *)
(*                                                                         *)
(* A program under test need not refuse what it should: the runner's       *)
(* cases are requests of any content.                                      *)
(***************************************************************************)
EXTENDS HostRun

VARIABLES
    errors,  \* TT_ROW_REDUCE_ERROR lines
    ending   \* how the process ended, for the runner

runnerVars == <<vars, errors, ending>>

RunnerInit == Init /\ errors = << >> /\ ending = "none"

\* The fourteen cases give a shape, a node count or an input file, nothing else.
required_cases ==
    {r \in Request : ~r.help /\ ~r.malformed /\ r.repeats = 1 /\ r.profile = "off"}

-----------------------------------------------------------------------------
\* The handler's line says whether a device was created; nobody else prints one.
ErrorLine ==
    [before_device |-> before_device,
     status |-> IF before_device THEN "invalid-input" ELSE "runtime-error"]

HostStep ==
    /\ ending = "none"
    /\ Next
    /\ errors' = IF phase = "catch" /\ phase' = "exit" THEN Append(errors, ErrorLine) ELSE errors
    /\ UNCHANGED ending

\* The runner's part of a case that the process does not end by itself; the
\* simulator, and with it a launch, ends with the process.
Cut ==
    /\ request \in required_cases
    /\ phase' = "exit"
    /\ launched' = FALSE
    /\ UNCHANGED <<request, before_device, mesh, loop, dram, stored, judged, exit>>

\* Popen raises OSError.
NotStarted ==
    /\ phase = "parse"
    /\ Cut
    /\ ending' = "oserror"
    /\ UNCHANGED errors

\* The timeout passes, or a signal ends the process; what it printed is there,
\* and the handler prints before it closes the device.
Killed ==
    /\ phase # "exit"
    /\ Cut
    /\ ending' \in {"timeout", "signal"}
    /\ \/ UNCHANGED errors
       \/ phase = "catch" /\ errors' = Append(errors, ErrorLine)

Over == ending # "none" /\ UNCHANGED runnerVars

RunnerNext == HostStep \/ NotStarted \/ Killed \/ Over

RunnerSpec ==
    /\ RunnerInit /\ [][RunnerNext]_runnerVars
    /\ WF_vars(Host) /\ WF_vars(Return)

\* exit is -1 after a signal, as good as any but 0 and 2.
classify_rejection ==
    IF ending = "oserror" THEN "unsupported"
    ELSE IF ending = "timeout" THEN "timeout"
    ELSE IF records # << >> THEN "validation-fail"
    ELSE IF exit # 2 THEN IF exit = 0 THEN "validation-fail" ELSE "crash"
    ELSE IF Len(errors) # 1 THEN "protocol-error"
    ELSE IF errors[1].before_device /\ errors[1].status = "invalid-input" THEN "pass"
    ELSE "validation-fail"

-----------------------------------------------------------------------------
\* "All shape/value/length/node checks and the independent host checks run
\* before device creation, allocation, or any upload", and "Exit 2 alone is
\* insufficient": what the runner passes never touched a device, wherever the
\* process was killed and whatever it had been given; and a request the program
\* has to refuse passes unless its process was ended from outside.
RejectionIsEvidence ==
    phase = "exit" /\ ~request.help =>
        /\ classify_rejection = "pass" =>
             device = "none" /\ closes = 0 /\ inDram = "none" /\ records = << >>
        /\ ending = "none" /\ (RejectOptions \/ request.data = "bad" \/ RejectProfiler)
             => classify_rejection = "pass"

=============================================================================
