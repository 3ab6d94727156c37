------------------------------ MODULE CaseRun ------------------------------
(***************************************************************************)
(* One case of the evidence runner: run_subprocess and run_case of         *)
(* tools/run_matrix.py on one side, the host process they start on the     *)
(* other.  Nothing is assumed of the process: it may print any lines, end  *)
(* with any code, hang, or ignore SIGTERM.                                 *)
(***************************************************************************)
EXTENDS Integers, Sequences, FiniteSets

CONSTANTS
    Repeat,   \* case.repeat, the result records expected of the process
    Input,    \* digests of the inputs a record can carry
    MaxLines  \* bound on the result lines of one process

ASSUME RepeatAssumption == Repeat \in Nat \ {0}
ASSUME LinesAssumption == MaxLines \in Nat

\* A result line: not JSON, or an object that validate_result refuses, finds
\* numerically wrong, or accepts.
Garbled == [verdict |-> "garbled"]
Line == {Garbled} \cup [verdict : {"refused", "fail", "pass"}, input : Input]

TermCode == -15
KillCode == -9
ExitCode == {0, 1, 2, 77, TermCode}

VARIABLES
    pc,         \* where run_subprocess and run_case are
    timed_out,
    returncode,
    status,     \* record["status"]
    executions, \* record["executions"]
    child,      \* none, running or dead
    code,       \* what the process ended with
    signalled,  \* signals the runner sent to the process group
    lines       \* result lines in the log

runner == <<pc, timed_out, returncode, status, executions>>
process == <<child, code, lines>>
vars == <<runner, process, signalled>>

Init ==
    /\ pc = "spawn"
    /\ timed_out = FALSE
    /\ returncode = 0
    /\ status = "none"
    /\ executions = << >>
    /\ child = "none"
    /\ code = 0
    /\ signalled = {}
    /\ lines = << >>

-----------------------------------------------------------------------------
\* The process

WriteLine ==
    /\ child = "running"
    /\ Len(lines) < MaxLines
    /\ \E line \in Line : lines' = Append(lines, line)
    /\ UNCHANGED <<runner, child, code, signalled>>

\* It ends by itself, or because of a SIGTERM it does not ignore.
End ==
    /\ child = "running"
    /\ child' = "dead"
    /\ code' \in IF "TERM" \in signalled THEN ExitCode ELSE ExitCode \ {TermCode}
    /\ UNCHANGED <<runner, lines, signalled>>

-----------------------------------------------------------------------------
\* run_subprocess

Popen ==
    /\ pc = "spawn"
    /\ pc' = "wait"
    /\ child' = "running"
    /\ UNCHANGED <<timed_out, returncode, status, executions, code, lines, signalled>>

\* except OSError of run_case: the process could not be started.
PopenFails ==
    /\ pc = "spawn"
    /\ pc' = "done"
    /\ status' = "unsupported"
    /\ UNCHANGED <<timed_out, returncode, executions, process, signalled>>

\* One of the three calls of process.wait returns: the process is reaped.
WaitReturns ==
    /\ pc \in {"wait", "grace", "reap"}
    /\ child = "dead"
    /\ pc' = "classify"
    /\ returncode' = code
    /\ UNCHANGED <<timed_out, status, executions, process, signalled>>

\* Faulty variant: the timeout is not remembered.
WaitExpiresUnnoted ==
    /\ pc = "wait"
    /\ pc' = "terminate"
    /\ UNCHANGED <<timed_out, returncode, status, executions, process, signalled>>

\* The timeout may expire although the process has just ended.
WaitExpires ==
    /\ pc = "wait"
    /\ pc' = "terminate"
    /\ timed_out' = TRUE
    /\ UNCHANGED <<returncode, status, executions, process, signalled>>

\* killpg; a ProcessLookupError is ignored.
Terminate ==
    /\ pc = "terminate"
    /\ pc' = "grace"
    /\ signalled' = IF child = "running" THEN signalled \cup {"TERM"} ELSE signalled
    /\ UNCHANGED <<timed_out, returncode, status, executions, process>>

\* Faulty variant: gives up after SIGTERM.
GraceExpiresUnkilled ==
    /\ pc = "grace"
    /\ pc' = "classify"
    /\ UNCHANGED <<timed_out, returncode, status, executions, process, signalled>>

GraceExpires ==
    /\ pc = "grace"
    /\ pc' = "kill"
    /\ UNCHANGED <<timed_out, returncode, status, executions, process, signalled>>

\* Faulty variant: a second signal that can be ignored.
KillPolitely ==
    /\ pc = "kill"
    /\ pc' = "reap"
    /\ IF child = "running"
         THEN /\ signalled' = signalled \cup {"KILL"}
              /\ UNCHANGED <<child, code>>
         ELSE UNCHANGED <<signalled, child, code>>
    /\ UNCHANGED <<timed_out, returncode, status, executions, lines>>

\* SIGKILL cannot be ignored.
Kill ==
    /\ pc = "kill"
    /\ pc' = "reap"
    /\ IF child = "running"
         THEN /\ signalled' = signalled \cup {"KILL"}
              /\ child' = "dead"
              /\ code' = KillCode
         ELSE UNCHANGED <<signalled, child, code>>
    /\ UNCHANGED <<timed_out, returncode, status, executions, lines>>

-----------------------------------------------------------------------------
\* run_case after run_subprocess

AllJson == \A i \in 1 .. Len(lines) : lines[i] # Garbled

\* validate_result raises for none of them; a repeated case must have uploaded
\* a different input each time.
Accepted ==
    /\ \A i \in 1 .. Repeat : lines[i].verdict # "refused"
    /\ Repeat > 1 => Cardinality({lines[i].input : i \in 1 .. Repeat}) = Repeat

\* Faulty variant: the exit status of a process with good records is ignored.
VerdictByRecords ==
    IF timed_out THEN "timeout"
    ELSE IF returncode = 77 THEN "unsupported"
    ELSE IF ~AllJson THEN "protocol-error"
    ELSE IF Len(lines) # Repeat
      THEN IF returncode # 0 THEN "crash" ELSE "protocol-error"
    ELSE IF ~Accepted THEN "protocol-error"
    ELSE IF \E i \in 1 .. Repeat : lines[i].verdict # "pass" THEN "numerical-fail"
    ELSE "pass"

Verdict ==
    IF timed_out THEN "timeout"
    ELSE IF returncode = 77 THEN "unsupported"
    ELSE IF ~AllJson THEN "protocol-error"
    ELSE IF Len(lines) # Repeat
      THEN IF returncode # 0 THEN "crash" ELSE "protocol-error"
    ELSE IF ~Accepted THEN "protocol-error"
    ELSE IF \E i \in 1 .. Repeat : lines[i].verdict # "pass" THEN "numerical-fail"
    ELSE IF returncode = 0 THEN "pass" ELSE "crash"

\* The validated records are kept as soon as validate_result took all of them.
Validated ==
    /\ ~timed_out /\ returncode # 77 /\ AllJson /\ Len(lines) = Repeat
    /\ \A i \in 1 .. Repeat : lines[i].verdict # "refused"

Classify ==
    /\ pc = "classify"
    /\ pc' = "done"
    /\ status' = Verdict
    /\ executions' = IF Validated THEN lines ELSE << >>
    /\ UNCHANGED <<timed_out, returncode, process, signalled>>

-----------------------------------------------------------------------------
Terminating == pc = "done" /\ UNCHANGED vars

Runner ==
    \/ Popen \/ PopenFails \/ WaitReturns
    \/ Terminate \/ Kill \/ Classify

Next ==
    \/ WriteLine \/ End
    \/ Runner \/ WaitExpires \/ GraceExpires
    \/ Terminating

Spec == Init /\ [][Next]_vars

\* The runner runs and its timeouts expire; the process need not do anything.
FairSpec ==
    Spec /\ WF_vars(Runner) /\ WF_vars(WaitExpires) /\ WF_vars(GraceExpires)

-----------------------------------------------------------------------------
\* A case passes only on a process that ended by itself with status 0 and left
\* exactly the records asked for, each accepted and each of another input.
PassIsEvidence ==
    status = "pass" =>
        /\ child = "dead" /\ code = 0 /\ signalled = {}
        /\ executions = lines /\ Len(lines) = Repeat
        /\ \A i, j \in 1 .. Repeat :
             lines[i].verdict = "pass" /\ (i # j => lines[i].input # lines[j].input)

\* The host is never blamed for an end that the runner brought about: once a
\* signal is sent, the only outcome is a timeout.
BlameIsFair == signalled # {} /\ pc = "done" => status = "timeout"

\* "Processes run serially": run_case returns only when the process it started
\* is dead and reaped, so the next case never overlaps it.
LeaderReaped == pc \in {"classify", "done"} => child # "running"

\* run_case returns although the process hangs and ignores SIGTERM.
CaseEnds == <>(pc = "done")

=============================================================================
