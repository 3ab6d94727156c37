--------------------------- MODULE EvidenceRunner ---------------------------
(***************************************************************************)
(* main() of tools/run_matrix.py and of tools/run_rejections.py: several   *)
(* runs of the evidence runners on one machine, against one checkout, with *)
(* their output directories.                                               *)
(*                                                                         *)
(* A case is what CaseRun and Rejections promise: a host process that is   *)
(* alive from StartCase to EndCase and a status.  A run can be interrupted *)
(* anywhere, the checkout and the binary can be edited or rebuilt at any   *)
(* time.                                                                   *)
(*                                                                         *)
(* Records are named by the run that wrote them and are taken to be of one *)
(* length: each run writes at its own position in the records file.  A log *)
(* is the set of runs whose processes have written to it since it was      *)
(* opened last.                                                            *)
(***************************************************************************)
EXTENDS Integers, Sequences, FiniteSets

CONSTANTS
    Run,        \* runs of the two runners
    Dir,        \* values of --output-dir
    Matrix,     \* how many cases --case all has
    Single,     \* cases that --case may name
    MaxEdits,   \* bound on the edits of the checkout and rebuilds together
    MaxFailures,\* bound on the cases that fail
    Concurrent  \* whether a run may start before the earlier ones are over

ASSUME MatrixAssumption == Matrix \in Nat \ {0} /\ Single \subseteq 1 .. Matrix
ASSUME BoundsAssumption == MaxEdits \in Nat /\ MaxFailures \in Nat
ASSUME ConcurrentAssumption == Concurrent \in BOOLEAN

Nobody == "nobody"

ASSUME NobodyAssumption == Nobody \notin Run

File == {"environment.json", "simulator.jsonl", "rejections.jsonl", "summary.json", "raw"}

\* What a run executes.  0 stands for the cases of run_rejections.py, whose
\* logs have names of their own.
AllCases == [i \in 1 .. Matrix |-> i]
RejectionCases == <<0>>
Plans == {AllCases, RejectionCases} \cup {<<c>> : c \in Single}

VARIABLES
    tree,      \* content of the source tree, one number per state of it
    binary,    \* content of the host binary
    made,      \* directories that are there
    author,    \* Dir -> File -> the run that wrote the file last
    records,   \* Dir -> the records file: a run or Nobody for each record
    logs,      \* Dir -> the raw logs: a set of runs for each case
    summary,   \* Dir -> what summary.json says, or none
    alive,     \* host processes: the run that started each
    pc,
    output,    \* --output-dir of a run
    plan,      \* the cases of a run
    seen,      \* tree and binary hashes that a run has taken
    executed,  \* whether the cases of a run found them so (history)
    statuses,  \* statuses of the records of a run
    digests,   \* log_sha256 of the records of a run
    unchanged, \* sources_and_binary_unchanged
    spoilt,    \* a run replaced a file of another (history)
    late       \* runs whose directory held evidence when they started (history)

world == <<tree, binary>>
files == <<made, author, records, logs, summary>>
contents == <<records, logs>>
run == <<output, plan, seen, executed, statuses, digests, unchanged>>
history == <<spoilt, late>>
vars == <<world, files, alive, pc, run, history>>

Absent == [state |-> "absent"]

\* binary_sha256 of a run whose preflight failed.
Unhashed == -1

Init ==
    /\ tree = 0
    /\ binary = 0
    /\ made = {}
    /\ author = [d \in Dir |-> [f \in File |-> Nobody]]
    /\ records = [d \in Dir |-> << >>]
    /\ logs = [d \in Dir |-> [c \in 0 .. Matrix |-> {}]]
    /\ summary = [d \in Dir |-> Absent]
    /\ alive = {}
    /\ pc = [r \in Run |-> "idle"]
    /\ output \in [Run -> Dir]
    /\ plan \in [Run -> Plans]
    /\ seen = [r \in Run |-> [tree |-> 0, binary |-> Unhashed]]
    /\ executed = [r \in Run |-> TRUE]
    /\ statuses = [r \in Run |-> << >>]
    /\ digests = [r \in Run |-> << >>]
    /\ unchanged = [r \in Run |-> FALSE]
    /\ spoilt = FALSE
    /\ late = {}

Over(r) == pc[r] \in {"end", "interrupted"}

Turn(r) == Concurrent \/ \A q \in Run \ {r} : pc[q] = "idle" \/ Over(q)

Selected(r) == Len(plan[r])

Rejecting(r) == plan[r] = RejectionCases

Records(r) == IF Rejecting(r) THEN "rejections.jsonl" ELSE "simulator.jsonl"

Exists(r, f) == author[output[r]][f] # Nobody

Goto(r, here, there) == pc[r] = here /\ pc' = [pc EXCEPT ![r] = there]

\* Run r writes the files fs of its directory.
Write(r, fs) ==
    /\ author' = [author EXCEPT ![output[r]] =
         [f \in File |-> IF f \in fs THEN r ELSE @[f]]]
    /\ spoilt' = (spoilt \/ \E f \in fs : author[output[r]][f] \notin {Nobody, r})

-----------------------------------------------------------------------------
\* The checks before the first record

\* Faulty variant: only a finished run counts as evidence.
HasEvidenceSummaryOnly(r) == Exists(r, "summary.json")

\* "refusing to overwrite existing evidence"
HasEvidence(r) ==
    \E f \in {"environment.json", "simulator.jsonl", "summary.json"} : Exists(r, f)

\* run_matrix.py makes its directory if need be and looks for evidence in it.
Start(r) ==
    /\ ~Rejecting(r)
    /\ pc[r] = "idle"
    /\ Turn(r)
    /\ made' = made \cup {output[r]}
    /\ pc' = [pc EXCEPT ![r] = IF HasEvidence(r) THEN "end" ELSE "checkRaw"]
    /\ late' = IF \E f \in File : Exists(r, f) THEN late \cup {r} ELSE late
    /\ UNCHANGED <<world, author, contents, summary, alive, run, spoilt>>

\* run_rejections.py: "--output-dir already exists; refusing to overwrite"
StartRejections(r) ==
    /\ Rejecting(r)
    /\ pc[r] = "idle"
    /\ Turn(r)
    /\ pc' = [pc EXCEPT ![r] = IF output[r] \in made THEN "end" ELSE "makeDir"]
    /\ late' = IF \E f \in File : Exists(r, f) THEN late \cup {r} ELSE late
    /\ UNCHANGED <<world, files, alive, run, spoilt>>

\* mkdir without exist_ok raises if somebody else was faster.  When a run enters
\* ahead of the directories raw and inputs, theirs raise: Interrupt.
MakeDir(r) ==
    /\ pc[r] = "makeDir"
    /\ pc' = [pc EXCEPT ![r] = IF output[r] \in made THEN "end" ELSE "hashTree"]
    /\ made' = made \cup {output[r]}
    /\ UNCHANGED <<world, author, contents, summary, alive, run, history>>

\* "use an output directory with no existing raw logs"
CheckRaw(r) ==
    /\ pc[r] = "checkRaw"
    /\ pc' = [pc EXCEPT ![r] = IF Exists(r, "raw") THEN "end" ELSE "hashTree"]
    /\ UNCHANGED <<world, files, alive, run, history>>

HashTree(r) ==
    /\ Goto(r, "hashTree", "preflight")
    /\ seen' = [seen EXCEPT ![r].tree = tree]
    /\ UNCHANGED <<world, files, alive, output, plan, executed, statuses, digests,
                   unchanged, history>>

\* The preflight ends with the hash of the binary, or finds a reason to stop.
Preflight(r) ==
    /\ pc[r] = "preflight"
    /\ \/ /\ pc' = [pc EXCEPT ![r] = "environment"]
          /\ seen' = [seen EXCEPT ![r].binary = binary]
       \/ /\ pc' = [pc EXCEPT ![r] = "unsupported"]
          /\ UNCHANGED seen
    /\ UNCHANGED <<world, files, alive, output, plan, executed, statuses, digests,
                   unchanged, history>>

Unsupported(r) ==
    /\ Goto(r, "unsupported", "end")
    /\ Write(r, {"environment.json", "summary.json"})
    /\ summary' = [summary EXCEPT ![output[r]] =
         [state |-> "unsupported", run |-> r, complete |-> FALSE]]
    /\ UNCHANGED <<world, made, contents, alive, run, late>>

WriteEnvironment(r) ==
    /\ Goto(r, "environment", "open")
    /\ Write(r, {"environment.json"})
    /\ UNCHANGED <<world, made, contents, summary, alive, run, late>>

OpenRecords(r) ==
    /\ Goto(r, "open", "case")
    /\ Write(r, {Records(r)})
    /\ records' = IF Rejecting(r) THEN records ELSE [records EXCEPT ![output[r]] = << >>]
    /\ UNCHANGED <<world, made, logs, summary, alive, run, late>>

-----------------------------------------------------------------------------
\* The cases

Failed(r) == {i \in DOMAIN statuses[r] : statuses[r][i] = "fail"}

Failures == Cardinality(UNION {{r} \X Failed(r) : r \in Run})

Case(r) == plan[r][Len(statuses[r]) + 1]

\* run_subprocess opens the raw logs, which empties them, and starts the host
\* process.
StartCase(r) ==
    /\ Len(statuses[r]) < Selected(r)
    /\ Goto(r, "case", "running")
    /\ Write(r, {"raw"})
    /\ logs' = [logs EXCEPT ![output[r]][Case(r)] = {r}]
    /\ alive' = alive \cup {r}
    /\ executed' = [executed EXCEPT ![r] = @ /\ seen[r] = [tree |-> tree, binary |-> binary]]
    /\ UNCHANGED <<world, made, records, summary, output, plan, seen, statuses, digests,
                   unchanged, late>>

\* A record at the position of run r; what nobody has written before it is a hole.
Put(file, position, r) ==
    [i \in 1 .. (IF Len(file) > position THEN Len(file) ELSE position) |->
        IF i = position THEN r ELSE IF i <= Len(file) THEN file[i] ELSE Nobody]

\* The process ends, having printed into the log or into what another run made
\* of it; run_case returns and the record is written and flushed.
EndCase(r) ==
    LET d == output[r] IN
    /\ Goto(r, "running", "case")
    /\ alive' = alive \ {r}
    /\ logs' \in {logs, [logs EXCEPT ![d][Case(r)] = @ \cup {r}]}
    /\ digests' = [digests EXCEPT ![r] = Append(@, logs'[d][Case(r)])]
    /\ \E status \in {"pass"} \cup (IF Failures < MaxFailures THEN {"fail"} ELSE {}) :
         statuses' = [statuses EXCEPT ![r] = Append(@, status)]
    /\ Write(r, {Records(r)})
    /\ records' = IF Rejecting(r) THEN records
                  ELSE [records EXCEPT ![d] = Put(@, Len(statuses[r]) + 1, r)]
    /\ UNCHANGED <<world, made, summary, output, plan, seen, executed, unchanged, late>>

\* source_identity and sha256_file(binary) once more.
Rehash(r) ==
    /\ Goto(r, "case", "rehash")
    /\ Len(statuses[r]) = Selected(r)
    /\ unchanged' = [unchanged EXCEPT ![r] = seen[r].tree = tree]
    /\ UNCHANGED <<world, files, alive, output, plan, seen, executed, statuses, digests,
                   history>>

\* Faulty variant: the binary is not hashed again.
RehashTreeOnly(r) ==
    /\ Goto(r, "rehash", "summary")
    /\ UNCHANGED <<world, files, alive, run, history>>

RehashBinary(r) ==
    /\ Goto(r, "rehash", "summary")
    /\ unchanged' = [unchanged EXCEPT ![r] = @ /\ seen[r].binary = binary]
    /\ UNCHANGED <<world, files, alive, output, plan, seen, executed, statuses, digests,
                   history>>

AllPass(r) ==
    /\ \A i \in 1 .. Len(statuses[r]) : statuses[r][i] = "pass"
    /\ unchanged[r]

\* matrix_complete, or rejection_matrix_complete.
Complete(r) == (plan[r] = AllCases \/ Rejecting(r)) /\ AllPass(r)

Summary(r) ==
    [state |-> IF AllPass(r) THEN "pass" ELSE "fail", run |-> r, complete |-> Complete(r)]

WriteSummary(r) ==
    /\ Goto(r, "summary", "end")
    /\ Write(r, {"summary.json"})
    /\ summary' = [summary EXCEPT ![output[r]] = Summary(r)]
    /\ UNCHANGED <<world, made, contents, alive, run, late>>

-----------------------------------------------------------------------------
\* What happens around a run

\* Ctrl-C, or any other end of the runner.  The host process is in a session
\* of its own (start_new_session) and nothing stops it.
Interrupt(r) ==
    /\ pc[r] # "idle" /\ ~Over(r)
    /\ pc' = [pc EXCEPT ![r] = IF r \in alive THEN "interrupted" ELSE "end"]
    /\ UNCHANGED <<world, files, alive, run, history>>

\* A host process that lost its runner ends, and may have printed before.
OrphanEnds(r) ==
    /\ Goto(r, "interrupted", "end")
    /\ alive' = alive \ {r}
    /\ logs' \in {logs, [logs EXCEPT ![output[r]][Case(r)] = @ \cup {r}]}
    /\ UNCHANGED <<world, made, author, records, summary, run, history>>

Edit ==
    /\ tree + binary < MaxEdits
    /\ tree' = tree + 1
    /\ UNCHANGED <<binary, files, alive, pc, run, history>>

Rebuild ==
    /\ tree + binary < MaxEdits
    /\ binary' = binary + 1
    /\ UNCHANGED <<tree, files, alive, pc, run, history>>

-----------------------------------------------------------------------------
Work(r) ==
    \/ Start(r) \/ StartRejections(r) \/ MakeDir(r) \/ CheckRaw(r) \/ HashTree(r)
    \/ Preflight(r) \/ Unsupported(r)
    \/ WriteEnvironment(r) \/ OpenRecords(r)
    \/ StartCase(r) \/ EndCase(r)
    \/ Rehash(r) \/ RehashBinary(r) \/ WriteSummary(r)

Terminating ==
    /\ \A r \in Run : Over(r)
    /\ UNCHANGED vars

Next ==
    \/ \E r \in Run : Work(r) \/ Interrupt(r) \/ OrphanEnds(r)
    \/ Edit \/ Rebuild
    \/ Terminating

Spec == Init /\ [][Next]_vars

-----------------------------------------------------------------------------
\* docs/running.md: "A partial run cannot be labelled a complete matrix."  A
\* complete summary is a run of the whole matrix, every case passed, and every
\* host process ran the binary, and built the kernels of the source tree, that
\* environment.json names.
CompleteIsComplete ==
    \A d \in Dir : summary[d] # Absent /\ summary[d].complete =>
        LET r == summary[d].run IN
        /\ plan[r] \in {AllCases, RejectionCases}
        /\ Len(statuses[r]) = Selected(r)
        /\ \A i \in 1 .. Selected(r) : statuses[r][i] = "pass"
        /\ executed[r]

\* docs/running.md: "The runners refuse to replace earlier records."  A run
\* whose directory held evidence when it started writes nothing there, even if
\* that evidence is what an interrupted run left.
EarlierKept == \A r \in late, d \in Dir, f \in File : author[d][f] # r

\* The same words, of runs that overlap: no run replaces a file of another.
NothingReplaced == ~spoilt

\* docs/design.md: "Processes run serially because the simulator has
\* process-level initialization and fatal error semantics."
ProcessesSerial == Cardinality(alive) <= 1

=============================================================================
