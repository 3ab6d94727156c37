# TLA+ verification of tt-row-reduce-lab

This directory holds TLA+ models of the row-reduction program of this
repository: the three device kernels, the host program that launches them, the
Python tools that run the host program, keep the evidence and audit it, the
profiler capture, the download of pinned files, and the shell lock around heavy
builds. TLC checks each model on small instances. TLAPS proves the safety of
the device program for every shape, buffer size and number of launches; that of
the host program and its runners, the audit, the fetch, the profiler capture and
the lock for every number of pages, cases, files, rows and actors; and the
rounding and judging of an element for every word size.

Paths in this file are relative to the repository (`src/metal_main.cpp` is the
C++ host, `kernels/` the device code, `tools/` the scripts); in `PROJECT.json`
they carry one more leading `src/`.

## 1. Inventory

### 1.1 Components

| component | files | state it keeps | operations |
|---|---|---|---|
| device program | `kernels/reader.cpp`, `compute.cpp`, `writer.cpp`; declared by `make_program` and `bind_arguments` in `src/metal_main.cpp` | three dataflow buffers in L1, their push and pop cursors, operand and Dest registers, NoC transfers in flight, loop counters of five threads | the statements of the three kernels |
| Metal host | `src/metal_main.cpp` | options, `before_device`, the mesh device, the prepared input, the two DRAM tensors, `pass`, exit status | parse, prepare, create, upload, poison, enqueue, finish, read, compare, emit, close, catch |
| CPU contract | `include/row_reduce/row_reduce.hpp` | none (pure functions) | shape checks, padding, tilize and untilize, BF16 rounding, input patterns, reference sums, `compare_rows`, `decode_output` |
| CPU reference program | `src/cpu_main.cpp` | options | prints input bytes and reference results |
| evidence runner, one case | `run_subprocess`, `run_case`, `validate_result` in `tools/run_matrix.py` | the host process and its logs, `timed_out`, the record | spawn, wait, terminate, kill, classify |
| evidence runner, the matrix | `main` in `tools/run_matrix.py` | `environment.json`, `simulator.jsonl`, `summary.json`, `raw/`; hashes of tree and binary | check, hash, preflight, run the cases, hash again, summarise |
| rejection runner | `tools/run_rejections.py` | a new directory with `environment.json`, `rejections.jsonl`, `summary.json`, `raw/`, `inputs/` | runs processes that must be refused before the device, classifies them |
| heavy-build lock | `tools/with-heavy-lock.sh` | the directory `.heavy-build.lock` and its `owner` file | acquire, run, release |
| simulator fetch | `tools/fetch_simulator.py`, and the same protocol in `install_llvm` of `tools/bootstrap_jammy_arm64.py` | the assets and their `.part` files | download, hash, rename, hash, use |
| profiler | `tools/profile.sh`, `tools/check_profiler.py` | the profiler's CSV, its copy and a report | refuse an old CSV, run with profiling, copy, pair zone events |
| artifact audit | `results/audit/verify_c3.py` | what it has read so far | rechecks the files of a results directory, and every log by itself |
| recorders, bootstrap, integration | `tools/capture_*.py`, `bootstrap_jammy_arm64.py`, `configure_metal.sh`, `integrate_metal.py`, `activate_linux_prefix.sh` | files of one build tree | straight-line setup and recording |
| build files, tests, saved results | `CMakeLists.txt`, `cmake/`, `tests/`, `results/` | - | - |

### 1.2 How they interact

```
run_matrix.py main --(one process per case)--> tt_row_reduce_metal main/run
run_rejections.py main --(the same, to be refused)--'   |  upload, poison, enqueue, finish, read
      |   run_subprocess: logs, timeout, signals        v
      |   exit code + records -> status        reader -> [input dfb, 2] -> unpack
      v                                           -> [scaler dfb, 1] ->   | operand registers
 environment.json  simulator.jsonl                                       math
 rejections.jsonl  raw/  summary.json                                     | Dest halves, 2
      |                                                                  pack -> [output dfb, 2] -> writer
      v
 verify_c3.py reads them, and the logs            profile.sh --(run_matrix.py --profile)--> CSV
                                                      -> copy -> check_profiler.py
 with-heavy-lock.sh wraps builds and captures     fetch_simulator.py, install_llvm --> pinned files
```

The kernels share nothing but the buffers, registers and NoC; the host and the
device share the two DRAM tensors; the runner and the host share an exit status
and the `TT_ROW_REDUCE_RESULT` and `TT_ROW_REDUCE_ERROR` lines of a log; runs of
both runners share an output directory, a checkout and a binary, and the audit
reads that directory whenever it likes; two captures share one CSV, two fetches
one `.part` name, and wrappers a lock directory.

### 1.3 What is hard, and what makes each part correct

* **Device program.** Five threads (the reader, the writer, and `compute.cpp`
  built once for each of the three Tensix processors) and two asynchronous
  transfer engines. Correct means: whatever becomes visible in a buffer is
  complete and of this launch; storage is not reused under a transfer; math and
  pack never share a Dest half; every launch ends; the output is the row sums.
  The launch is repeated with whatever the last one left in L1 and registers.
* **Metal host.** Every call can throw, the device can be wrong, memory is
  reused. Correct means: a passing record is worth something (this launch stored
  every page), a zero status more (every iteration passed and the device was
  closed), status 2 exactly what is refused before the device, and the device is
  given back on every path.
* **CPU contract.** Layout formulas shared by four decoders. Correct means: the
  pieces fit together for every shape and no wrong element goes unseen; an
  element is rounded to the nearest even word, ties, carries and NaNs included,
  and the host and the evidence runner, which rounds and judges by itself, agree.
* **One case.** A timeout races an end; a process ignores SIGTERM, prints half
  its lines, or crashes in teardown after perfect records. Correct means: pass is
  evidence, blame is fair, the process is gone when the next starts, and a case
  always ends.
* **The matrix.** Runs overlap or are interrupted; sources and binary change
  under a run. Correct means: a complete summary is complete and of one program,
  and earlier evidence is kept.
* **Rejections.** A process that must be refused can crash, hang, be killed or
  accept; exit status 2 alone says little. Correct means: what is recorded as a
  rejection never touched a device, and every right refusal is recorded as one.
* **Audit.** Its three files are read one after the other while runs may write
  them. Correct means: an audit that passes has seen one undivided run, and what
  the runner calls complete is not turned down. Its judgement of a log, the
  runner's and the host's have no code in common and must agree.
* **Fetch.** A call is stopped anywhere, downloads are short or wrong, calls
  overlap on one `.part` name. Correct means: only the pinned bytes are used, and
  a call succeeds in the end.
* **Profiler.** Zones nest, rows of several processors are mixed, an old file is
  in the way. Correct means: a capture passes exactly when its zones are paired,
  its intervals are the zones, and it is of this run.
* **Lock.** Signals anywhere, with a trap or without. Correct means: exclusion, an
  honest owner, and release. A signal without a trap breaks the first (see 6).

`PROJECT.json` lists the hazards, each at its line, with the properties that
would catch it or the reason why none does.

## 2. Modules

| module | models | checked by | proved |
|---|---|---|---|
| `RowSums` | the problem: pages, inputs, row sums | (used below) | |
| `RowReduce` | abstract specification: rows are stored once, in order, complete | refinement in run `pipeline` | |
| `ReducePipeline` | the three kernels, buffers, registers, NoC, repeated launches | `pipeline` | `ReducePipeline_proofs` |
| `ReducePipelineInv` | the inductive invariant `IInv` | `pipeline` | `ReducePipeline_proofs` |
| `MCReducePipeline` | the small instance | `pipeline` | |
| `HostRun` | `main` and `run` of the Metal host | `host` | `Rejections_proofs` |
| `Rejections` | `run_case`, `classify_rejection` of the rejection runner, over `HostRun` | `host` | `Rejections_proofs` |
| `TileLayout`, `HostData` | padding, tile-face layout, scaler tile, word packing, decoders | `host_data` | `CpuContract_proofs` |
| `IndependentChecks` | input patterns and judgement of a launch by the host, the runner and the audit, over `HostData`; two launches | `host_data` | `CpuContract_proofs` |
| `Bf16` | rounding, input contract and judging of one element, bit by bit | `bf16` | `CpuContract_proofs` |
| `CaseRun` | `run_subprocess` and `run_case` against an arbitrary process | `case` | `CaseRun_proofs` |
| `EvidenceRunner`, `MCEvidenceRunner` | `main` of both runners, several runs | `matrix`, `matrix_overlap`, `matrix_interrupt` | `EvidenceAudit_proofs` |
| `EvidenceAudit`, `MCEvidenceAudit` | `audit` of `verify_c3.py` over `EvidenceRunner` | `matrix` | `EvidenceAudit_proofs` |
| `AssetFetch` | the download of pinned files | `fetch` | `AssetFetch_proofs` |
| `ProfilerCapture`, `MCProfilerCapture` | `profile.sh` and `check_profiler.py` | `profiler` | `ProfilerCapture_proofs` |
| `HeavyLock` | `with-heavy-lock.sh` | `lock`, `lock_hangup` | `HeavyLock_proofs` |

The modules compose by extension: `Rejections` adds the runner to `HostRun`,
`IndependentChecks` two judges and a second launch to `HostData`, and
`EvidenceAudit` the auditor to `EvidenceRunner`. The properties of the inner
module are checked in the run of the outer one.

Definitions marked "Faulty variant" are plausible bugs. No specification uses
them; replacing the definition that follows by one of them makes the run fail,
which shows that the properties can fail. `mutants` in `PROJECT.json` says which
property catches which.

### 2.1 `ReducePipeline`

One action per statement of a kernel, for the thread that executes it. `pc`
holds the next statement, `row` and `col` the loop counters. A dataflow buffer
is its storage and two cursors: `reserve_back` waits for `HasRoom`, `wait_front`
for `HasEntry`, the write and read pointers are the cursors modulo the number of
entries. `async_read` only adds a transfer; `DeliverRead` moves the data at any
later moment, and the barrier waits until it has.

`compute.cpp` is one source and three programs, which the saved build
(`results/jit`, images trisc0 to trisc2) confirms. `wait_front`, `pop_front` and
the operand side of `reduce_tile` run on unpack; `tile_regs_acquire`, the
arithmetic and `tile_regs_commit` on math; `tile_regs_wait`, `reserve_back`,
`pack_tile`, `push_back` and `tile_regs_release` on pack. So the `pop_front` of
a tile and its arithmetic are not ordered by the source text but by the operand
registers, and pack works on one Dest half while math fills the other.

Data is abstracted to what a mix-up would change: a tile is the label of its
page, a sum is the sequence of its terms. A sum that is short of a term, has one
twice or one of another row or launch, is a different value. The arithmetic of
sums is not modelled here.

External, and modelled from how the code uses it: the dataflow-buffer calls, the
NoC calls, operand registers (a queue of `SrcBanks`), Dest halves (`DestBanks`,
cleared when pack releases them, as `reduce_tile` accumulates into what a half
holds and compute.cpp never clears one), and that `MakeProgramFromSpec` cursors
start over with each launch while L1 keeps its contents.

### 2.2 `HostRun`

`phase` is the next call of `main` or `run`. `Throw` is any call that may throw,
and sends control to `catch`; `close()` may succeed, fail or throw. The device is
adversarial: while a launch is running, `StoreRight`, `StoreWrong` or nothing
happens to any page, in any order and number, and it may return at any time.
Fresh DRAM holds any page at all, a correct one of an earlier process included.
An input is one of four contents, which keep apart what the host's code and the
sums tell apart: zeros, ones, an input with zero sums and others.
`stored` is a history variable: the pages this launch stored rightly.

### 2.3 `TileLayout` and `HostData`

Every logical element has a label, and a sum is the function from columns to the
labels added up there; zero is the sum of nothing. So `RowsDelivered` says that
each row sum has each of its elements once, and from its own column, after padding,
tilizing, packing into words, reduction with the scaler tile the reader builds,
unpacking and untilizing. `Corrupt` spoils one output element,
and `FaultCaught` says the host's two checks together see it wherever it is.
The order of the faces in L1 and the use of the first row of each scaler face
are external: they are written down independently of the host's `Index`.

### 2.4 `Bf16`

A number is its bit pattern, a natural number, and the sizes of its fields are
constants: `Half` is half of what a word drops, `Quiet` the upper fraction bit,
`ExpMax`, `ExpOne` and `ExpLow` the exponents of infinity, 1 and 2^-8. A step is
`float_to_bf16` by itself (`Convert`) or the way of a 1 x 1 input through
`prepare_input`, a device that may store any word as the sum and one padding
element, and the two judges: the host's `compare_rows` with the mask and
`decode_output` (`HostVerdict`), and the evidence runner, which rounds with its
own formula and unpacks the output bits by itself (`RunnerVerdict`, without the
status that the host claims). `RoundsToNearestEven` compares with a
definition that knows nothing of the formula: no word stands for a nearer number,
and of two equally near it is the even one.

### 2.5 `CaseRun`

Nothing is assumed of the process but that it dies of SIGKILL. A result line is
garbled, refused by `validate_result`, numerically wrong or right, with a digest
of its input. `WaitExpires` and `WaitReturns` are both possible when the process
has just ended. What `validate_result` checks within a record, and the check
that all records name one compiled commit, are abstracted into the verdict of a
line and into `Accepted`.

### 2.6 `EvidenceRunner`

Several runs, each of `run_matrix.py` with all cases or a single one, or of
`run_rejections.py`, in its output directory. A file is the run that wrote it
last; the records file is the run of each record, and a run that opens it again
while another writes leaves a hole or a mixture (`Put`); a log is the set of runs
whose processes wrote to it since it was opened. `run_matrix.py` makes its
directory if need be and looks for evidence in it, `run_rejections.py` makes it
exclusively (`StartRejections`, `MakeDir`).

Contents of the checkout and of the binary are numbers that only grow: a file
that is changed and changed back is not modelled, because the runner, which
hashes twice, cannot see it. A case is what `CaseRun` promises, a process that is
alive from `StartCase` to `EndCase`, and a status. The cases of the rejection
runner are one case with a log name of its own. `Interrupt` is any end of the
runner; the process it started lives on and may print (`OrphanEnds`).

### 2.7 `EvidenceAudit`

The audit reads `environment.json`, the summary and the records in this order,
each as it is at that moment, then the log of each record; a failing check ends
it, and it can be made again. Identity is the pair of hashes. That the wall
times of the records must add up to that of the summary is what keeps records of
two runs apart, and is modelled so: no two processes take the same time. What a
log says of its executions is the subject of `IndependentChecks`: here a record
that passed has a log that passes. `source_bytes` finds the sources in the
checkout or in a commit (`CheckSource`).

### 2.8 `Rejections`

`HostRun` and the runner that waits for it. `required_cases` are requests with a
shape, a node count or an input file, of any content: the program under test
need not refuse what it should. `Killed` is the timeout or a signal, at any
call of `main` or `run`, in the handler before or after its error line;
`NotStarted` is an OSError of Popen. `ErrorLine` carries `before_device` and the
status that the handler prints, and `classify_rejection` is the function of that
name. The simulator ends with the process that runs it.

### 2.9 `IndependentChecks`

Three programs state the seven input patterns: `make_input` of the header,
`expected_input_bytes` of `run_matrix.py` and `check_pattern` of
`verify_c3.py`; and three read the output tiles: `Untilize` with the masks of the
host, `decode_output_bits` from coordinates to positions, and `output_matrix`
from positions to coordinates. Each is translated by itself. An element has a
label, as in `HostData`, and a word, which the pattern gives it; a row passes when
it is the sum of its elements. Random words are the outputs of the generator by
their place in the stream, two to an element; `lucky` is the case that all of
them round to 1.0. The second launch is chosen from the words of the first, by
the host (`Relabel`) and again by the audit (`AuditPattern`).

### 2.10 `AssetFetch`

A name leads to a file. A download writes to the file it has opened, even after
another call has renamed or replaced it (`handle`), block by block. `Stop` ends a
call anywhere; a server may send a wrong block or stop early. `Use` is
`dpkg-deb -x` of `install_llvm`, or the copy in `fetch_simulator.py`, and reads
the file again. A call that failed is made again. With overlapping calls and
nothing else going wrong, every file is whole when the last download ends. That
none is used before holds for two callers. With three it does not, and TLC finds
the way: one call has verified an asset; a second is about to rename the
`.part` file that it has hashed, a third opens that file anew and empties it; the
rename then puts the empty file in the place of the verified one.

### 2.11 `ProfilerCapture`

The CSV starts absent or with an earlier capture. Metal's writer is external:
the file has the pinned header, another one or none, and below the pinned one
rows, of which the last may be broken. Text before the header is kept and not
looked at, so the model leaves it out. A row's key (ten fields) is one value, its site, which names its zone.
`Parse` reads everything before `Pair` takes the rows one by one. The expected
pairing in `BeginsOf` counts events and knows nothing of a stack.

### 2.12 `HeavyLock`

One action per statement, and five kinds of stop: before the traps
(`StopEarly`), before or while the command runs by SIGINT or SIGTERM
(`SignalFirst`, `Signal`: bash runs their traps when the foreground command has
ended), while it runs by a signal that the script does not trap, such as SIGHUP
(`HangUp`: bash runs the EXIT trap at once and dies, so that `release` goes ahead
of the command, which is then `abandoned`), inside `release` (`SignalLate`: bash
does not run the rest of the EXIT trap), and SIGKILL (`Killed`, which leaves the
command running and the lock in place; so may an untrapped signal on top of a
pending SIGTERM). How bash treats each was tried out with bash 5.2.

## 3. Runs

| run | instance | what it shows |
|---|---|---|
| `pipeline` | 4 x 4 tiles, two launches, two inputs, 2 input and 2 output entries, 2 operand banks, 2 Dest halves | the device program under every interleaving: complete data only, exclusive slots and halves, exact row sums, termination, `RowReduce` implemented, and `IInv` |
| `host` | 2 output pages, `--repeat` up to 3, with the rejection runner | passing records, exit statuses, rejections that are evidence, giving the device back, changing inputs, termination |
| `host_data` | face side 2, dimensions 0 to 9, limit 8, wave of 3 rows, 7 patterns, two launches | every accepted shape of up to 2 x 2 tiles, every single wrong element: the pieces fit together, and host, runner and audit come to one verdict |
| `bf16` | a sign, 3 exponent and 3 fraction bits in a word, 3 bits dropped: 1,024 patterns and 128 words | rounding, NaNs, the contract as both programs state it, their verdicts on every returned word |
| `case` | 2 expected records, 2 digests, up to 3 lines | the verdict on one process |
| `matrix` | 2 overlapping runs of either runner, one directory, 2 cases, the first also by itself, 1 edit or rebuild, 1 failing case, interrupts, audits at any time | complete summaries, kept evidence, audits that pass only and always on one whole run |
| `matrix_overlap` | as above without audits, 1 case | expected violation, see 6 |
| `matrix_interrupt` | 2 runs one after the other, 2 directories | expected violation, see 6 |
| `lock` | 3 wrappers, retries, all signals | exclusion and owner but for hung-up wrappers, locks left exactly by a stop in the named windows, everyone served unless there was a leak |
| `lock_hangup` | 2 wrappers | expected violation, see 6 |
| `fetch` | 2 callers, 2 files of 2 blocks, 2 faults | only pinned bytes are used, overlaps heal, calls succeed in the end |
| `profiler` | 3 keys (two zones, one on two processors), up to 4 rows, counters 0 and 1 | every such file is judged rightly, intervals are the zones, and the capture is new |

Why the bounds are enough:

* `pipeline` is not scaled down. `max_dimension` is 128, so 4 x 4 tiles is the
  largest program the host can build, with the buffer sizes of `make_program`.
  Each thread laps its buffers and Dest halves (a third row reuses the first
  half), and the second launch starts on what the first left.
* `host`: two pages are needed for one to be right and one not. Three
  iterations are the first launch, the changed one, and one after a change; the
  code does the same in every later one. `MaxRepeats` is 100 in the source.
* `host_data`: FaceSide 2 keeps two rows and columns in each face and two faces
  each way; dimensions up to 8 are two tiles each way with every remainder, and 0
  and 9 are refused. `Index` and `PaddedDimension` take the side as a parameter.
  `Wave` stands for 17: with 3 the pattern of `small_integers` comes round twice
  within 8 rows. The proofs are for every side, limit and wave. A third launch is chosen from the second as the second from the
  first, and the runner compares neighbours.
* `bf16`: 2^3 patterns per word have both sides of a tie and the tie, an exponent
  has 2^6 patterns, and there are subnormals, numbers below, in and above the
  range, infinity, quiet and signalling NaNs of both signs. The formulas do not
  depend on the sizes, and the proofs are for all of them.
* `case`: two records are what makes "different inputs" matter, three lines
  are one too many. The processes of one case do not overlap others (`LeaderReaped`).
* `matrix`: two runs are what it takes to disagree about a directory; a second
  case gives an edit a place between cases. One edit or rebuild is enough to
  differ from a hash taken before it; a second one could only bring a third
  content, and contents do not come back. One failing case suffices to spoil a
  run, and the other run is then the one that passes. Runs are interchangeable
  (symmetry); the property is only of invariants, for which symmetry is sound.
  `Dir` has one member: runs on different directories share no file. For the
  invariants of `EvidenceRunner` itself there is a proof for all bounds.
* `fetch`: two callers are what it takes to share a `.part` name; a second file
  is one to be at while the other caller is at the first; with two blocks a file
  can be empty, short, mixed, whole. Two faults are a stopped call and a bad
  download, or two of either.
* `profiler`: four rows are two zones, nested, one after the other or on two
  processors, and two counters make an end earlier than its begin. Keys do not
  influence each other, so a third nesting level repeats the second.
* `lock`: three wrappers are one that holds the lock and two that race for it.

`Deadlock` is checked in every run. A system that is over stutters in an
explicit `Terminating`, so every other state without a successor is an error.

### Fairness

* `ReducePipeline`: weak fairness of each of the five threads (each is a
  processor of its own that polls), of the NoC (an issued transfer completes) and
  of the host's next launch (`Finish` has returned).
* `HostRun`: weak fairness of the host's own calls and of the end of a launch,
  which is what `EveryLaunchFinishes` of the device program provides. Nothing has
  to throw, and the device need not store anything.
* `Rejections`: the same two conditions. Killing is not fair, so `ProcessEnds`
  does not rest on it.
* `CaseRun`: weak fairness of the runner and of its two timeouts. None of the
  process: it may hang, and `CaseEnds` holds because of SIGKILL.
* `HeavyLock`: weak fairness of every wrapper and of every command. Who is
  refused retries, but need not be lucky: `RetryServed` holds because every other
  wrapper releases the lock at most once.
* `AssetFetch`: weak fairness of each caller: a download goes on or ends, and a
  call that failed is made again. Faults are bounded, so that in the end nothing
  else stops a call.
* `Bf16`, `HostData` and `IndependentChecks` are pure functions in steps, without
  liveness. `ProfilerCapture` reads a file from front to end.
* `EvidenceRunner` has no liveness property: it is a straight line of calls, and
  that each case ends is `CaseEnds`. `EvidenceAudit` may be made at any time or never.

## 4. Proofs

`ReducePipeline_proofs` proves, for every `Ht`, `Wt`, `Repeats`, buffer size and
number of banks that are positive naturals, every set of data and every set of
inputs:

| theorem | states |
|---|---|
| `Invariance` | `Spec => []IInv` |
| `TypeCorrect`, `PublishedCorrect`, `TransfersSafe`, `DestSafe`, `OutputsCorrect` | the five invariants of the run `pipeline` |
| `Implementation` | every behaviour of `Spec` is one of `RowReduce!Spec` |

The assumptions are the named ones of `RowSums` and `ReducePipeline`: positive
sizes, inputs are functions from pages to data, the poison is not a row sum (a
validated input is finite and so are its sums; the poison is a NaN), garbage
is not data.

None of the five invariants is inductive. They speak of contents, and why the
contents of a slot are right depends on how far each thread has come. `IInv`
adds, thread by thread, where the thread is and what that means for the others:

* `ReaderInv`, `UnpackInv`, `MathInv`, `PackInv`, `WriterInv` tie every cursor to
  a loop counter (`pushed["input"] = row["reader"]`,
  `popped["input"] = row["unpack"] * Wt + col["unpack"]`, and so on) and say what a
  thread between its wait and its push or pop may rely on (`HasRoom`, `HasEntry`).
* `ReadInv`, `InputInv`, `OutputInv` describe the transfer in flight and the
  published slots. Slots are cursors modulo the number of entries, so the step
  that fills slot `k % n` keeps the others because two distinct numbers closer
  than `n` have different residues (`RingInjective`).
* `MathInv` also says that tiles unpacked are the tiles accumulated plus those
  waiting in the operand registers.
* `DestInv` gives the content of every Dest half for the rows in flight,
  `DramInv` that of every output page, from which `RowReduce`'s order follows.

`IInv` is an invariant of the run `pipeline` as well, so that it is known to hold
before it is proved. The proof has one lemma for each thread, and one for the
NoC, the next launch and stuttering; in it one case for each action, and under
that one step for each part of `IInv` the action disturbs. `Implementation` shows
that `DeliverWrite` is `StoreRow`, `Launch` is `Launch`, and every other action
leaves the DRAM alone.

`CpuContract_proofs` is about the CPU contract and those who check against it. Its
first half proves of `Bf16`, for every size of the fields that `FormatAssumption`
allows (they need not even be powers of two, only the exponents count in such):

| theorem | states |
|---|---|
| `NearestEven` | `RoundsToNearestEven`: no word stands for a nearer number, and of two equally near it is the even one |
| `NansStay` | a NaN is converted to a NaN |
| `ContractAlike` | the host and the evidence runner accept the same elements with the same words |
| `JudgesAlike` | their verdicts agree on every word, the two decoders of the host never disagree, and poison never passes |
| `ElementType` | types: a rounded word has 16 bits |

The argument is that a number's magnitude is at most the pattern of infinity, so
that adding less than a word cannot carry into or out of the sign (`NoWrap`): then
cutting the sum to 32 bits before the shift, as C++ does, and to 16 bits after
it, as Python does, is the same. A NaN keeps its upper bits, and the quiet bit, if
it has to be set, moves it up without leaving the exponent (`NanWord`).
`ElementInv` carries what was rounded and accepted from stage to stage.

`NearestEven` is proved in two steps. On patterns: the word is at most `Half`
away, and even when it is exactly `Half` (`NearestPattern`). On numbers: between
two neighbouring words the number is linear in the pattern (`NumberIsLinear`,
`WordsAround`), because a step of the exponent falls on a word, and over all it
grows (`NumberGrows`). Both need `2 ^ (e + 1) = 2 ^ e + 2 ^ e`, for which there is
no induction here: powers of two are counted as subsets instead (`PowerIsCount`,
`PowerDoubles`, `PowerGrows`).

Its second half proves of `HostData` and `IndependentChecks`, for every side of the
faces, every limit on the dimensions, every shape below it, any number of tiles
each way, every pattern and a device that spoils any one element:

| theorem | states |
|---|---|
| `PathInvariance` | `ChecksSpec => []PathInv` |
| `EveryRowDelivered`, `EveryFaultCaught`, `DecodersAlike` | `RowsDelivered`, `FaultCaught`, `DecodersAgree` |
| `VerdictsAlike`, `SecondLaunchDiffers` | `VerdictsAgree`, `RelaunchDiffers` |

All of it rests on the layout. A number is a tile, a half of the tile and a place
in the half, in one way only (`Split`, `Join`, from `UniqueQuotient`), so the place
in a tile determines row and column and every place is one (`SameOffset`,
`EveryOffset`); with the tiles in front, `Index` is one-to-one (`IndexInjective`),
within the vector (`IndexRange`) and, over a column of tiles, onto (`IndexOnto`).
Each step of the way is then undone by the one that reads it: `TilizeAt`,
`WordsBack`, `UntilizeAt`. The faces in L1, which are external and written down by
themselves, are the host's (`InTileOffset`); the scaler is one wherever the
reduction reads it (`ScaleOne`); so the terms of a row of the tiles are the
elements of a row of the matrix (`RowTermsAt`), and the reduction finds the row of a
place again (`ReduceAt`). `DataInv` says, phase by phase, what is where: in the
padded matrix (`UploadInv`), in the output tiles, as the host's coordinates find it
(`OutputInv`), and in what was read back (`ReadInv`). A spoilt element is at some
row and column because `Index` is onto, and is then a sum that is not expected or
padding that is not zero.

The judges are brought to the host's coordinates: `Position` is `Index`
(`PositionIsIndex`), `Cell` is its inverse (`CellAt`, `MatrixAt`), `Slice` is the
row (`SliceIsRow`). The runner's words are the host's, the place in the generator's
stream included, which is a matter of counting the elements before one
(`BytesAgree`, `CountBefore`), and the audit's test holds of them
(`PatternAccepted`). `JudgeInv` says that a verdict is a pass exactly when rows and
padding are right.

`Rejections_proofs` proves, for any number of pages and iterations, a device that
stores anything at any time, calls that throw and a runner that kills anywhere:

| theorem | states |
|---|---|
| `HostInvariance`, `RejectionInvariance` | `Spec => []HostInv`, `RunnerSpec => []RunnerInv` |
| `PassEarned`, `ExitZeroEarned`, `DevicesGivenBack`, `RejectionsEarned` | `PassMeansStored`, `ExitZeroIsEvidence`, `DeviceGivenBack`, `RejectionIsEvidence` |
| `UploadsAlternate` | the action property `UploadsDiffer` |

A pass is about pages and an exit status about records; neither says how the
process came there. `PagesInv` follows a page from the poison through the launch
to the comparison: at each step a page that is right was stored by this launch,
first because none is right, then because only a store makes one so, in the end
because the tensor that is compared was read after it. `RecordsInv` counts: as
many records as iterations, one more between `emit` and the next, all of them good
while `pass` is. `BeforeInv` says that `before_device` is what its name says, so
that what has to be refused never outlives it. `UploadInv` knows which input is
in DRAM, from which `UploadsDiffer` follows. A killed process keeps whatever the
invariant said (`CutKeeps`, `KillKeeps`), and its error line, if it printed one,
is the one of the handler (`ErrorInv`).

`EvidenceAudit_proofs` proves, for any sets of runs and directories, any matrix,
any single cases, and any number of edits and failures, with runs that overlap or
do not and audits at any time:

| theorem | states |
|---|---|
| `RunnerInvariance` | `Spec => []RunnerInv` |
| `CompleteSummaries` | `CompleteIsComplete` |
| `EarlierEvidenceKept` | `EarlierKept` |
| `AuditInvariance` | `AuditSpec => []AuditInv` |
| `AuditsMeanOneRun`, `AuditsAcceptComplete` | `AuditMeansOneRun`, `AuditAcceptsComplete` |

Neither is inductive. `EarlierKept` needs to know that a run which found something
is over before its first write: it found evidence, or only `raw`, which the next
check finds (`LateInv`), or it found `rejections.jsonl`, which is never there
without `environment.json` (`AuthorInv`, `FilesInv`); and that a run has written
nothing before it looks (`FreshInv`). `CompleteIsComplete` rests on contents that
only grow: hashes taken are at most the contents, a process that ran others makes
one of them smaller for good, and the second hashes then see it (`HashInv`).
There is one lemma for each action. The assumption is that a run is not called
"nobody".

What the audit has read may be replaced the moment after, so `AuditInv` speaks of
the runs and not of the files: a complete summary that was read names a run that
is over and has earned it, which nothing takes back (`EvidenceRead`). That such an
audit is not refused needs what a directory holds when nobody has replaced a
file: that of the run that wrote its environment, with the records and logs of
just this run (`SoleInv`), while each run records a status and a hash per case
(`ProgressInv`). When the audit starts on such a directory it has settled, and
every run that is still to start is turned away by what is there
(`SettledKept`), so that the later reads find the same run (`DueInv`).

`AssetFetch_proofs` proves, for any number of callers, files, blocks and faults:

| theorem | states |
|---|---|
| `FetchInvariance` | `Spec => []FetchInv` |
| `OnlyPinnedUsed` | `OnlyPinnedFiles` |
| `OverlapsHeal` | `OverlapHeals` |

A call by itself has hashed what it renames and what it uses (`AloneInv`). Of
calls that overlap without a fault the invariant is about blocks and not about
callers: each block of a file that is there is good, or a caller who has that
file open, under whichever name it has by now, has yet to write it (`Covered`).
When nobody writes, every block is good. Opening a file anew empties it, and
whoever opened it has all of it to write; the rename takes the open handles along.
With two callers one of them is the one about to use the file, and the other can
only have it open under the other name.

`ProfilerCapture_proofs` proves, for any keys, zones asked for, counters and rows:

| theorem | states |
|---|---|
| `CaptureInvariance` | `Spec => []CaptureInv` |
| `PassesPaired`, `IntervalsReported`, `CapturesNew` | `PassMeansPaired`, `IntervalsAreZones`, `CaptureIsNew` |

The properties count begins and ends; the code keeps stacks. The height of a key
after some rows is how many of its zones are open, its stack has that length, and
the k-th entry is the counter of the begin that raised the height to k and since
when it has not been lower (`Raised`, `SiteStack`). The begin on top is therefore
the only one that the counting assigns to the next end (`TopIsBegin`), and an end
on an empty stack has none (`NothingBegun`). `ReportInv` says the same of the counts
and intervals reported so far, row by row. A verdict is then that of the rows
(`WellPaired`), and a copy with rows in it is of this run because a file that was
there before has ended the script (`NewInv`).

`CaseRun_proofs` proves, for any number of records, inputs and lines:

| theorem | states |
|---|---|
| `CaseInvariance` | `Spec => []CaseInv` |
| `PassEarned`, `BlameFair`, `Reaped` | `PassIsEvidence`, `BlameIsFair`, `LeaderReaped` |

`CaseInv` says, for each place of the runner, whether the process is there
(`PhaseInv`), and that a signal is only sent after `timed_out` is set, which
`classify` reads first (`TimeoutInv`). That as many different inputs as records
means that no two records share one is a lemma on cardinalities.

`HeavyLock_proofs` proves, for any set of wrappers:

| theorem | states |
|---|---|
| `LockInvariance` | `Spec => []LockInv` |
| `Exclusion`, `OwnerNamed`, `LeaksNamed` | `MutualExclusion`, `OwnerShown`, `LeftExactlyByLeak` |

The directory is that of the one wrapper that holds it (`HolderInv`), the owner
file names it from its writing to its removal (`OwnerInv`), a command that runs
and was not abandoned belongs to a wrapper that has not released, stopped or not,
while the wrapper of an abandoned one never waits for a command again
(`RunningInv`), and a directory without a holder has its leak on record,
and stays that wrapper's (`LeakInv`). Nothing is proved of abandoned commands: they overlap with others,
as `lock_hangup` shows.

## 5. What is only model-checked

* Liveness (`EveryLaunchFinishes`, `ProcessEnds`, `CaseEnds`, `RetryServed`,
  `FetchSucceeds`) and the fairness part of `ImplementsRowReduce`: TLAPS does not
  reason about ENABLED and weak fairness here.

Every safety invariant and the action property that a passing run checks are proved.

The inductive invariants were checked by TLC before they were proved: `IInv` in
the run `pipeline`, the others on the instances of `host`, `matrix`, `lock`, `fetch`,
`profiler` and, with dimensions up to 5, `host_data`.

## 6. Where the code and its documents disagree

* `matrix_overlap`: `docs/running.md:111-112` says that the runners refuse to
  replace earlier records. `main` of `run_matrix.py` looks for evidence first and
  writes later, and nothing is created exclusively: two runs that overlap on one
  directory both pass the check and replace each other's files. `run_rejections.py`
  makes its directory exclusively, so two runs of it never meet; a run of
  `run_matrix.py` can still enter before `environment.json` is there. `EarlierKept`
  shows what does hold: evidence that is there when a run starts is never touched;
  `AuditMeansOneRun` shows that what an overlap leaves does not pass the audit
  unless it is the work of one run.
* `matrix_interrupt`: `docs/design.md:114-116` says that processes run serially.
  `run_subprocess` gives the host process a session of its own and ends it only
  on a timeout, so a runner that is interrupted leaves it running, and the next
  run starts a second one. Within one run `LeaderReaped` holds. TLC's shortest
  way is with two runs of `run_rejections.py`, which calls the same
  `run_subprocess`; with `run_matrix.py` it is the same.
* `lock_hangup`: `docs/environment.md:103-104` says that the wrapper serializes
  downloads and builds. It traps EXIT, INT and TERM; on SIGHUP, when a terminal or
  ssh session goes away, bash runs `release` without waiting for the command. A
  command that ignores SIGHUP, or is slow to end, then runs beside the next one.
  `MutualExclusion` and `OwnerShown` say what holds of all other commands.
* No run of its own, but a theorem: `docs/running.md:120` tells a user who finds the
  lock occupied to wait for the other build and retry. A wrapper stopped between
  `mkdir` and its traps, or by a signal inside `release`, leaves a lock that nobody
  ever removes (`LeftExactlyByLeak`; the run `lock` takes all of these steps).

## 7. Not modelled, and why

* The error budget of `compare_rows` and of `verify_c3.py` for inexact patterns,
  and the arithmetic of sums: real numbers of 24 bits and more in sums of 128
  terms are beyond TLC, and a small format would not have the source's constants.
  `Bf16` compares one element, whose sum is itself, without a tolerance.
* The recurrence of mt19937, which three programs implement or use: that they
  agree on its outputs is assumed, how they consume them is not.
* JSON layout, messages, the FNV checksum, environment variables, single fields of
  records and of profiler rows: no property is about them. `validate_result` and
  the type checks of the audit are lists of comparisons without order.
* A second profiler capture at the same time, and a `profile_log_device.csv` that
  was left in an output directory whose other evidence had been removed:
  `ProfilerCapture` is one capture with an output directory of its own.
* How far a file is pinned: `fetch_simulator.py` takes its hash from
  `upstream.lock`, `install_llvm` from an index downloaded in the same call, so there
  "pinned" in `AssetFetch` means what that index names.
* Members of a process group besides its leader: the runner does not wait for
  them, and nothing in the code says what they do.
* A run that was killed ends the launch on the simulator. What a card would do is
  outside the code.
* `integrate_metal.py` (edits `CMakeLists.txt` once), the package, virtual
  environment and wrapper steps of `bootstrap_jammy_arm64.py`, `configure_metal.sh`,
  `activate_linux_prefix.sh` and the recorders: straight-line setup, made once by
  hand, that does the same whatever happens around it. Options and output of the
  CPU reference program. Build files are declarations. Tests and saved results are
  read as documentation.

## 8. Plan

In order, the most important first.

1. Done: `ReducePipeline` with its abstract specification, `HostRun` and
   `Rejections`, `TileLayout`, `HostData` and `IndependentChecks`, `Bf16`, `CaseRun`,
   `EvidenceRunner` and `EvidenceAudit`, `AssetFetch`, `ProfilerCapture` and
   `HeavyLock`, each with the proofs of its safety.
2. To compose: `HostRun` over `RowReduce`, so that the adversarial device is
   replaced by the one `ReducePipeline` implements, and a fault-free process is
   shown to end with status 0.
3. To model: the edit of `integrate_metal.py` beside other edits, if the build
   tools become part of the project; a tolerance of `compare_rows` over an exact
   small format.
