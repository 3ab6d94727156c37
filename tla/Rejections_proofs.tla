-------------------------- MODULE Rejections_proofs --------------------------
(***************************************************************************)
(* What a passing record, an exit status and a recorded rejection of the   *)
(* host program are worth, for any number of pages and iterations, against *)
(* any device, with calls that throw and a runner that kills anywhere.     *)
(***************************************************************************)
EXTENDS Rejections, TLAPS

-----------------------------------------------------------------------------
\* The inductive invariant of the host program

Early == {"help", "parse", "prepare", "profiler"}
Iterating ==
    {"change", "bind", "upload", "poison", "enqueue", "finish", "read", "compare",
     "emit", "next"}
Running == {"create", "setup", "close"} \cup Iterating
Phase == Early \cup Running \cup {"catch", "exit"}

Record == [repeat_index : Nat, input : Content, pass : BOOLEAN]

HostTypes ==
    /\ request \in Request
    /\ phase \in Phase
    /\ before_device \in BOOLEAN /\ launched \in BOOLEAN
    /\ verdict \in BOOLEAN /\ pass \in BOOLEAN
    /\ device \in {"none", "open", "closed"} /\ closes \in Nat
    /\ prepared \in Content \cup {"none"}
    /\ inDram \in Content \cup {"none"}
    /\ outDram \in [Row -> OutPage] /\ actual \in [Row -> OutPage]
    /\ stored \subseteq Row
    /\ iteration \in Nat
    /\ records \in Seq(Record)
    /\ exit \in {-1, 0, 1, 2}

Refused == RejectOptions \/ request.data = "bad" \/ RejectProfiler

\* before_device is what it says, and nothing that must be refused outlives it.
BeforeInv ==
    /\ phase \in Early => before_device
    /\ phase \in Running => ~before_device
    /\ before_device =>
         device = "none" /\ closes = 0 /\ inDram = "none" /\ records = << >> /\ ~launched
    /\ phase = "prepare" => ~RejectOptions
    /\ phase = "profiler" => ~RejectOptions /\ request.data # "bad"
    /\ ~before_device => ~Refused

\* The help text has a way of its own.
HelpInv ==
    /\ request.help => phase \in {"help", "exit"}
    /\ phase = "help" => request.help

\* One record for each iteration, in order, all of them good while pass is.
RecordsInv ==
    /\ phase \in Early \cup {"create", "setup"} => iteration = 0 /\ records = << >>
    /\ phase \in Iterating => iteration < request.repeats
    /\ phase \in Iterating \ {"next"} => Len(records) = iteration
    /\ phase = "next" => Len(records) = iteration + 1
    /\ phase = "close" => Len(records) = request.repeats
    /\ \A i \in 1 .. Len(records) :
         records[i].repeat_index = i - 1 /\ (pass => records[i].pass)

\* What is in the input tensor, before and after it is uploaded.
UploadInv ==
    /\ phase \in Running \cup {"profiler"} => prepared \in Content
    /\ phase \in Iterating \/ launched => inDram \in Content
    /\ phase \in Iterating \ {"change", "bind", "upload"} => inDram = prepared
    /\ phase = "change" /\ iteration > 0 => inDram = prepared
    /\ phase \in {"bind", "upload"} /\ iteration > 0 => inDram # prepared

\* A page that is right was stored by this launch.
PagesInv ==
    /\ launched => phase \in {"finish", "catch", "exit"}
    /\ phase = "enqueue" => \A r \in Row : outDram[r] = Poison
    /\ phase \in {"finish", "read"} =>
         \A r \in Row : outDram[r] = Good(inDram) => r \in stored
    /\ phase = "compare" => \A r \in Row : actual[r] = Good(prepared) => r \in stored
    /\ PassMeansStored

\* An exit status is given at the end and says how the end was reached.
ExitInv ==
    /\ exit # -1 => phase = "exit"
    /\ exit = 0 /\ ~request.help =>
         pass /\ Len(records) = request.repeats /\ device = "closed"
    /\ exit = 2 => before_device
    /\ DeviceGivenBack

HostInv ==
    /\ HostTypes /\ BeforeInv /\ HelpInv /\ RecordsInv /\ UploadInv /\ PagesInv /\ ExitInv

-----------------------------------------------------------------------------
\* The runner's part of the invariant

\* A process that ends by itself has reported an error exactly when its status
\* is that of the handler; a killed one may have.
ErrorInv ==
    /\ errors # << >> => phase = "exit" /\ errors = <<ErrorLine>>
    /\ ending # "none" => phase = "exit"
    /\ ending = "none" /\ phase = "exit" /\ ~request.help /\ before_device =>
         exit = 2 /\ errors = <<ErrorLine>>

RunnerInv == HostInv /\ ErrorInv

\* A right result is something a device may store, and is not the poison.
LEMMA GoodIsStored ==
    ASSUME NEW c \in Content
    PROVE  Good(c) \in StoredPage /\ Good(c) # Poison
<1>1. SumOf[c] \in {"nil", "width", "other"}
  BY DEF Content, SumOf
<1>2. Good(c) \in StoredPage
  BY <1>1 DEF Good, StoredPage
<1> QED
  BY <1>2, PoisonAssumption

-----------------------------------------------------------------------------
\* Every step of the host program and of the device keeps it

\* The help text needs no device.
LEMMA HelpStep ==
    ASSUME HostInv, Help
    PROVE  HostInv'
<1> USE HtAssumption, MaxRepeatsAssumption, PoisonAssumption
    DEF HostInv, Help, Step, mesh, loop, dram, kernel, judged
<1>1. HostTypes'
  BY DEF HostTypes, Phase, Early, Running, Iterating, Record
<1>2. BeforeInv'
  BY DEF HostTypes, BeforeInv, Refused, RejectOptions, RejectProfiler, Early,
         Running, Iterating
<1>3. HelpInv'
  BY DEF HostTypes, HelpInv, Early, Running, Iterating
<1>4. RecordsInv'
  BY DEF HostTypes, RecordsInv, Record, Request, Early, Running, Iterating
<1>5. UploadInv'
  BY DEF HostTypes, UploadInv, Early, Running, Iterating
<1>6. PagesInv'
  BY DEF HostTypes, PagesInv, PassMeansStored, UploadInv, Early, Running, Iterating
<1>7. ExitInv'
  BY DEF HelpInv, HostTypes, ExitInv, RecordsInv, BeforeInv, DeviceGivenBack,
         Early, Running, Iterating
<1> QED
  BY <1>1, <1>2, <1>3, <1>4, <1>5, <1>6, <1>7

\* Options are refused before anything else.
LEMMA ParseOptionsStep ==
    ASSUME HostInv, ParseOptions
    PROVE  HostInv'
<1> USE HtAssumption, MaxRepeatsAssumption, PoisonAssumption
    DEF HostInv, ParseOptions, Step, mesh, loop, dram, kernel, judged,
        RejectOptions
<1>1. HostTypes'
  BY DEF HostTypes, Phase, Early, Running, Iterating, Record
<1>2. BeforeInv'
  BY DEF HostTypes, BeforeInv, Refused, RejectOptions, RejectProfiler, Early,
         Running, Iterating
<1>3. HelpInv'
  BY DEF HostTypes, HelpInv, Early, Running, Iterating
<1>4. RecordsInv'
  BY DEF HostTypes, RecordsInv, Record, Request, Early, Running, Iterating
<1>5. UploadInv'
  BY DEF HostTypes, UploadInv, Early, Running, Iterating
<1>6. PagesInv'
  BY DEF HostTypes, PagesInv, PassMeansStored, UploadInv, Early, Running, Iterating
<1>7. ExitInv'
  BY DEF HostTypes, ExitInv, RecordsInv, BeforeInv, DeviceGivenBack, Early,
         Running, Iterating
<1> QED
  BY <1>1, <1>2, <1>3, <1>4, <1>5, <1>6, <1>7

\* Data is refused before the profiler is asked for.
LEMMA PrepareInputStep ==
    ASSUME HostInv, PrepareInput
    PROVE  HostInv'
<1> USE HtAssumption, MaxRepeatsAssumption, PoisonAssumption
    DEF HostInv, PrepareInput, Step, mesh, loop, dram, kernel, judged,
        Request
<1>1. HostTypes'
  BY DEF HostTypes, Phase, Early, Running, Iterating, Record
<1>2. BeforeInv'
  BY DEF HostTypes, BeforeInv, Refused, RejectOptions, RejectProfiler, Early,
         Running, Iterating
<1>3. HelpInv'
  BY DEF HostTypes, HelpInv, Early, Running, Iterating
<1>4. RecordsInv'
  BY DEF HostTypes, RecordsInv, Record, Request, Early, Running, Iterating
<1>5. UploadInv'
  BY DEF HostTypes, UploadInv, Early, Running, Iterating
<1>6. PagesInv'
  BY DEF HostTypes, PagesInv, PassMeansStored, UploadInv, Early, Running, Iterating
<1>7. ExitInv'
  BY DEF HostTypes, ExitInv, RecordsInv, BeforeInv, DeviceGivenBack, Early,
         Running, Iterating
<1> QED
  BY <1>1, <1>2, <1>3, <1>4, <1>5, <1>6, <1>7

\* From here on before_device is false and nothing is left to refuse.
LEMMA CheckProfilerStep ==
    ASSUME HostInv, CheckProfiler
    PROVE  HostInv'
<1> USE HtAssumption, MaxRepeatsAssumption, PoisonAssumption
    DEF HostInv, CheckProfiler, Step, mesh, loop, dram, kernel, judged,
        RejectProfiler
<1>1. HostTypes'
  BY DEF HostTypes, Phase, Early, Running, Iterating, Record
<1>2. BeforeInv'
  BY DEF HostTypes, BeforeInv, Refused, RejectOptions, RejectProfiler, Early,
         Running, Iterating
<1>3. HelpInv'
  BY DEF HostTypes, HelpInv, Early, Running, Iterating
<1>4. RecordsInv'
  BY DEF HostTypes, RecordsInv, Record, Request, Early, Running, Iterating
<1>5. UploadInv'
  BY DEF HostTypes, UploadInv, Early, Running, Iterating
<1>6. PagesInv'
  BY DEF HostTypes, PagesInv, PassMeansStored, UploadInv, Early, Running, Iterating
<1>7. ExitInv'
  BY DEF HostTypes, ExitInv, RecordsInv, BeforeInv, DeviceGivenBack, Early,
         Running, Iterating
<1> QED
  BY <1>1, <1>2, <1>3, <1>4, <1>5, <1>6, <1>7

\* The device is open, no record is there.
LEMMA CreateDeviceStep ==
    ASSUME HostInv, CreateDevice
    PROVE  HostInv'
<1> USE HtAssumption, MaxRepeatsAssumption, PoisonAssumption
    DEF HostInv, CreateDevice, Step, mesh, loop, dram, kernel, judged
<1>1. HostTypes'
  BY DEF HostTypes, Phase, Early, Running, Iterating, Record
<1>2. BeforeInv'
  BY DEF HostTypes, BeforeInv, Refused, RejectOptions, RejectProfiler, Early,
         Running, Iterating
<1>3. HelpInv'
  BY DEF HostTypes, HelpInv, Early, Running, Iterating
<1>4. RecordsInv'
  BY DEF HostTypes, RecordsInv, Record, Request, Early, Running, Iterating
<1>5. UploadInv'
  BY DEF HostTypes, UploadInv, Early, Running, Iterating
<1>6. PagesInv'
  BY DEF HostTypes, PagesInv, PassMeansStored, UploadInv, Early, Running, Iterating
<1>7. ExitInv'
  BY DEF HostTypes, ExitInv, RecordsInv, BeforeInv, DeviceGivenBack, Early,
         Running, Iterating
<1> QED
  BY <1>1, <1>2, <1>3, <1>4, <1>5, <1>6, <1>7

\* Both tensors hold what an earlier process left.
LEMMA SetupStep ==
    ASSUME HostInv, Setup
    PROVE  HostInv'
<1> USE HtAssumption, MaxRepeatsAssumption, PoisonAssumption
    DEF HostInv, Setup, Step, mesh, loop, dram, kernel, judged,
        OutPage
<1>1. HostTypes'
  BY DEF HostTypes, Phase, Early, Running, Iterating, Record
<1>2. BeforeInv'
  BY DEF HostTypes, BeforeInv, Refused, RejectOptions, RejectProfiler, Early,
         Running, Iterating
<1>3. HelpInv'
  BY DEF HostTypes, HelpInv, Early, Running, Iterating
<1>4. RecordsInv'
  BY DEF BeforeInv, Refused, RejectOptions, HostTypes, RecordsInv, Record,
         Request, Early, Running, Iterating
<1>5. UploadInv'
  BY DEF RecordsInv, HostTypes, UploadInv, Early, Running, Iterating
<1>6. PagesInv'
  BY DEF HostTypes, PagesInv, PassMeansStored, UploadInv, Early, Running, Iterating
<1>7. ExitInv'
  BY DEF HostTypes, ExitInv, RecordsInv, BeforeInv, DeviceGivenBack, Early,
         Running, Iterating
<1> QED
  BY <1>1, <1>2, <1>3, <1>4, <1>5, <1>6, <1>7

\* From the second launch on the input is not the one in DRAM.
LEMMA ChangeInputStep ==
    ASSUME HostInv, ChangeInput
    PROVE  HostInv'
<1> USE HtAssumption, MaxRepeatsAssumption, PoisonAssumption
    DEF HostInv, ChangeInput, Step, mesh, loop, dram, kernel, judged,
        NextInput
<1>1. HostTypes'
  BY DEF Content, UploadInv, HostTypes, Phase, Early, Running, Iterating, Record
<1>2. BeforeInv'
  BY DEF HostTypes, BeforeInv, Refused, RejectOptions, RejectProfiler, Early,
         Running, Iterating
<1>3. HelpInv'
  BY DEF HostTypes, HelpInv, Early, Running, Iterating
<1>4. RecordsInv'
  BY DEF HostTypes, RecordsInv, Record, Request, Early, Running, Iterating
<1>5. UploadInv'
  BY DEF Content, HostTypes, UploadInv, Early, Running, Iterating
<1>6. PagesInv'
  BY DEF HostTypes, PagesInv, PassMeansStored, UploadInv, Early, Running, Iterating
<1>7. ExitInv'
  BY DEF HostTypes, ExitInv, RecordsInv, BeforeInv, DeviceGivenBack, Early,
         Running, Iterating
<1> QED
  BY <1>1, <1>2, <1>3, <1>4, <1>5, <1>6, <1>7

\* The compile-time and runtime arguments are set.
LEMMA BindArgumentsStep ==
    ASSUME HostInv, BindArguments
    PROVE  HostInv'
<1> USE HtAssumption, MaxRepeatsAssumption, PoisonAssumption
    DEF HostInv, BindArguments, Step, mesh, loop, dram, kernel, judged
<1>1. HostTypes'
  BY DEF HostTypes, Phase, Early, Running, Iterating, Record
<1>2. BeforeInv'
  BY DEF HostTypes, BeforeInv, Refused, RejectOptions, RejectProfiler, Early,
         Running, Iterating
<1>3. HelpInv'
  BY DEF HostTypes, HelpInv, Early, Running, Iterating
<1>4. RecordsInv'
  BY DEF HostTypes, RecordsInv, Record, Request, Early, Running, Iterating
<1>5. UploadInv'
  BY DEF HostTypes, UploadInv, Early, Running, Iterating
<1>6. PagesInv'
  BY DEF HostTypes, PagesInv, PassMeansStored, UploadInv, Early, Running, Iterating
<1>7. ExitInv'
  BY DEF HostTypes, ExitInv, RecordsInv, BeforeInv, DeviceGivenBack, Early,
         Running, Iterating
<1> QED
  BY <1>1, <1>2, <1>3, <1>4, <1>5, <1>6, <1>7

\* The input tensor is the prepared input again.
LEMMA UploadStep ==
    ASSUME HostInv, Upload
    PROVE  HostInv'
<1> USE HtAssumption, MaxRepeatsAssumption, PoisonAssumption
    DEF HostInv, Upload, Step, mesh, loop, dram, kernel, judged
<1>1. HostTypes'
  BY DEF HostTypes, Phase, Early, Running, Iterating, Record
<1>2. BeforeInv'
  BY DEF HostTypes, BeforeInv, Refused, RejectOptions, RejectProfiler, Early,
         Running, Iterating
<1>3. HelpInv'
  BY DEF HostTypes, HelpInv, Early, Running, Iterating
<1>4. RecordsInv'
  BY DEF HostTypes, RecordsInv, Record, Request, Early, Running, Iterating
<1>5. UploadInv'
  BY DEF HostTypes, UploadInv, Early, Running, Iterating
<1>6. PagesInv'
  BY DEF HostTypes, PagesInv, PassMeansStored, UploadInv, Early, Running, Iterating
<1>7. ExitInv'
  BY DEF HostTypes, ExitInv, RecordsInv, BeforeInv, DeviceGivenBack, Early,
         Running, Iterating
<1> QED
  BY <1>1, <1>2, <1>3, <1>4, <1>5, <1>6, <1>7

\* No page of the output is right.
LEMMA PoisonOutputStep ==
    ASSUME HostInv, PoisonOutput
    PROVE  HostInv'
<1> USE HtAssumption, MaxRepeatsAssumption, PoisonAssumption
    DEF HostInv, PoisonOutput, Step, mesh, loop, dram, kernel, judged,
        OutPage, Good, StoredPage
<1>1. HostTypes'
  BY DEF HostTypes, Phase, Early, Running, Iterating, Record
<1>2. BeforeInv'
  BY DEF HostTypes, BeforeInv, Refused, RejectOptions, RejectProfiler, Early,
         Running, Iterating
<1>3. HelpInv'
  BY DEF HostTypes, HelpInv, Early, Running, Iterating
<1>4. RecordsInv'
  BY DEF HostTypes, RecordsInv, Record, Request, Early, Running, Iterating
<1>5. UploadInv'
  BY DEF HostTypes, UploadInv, Early, Running, Iterating
<1>6. PagesInv'
  BY DEF HostTypes, PagesInv, PassMeansStored, UploadInv, Early, Running, Iterating
<1>7. ExitInv'
  BY DEF HostTypes, ExitInv, RecordsInv, BeforeInv, DeviceGivenBack, Early,
         Running, Iterating
<1> QED
  BY <1>1, <1>2, <1>3, <1>4, <1>5, <1>6, <1>7

\* No page is stored yet.
LEMMA EnqueueStep ==
    ASSUME HostInv, Enqueue
    PROVE  HostInv'
<1> USE HtAssumption, MaxRepeatsAssumption, PoisonAssumption
    DEF HostInv, Enqueue, Step, mesh, loop, dram, kernel, judged
<1>1. HostTypes'
  BY DEF HostTypes, Phase, Early, Running, Iterating, Record
<1>2. BeforeInv'
  BY DEF HostTypes, BeforeInv, Refused, RejectOptions, RejectProfiler, Early,
         Running, Iterating
<1>3. HelpInv'
  BY DEF HostTypes, HelpInv, Early, Running, Iterating
<1>4. RecordsInv'
  BY DEF HostTypes, RecordsInv, Record, Request, Early, Running, Iterating
<1>5. UploadInv'
  BY DEF HostTypes, UploadInv, Early, Running, Iterating
<1>6. PagesInv'
  BY GoodIsStored DEF HostTypes, PagesInv, PassMeansStored, UploadInv, OutPage,
      Early, Running, Iterating
<1>7. ExitInv'
  BY DEF HostTypes, ExitInv, RecordsInv, BeforeInv, DeviceGivenBack, Early,
         Running, Iterating
<1> QED
  BY <1>1, <1>2, <1>3, <1>4, <1>5, <1>6, <1>7

\* The launch is over.
LEMMA FinishStep ==
    ASSUME HostInv, Finish
    PROVE  HostInv'
<1> USE HtAssumption, MaxRepeatsAssumption, PoisonAssumption
    DEF HostInv, Finish, Step, mesh, loop, dram, kernel, judged
<1>1. HostTypes'
  BY DEF HostTypes, Phase, Early, Running, Iterating, Record
<1>2. BeforeInv'
  BY DEF HostTypes, BeforeInv, Refused, RejectOptions, RejectProfiler, Early,
         Running, Iterating
<1>3. HelpInv'
  BY DEF HostTypes, HelpInv, Early, Running, Iterating
<1>4. RecordsInv'
  BY DEF HostTypes, RecordsInv, Record, Request, Early, Running, Iterating
<1>5. UploadInv'
  BY DEF HostTypes, UploadInv, Early, Running, Iterating
<1>6. PagesInv'
  BY DEF HostTypes, PagesInv, PassMeansStored, UploadInv, Early, Running, Iterating
<1>7. ExitInv'
  BY DEF HostTypes, ExitInv, RecordsInv, BeforeInv, DeviceGivenBack, Early,
         Running, Iterating
<1> QED
  BY <1>1, <1>2, <1>3, <1>4, <1>5, <1>6, <1>7

\* What is read is right only where this launch stored it.
LEMMA ReadOutputStep ==
    ASSUME HostInv, ReadOutput
    PROVE  HostInv'
<1> USE HtAssumption, MaxRepeatsAssumption, PoisonAssumption
    DEF HostInv, ReadOutput, Step, mesh, loop, dram, kernel, judged,
        OutPage
<1>1. HostTypes'
  BY DEF HostTypes, Phase, Early, Running, Iterating, Record
<1>2. BeforeInv'
  BY DEF HostTypes, BeforeInv, Refused, RejectOptions, RejectProfiler, Early,
         Running, Iterating
<1>3. HelpInv'
  BY DEF HostTypes, HelpInv, Early, Running, Iterating
<1>4. RecordsInv'
  BY DEF HostTypes, RecordsInv, Record, Request, Early, Running, Iterating
<1>5. UploadInv'
  BY DEF HostTypes, UploadInv, Early, Running, Iterating
<1>6. PagesInv'
  BY DEF HostTypes, PagesInv, PassMeansStored, UploadInv, Early, Running, Iterating
<1>7. ExitInv'
  BY DEF HostTypes, ExitInv, RecordsInv, BeforeInv, DeviceGivenBack, Early,
         Running, Iterating
<1> QED
  BY <1>1, <1>2, <1>3, <1>4, <1>5, <1>6, <1>7

\* Passing takes a right page in every row.
LEMMA CompareStep ==
    ASSUME HostInv, Compare
    PROVE  HostInv'
<1> USE HtAssumption, MaxRepeatsAssumption, PoisonAssumption
    DEF HostInv, Compare, Step, mesh, loop, dram, kernel, judged,
        RowsPass, PaddingZero, Good, StoredPage, OutPage
<1>1. HostTypes'
  BY DEF HostTypes, Phase, Early, Running, Iterating, Record
<1>2. BeforeInv'
  BY DEF HostTypes, BeforeInv, Refused, RejectOptions, RejectProfiler, Early,
         Running, Iterating
<1>3. HelpInv'
  BY DEF HostTypes, HelpInv, Early, Running, Iterating
<1>4. RecordsInv'
  BY DEF HostTypes, RecordsInv, Record, Request, Early, Running, Iterating
<1>5. UploadInv'
  BY DEF HostTypes, UploadInv, Early, Running, Iterating
<1>6. PagesInv'
  BY DEF HostTypes, PagesInv, PassMeansStored, UploadInv, Early, Running, Iterating
<1>7. ExitInv'
  BY DEF HostTypes, ExitInv, RecordsInv, BeforeInv, DeviceGivenBack, Early,
         Running, Iterating
<1> QED
  BY <1>1, <1>2, <1>3, <1>4, <1>5, <1>6, <1>7

\* One record more, and pass is lost with a bad one.
LEMMA EmitResultStep ==
    ASSUME HostInv, EmitResult
    PROVE  HostInv'
<1> USE HtAssumption, MaxRepeatsAssumption, PoisonAssumption
    DEF HostInv, EmitResult, Step, mesh, loop, dram, kernel, judged
<1>1. HostTypes'
  BY DEF UploadInv, HostTypes, Phase, Early, Running, Iterating, Record
<1>2. BeforeInv'
  BY DEF HostTypes, BeforeInv, Refused, RejectOptions, RejectProfiler, Early,
         Running, Iterating
<1>3. HelpInv'
  BY DEF HostTypes, HelpInv, Early, Running, Iterating
<1>4. RecordsInv'
  BY DEF HostTypes, RecordsInv, Record, Request, Early, Running, Iterating
<1>5. UploadInv'
  BY DEF HostTypes, UploadInv, Early, Running, Iterating
<1>6. PagesInv'
  BY DEF HostTypes, PagesInv, PassMeansStored, UploadInv, Early, Running, Iterating
<1>7. ExitInv'
  BY DEF HostTypes, ExitInv, RecordsInv, BeforeInv, DeviceGivenBack, Early,
         Running, Iterating
<1> QED
  BY <1>1, <1>2, <1>3, <1>4, <1>5, <1>6, <1>7

\* As many records as iterations.
LEMMA NextIterationStep ==
    ASSUME HostInv, NextIteration
    PROVE  HostInv'
<1> USE HtAssumption, MaxRepeatsAssumption, PoisonAssumption
    DEF HostInv, NextIteration, Step, mesh, loop, dram, kernel, judged
<1>1. HostTypes'
  BY DEF HostTypes, Phase, Early, Running, Iterating, Record
<1>2. BeforeInv'
  BY DEF HostTypes, BeforeInv, Refused, RejectOptions, RejectProfiler, Early,
         Running, Iterating
<1>3. HelpInv'
  BY DEF HostTypes, HelpInv, Early, Running, Iterating
<1>4. RecordsInv'
  BY DEF HostTypes, RecordsInv, Record, Request, Early, Running, Iterating
<1>5. UploadInv'
  BY DEF HostTypes, UploadInv, Early, Running, Iterating
<1>6. PagesInv'
  BY DEF HostTypes, PagesInv, PassMeansStored, UploadInv, Early, Running, Iterating
<1>7. ExitInv'
  BY DEF HostTypes, ExitInv, RecordsInv, BeforeInv, DeviceGivenBack, Early,
         Running, Iterating
<1> QED
  BY <1>1, <1>2, <1>3, <1>4, <1>5, <1>6, <1>7

\* Status 0 takes passing records and a closed device.
LEMMA CloseStep ==
    ASSUME HostInv, Close
    PROVE  HostInv'
<1> USE HtAssumption, MaxRepeatsAssumption, PoisonAssumption
    DEF HostInv, Close, Step, mesh, loop, dram, kernel, judged,
        Status
<1>1. HostTypes'
  BY DEF HostTypes, Phase, Early, Running, Iterating, Record
<1>2. BeforeInv'
  BY DEF HostTypes, BeforeInv, Refused, RejectOptions, RejectProfiler, Early,
         Running, Iterating
<1>3. HelpInv'
  BY DEF HostTypes, HelpInv, Early, Running, Iterating
<1>4. RecordsInv'
  BY DEF HostTypes, RecordsInv, Record, Request, Early, Running, Iterating
<1>5. UploadInv'
  BY DEF HostTypes, UploadInv, Early, Running, Iterating
<1>6. PagesInv'
  BY DEF HostTypes, PagesInv, PassMeansStored, UploadInv, Early, Running, Iterating
<1>7. ExitInv'
  BY DEF HostTypes, ExitInv, RecordsInv, BeforeInv, DeviceGivenBack, Early,
         Running, Iterating
<1> QED
  BY <1>1, <1>2, <1>3, <1>4, <1>5, <1>6, <1>7

\* The handler closes what was created.
LEMMA CatchStep ==
    ASSUME HostInv, Catch
    PROVE  HostInv'
<1> USE HtAssumption, MaxRepeatsAssumption, PoisonAssumption
    DEF HostInv, Catch, Step, mesh, loop, dram, kernel, judged
<1>1. HostTypes'
  BY DEF HostTypes, Phase, Early, Running, Iterating, Record
<1>2. BeforeInv'
  BY DEF HostTypes, BeforeInv, Refused, RejectOptions, RejectProfiler, Early,
         Running, Iterating
<1>3. HelpInv'
  BY DEF HostTypes, HelpInv, Early, Running, Iterating
<1>4. RecordsInv'
  BY DEF HostTypes, RecordsInv, Record, Request, Early, Running, Iterating
<1>5. UploadInv'
  BY DEF HostTypes, UploadInv, Early, Running, Iterating
<1>6. PagesInv'
  BY DEF HostTypes, PagesInv, PassMeansStored, UploadInv, Early, Running, Iterating
<1>7. ExitInv'
  BY DEF HostTypes, ExitInv, RecordsInv, BeforeInv, DeviceGivenBack, Early,
         Running, Iterating
<1> QED
  BY <1>1, <1>2, <1>3, <1>4, <1>5, <1>6, <1>7

\* A call throws.
LEMMA ThrowStep ==
    ASSUME HostInv, Throw
    PROVE  HostInv'
<1> USE HtAssumption, MaxRepeatsAssumption, PoisonAssumption
    DEF HostInv, Throw, Step, mesh, loop, dram, kernel, judged,
        MayThrow, RowsPass, PaddingZero
<1>1. HostTypes'
  BY DEF HostTypes, Phase, Early, Running, Iterating, Record
<1>2. BeforeInv'
  BY DEF HostTypes, BeforeInv, Refused, RejectOptions, RejectProfiler, Early,
         Running, Iterating
<1>3. HelpInv'
  BY DEF HostTypes, HelpInv, Early, Running, Iterating
<1>4. RecordsInv'
  BY DEF HostTypes, RecordsInv, Record, Request, Early, Running, Iterating
<1>5. UploadInv'
  BY DEF HostTypes, UploadInv, Early, Running, Iterating
<1>6. PagesInv'
  BY DEF HostTypes, PagesInv, PassMeansStored, UploadInv, Early, Running, Iterating
<1>7. ExitInv'
  BY DEF HostTypes, ExitInv, RecordsInv, BeforeInv, DeviceGivenBack, Early,
         Running, Iterating
<1> QED
  BY <1>1, <1>2, <1>3, <1>4, <1>5, <1>6, <1>7

\* close() throws.
LEMMA CloseThrowsStep ==
    ASSUME HostInv, CloseThrows
    PROVE  HostInv'
<1> USE HtAssumption, MaxRepeatsAssumption, PoisonAssumption
    DEF HostInv, CloseThrows, Step, mesh, loop, dram, kernel, judged
<1>1. HostTypes'
  BY DEF HostTypes, Phase, Early, Running, Iterating, Record
<1>2. BeforeInv'
  BY DEF HostTypes, BeforeInv, Refused, RejectOptions, RejectProfiler, Early,
         Running, Iterating
<1>3. HelpInv'
  BY DEF HostTypes, HelpInv, Early, Running, Iterating
<1>4. RecordsInv'
  BY DEF HostTypes, RecordsInv, Record, Request, Early, Running, Iterating
<1>5. UploadInv'
  BY DEF HostTypes, UploadInv, Early, Running, Iterating
<1>6. PagesInv'
  BY DEF HostTypes, PagesInv, PassMeansStored, UploadInv, Early, Running, Iterating
<1>7. ExitInv'
  BY DEF HostTypes, ExitInv, RecordsInv, BeforeInv, DeviceGivenBack, Early,
         Running, Iterating
<1> QED
  BY <1>1, <1>2, <1>3, <1>4, <1>5, <1>6, <1>7

\* The launch ends by itself.
LEMMA ReturnStep ==
    ASSUME HostInv, Return
    PROVE  HostInv'
<1> USE HtAssumption, MaxRepeatsAssumption, PoisonAssumption
    DEF HostInv, Return, Step, mesh, loop, dram, kernel, judged
<1>1. HostTypes'
  <2>1. /\ launched' \in BOOLEAN
    OBVIOUS
  <2> QED
    BY <2>1 DEF HostTypes
<1>2. BeforeInv'
  BY DEF HostTypes, BeforeInv, Refused, RejectOptions, RejectProfiler, Early,
         Running, Iterating
<1>3. HelpInv'
  BY DEF HostTypes, HelpInv, Early, Running, Iterating
<1>4. RecordsInv'
  BY DEF HostTypes, RecordsInv, Record, Request, Early, Running, Iterating
<1>5. UploadInv'
  BY DEF HostTypes, UploadInv, Early, Running, Iterating
<1>6. PagesInv'
  BY DEF HostTypes, PagesInv, PassMeansStored, UploadInv, Early, Running, Iterating
<1>7. ExitInv'
  BY DEF HostTypes, ExitInv, RecordsInv, BeforeInv, DeviceGivenBack, Early,
         Running, Iterating
<1> QED
  BY <1>1, <1>2, <1>3, <1>4, <1>5, <1>6, <1>7

\* The device stores a page rightly.
LEMMA StoreRightStep ==
    ASSUME HostInv, NEW r \in Row, StoreRight(r)
    PROVE  HostInv'
<1> USE HtAssumption, MaxRepeatsAssumption, PoisonAssumption
    DEF HostInv, StoreRight, Step, mesh, loop, dram, kernel, judged,
        Good, StoredPage, OutPage
<1>1. HostTypes'
  <2>1. Good(inDram) \in OutPage
    BY GoodIsStored DEF UploadInv, OutPage
  <2>2. outDram' \in [Row -> OutPage]
    BY <2>1 DEF HostTypes
  <2> QED
    BY <2>2 DEF HostTypes
<1>2. BeforeInv'
  BY DEF HostTypes, BeforeInv, Refused, RejectOptions, RejectProfiler, Early,
         Running, Iterating
<1>3. HelpInv'
  BY DEF HostTypes, HelpInv, Early, Running, Iterating
<1>4. RecordsInv'
  BY DEF HostTypes, RecordsInv, Record, Request, Early, Running, Iterating
<1>5. UploadInv'
  BY DEF HostTypes, UploadInv, Early, Running, Iterating
<1>6. PagesInv'
  BY DEF HostTypes, PagesInv, PassMeansStored, UploadInv, Early, Running, Iterating
<1>7. ExitInv'
  BY DEF HostTypes, ExitInv, RecordsInv, BeforeInv, DeviceGivenBack, Early,
         Running, Iterating
<1> QED
  BY <1>1, <1>2, <1>3, <1>4, <1>5, <1>6, <1>7

\* The device stores a page wrongly.
LEMMA StoreWrongStep ==
    ASSUME HostInv, NEW r \in Row, StoreWrong(r)
    PROVE  HostInv'
<1> USE HtAssumption, MaxRepeatsAssumption, PoisonAssumption
    DEF HostInv, StoreWrong, Step, mesh, loop, dram, kernel, judged,
        Good, StoredPage, OutPage
<1>1. HostTypes'
  BY DEF HostTypes, Phase, Early, Running, Iterating, Record
<1>2. BeforeInv'
  BY DEF HostTypes, BeforeInv, Refused, RejectOptions, RejectProfiler, Early,
         Running, Iterating
<1>3. HelpInv'
  BY DEF HostTypes, HelpInv, Early, Running, Iterating
<1>4. RecordsInv'
  BY DEF HostTypes, RecordsInv, Record, Request, Early, Running, Iterating
<1>5. UploadInv'
  BY DEF HostTypes, UploadInv, Early, Running, Iterating
<1>6. PagesInv'
  BY DEF HostTypes, PagesInv, PassMeansStored, UploadInv, Early, Running, Iterating
<1>7. ExitInv'
  BY DEF HostTypes, ExitInv, RecordsInv, BeforeInv, DeviceGivenBack, Early,
         Running, Iterating
<1> QED
  BY <1>1, <1>2, <1>3, <1>4, <1>5, <1>6, <1>7

-----------------------------------------------------------------------------
\* The invariant over one process

\* A process starts before anything is recorded, uploaded or opened.
LEMMA HostInit == Init => HostInv
<1> SUFFICES ASSUME Init PROVE HostInv
  OBVIOUS
<1> USE HtAssumption, MaxRepeatsAssumption, PoisonAssumption DEF Init
<1>1. HostTypes
  <2>1. phase \in Phase
    BY DEF Phase, Early
  <2>2. outDram \in [Row -> OutPage] /\ actual \in [Row -> OutPage]
    BY DEF OutPage
  <2>3. records \in Seq(Record)
    OBVIOUS
  <2> QED
    BY <2>1, <2>2, <2>3 DEF HostTypes
<1>2. BeforeInv /\ HelpInv
  BY DEF BeforeInv, HelpInv, Early, Running, Iterating
<1>3. RecordsInv
  BY DEF RecordsInv, Early, Iterating
<1>4. UploadInv
  BY DEF UploadInv, Running, Iterating
<1>5. PagesInv /\ ExitInv
  BY DEF PagesInv, PassMeansStored, ExitInv, DeviceGivenBack
<1> QED
  BY <1>1, <1>2, <1>3, <1>4, <1>5 DEF HostInv

\* What changes nothing that the invariant speaks of.
LEMMA HostKept ==
    ASSUME HostInv, UNCHANGED vars
    PROVE  HostInv'
<1> USE DEF HostInv, vars, mesh, loop, dram, kernel, judged
<1>1. HostTypes' /\ BeforeInv' /\ HelpInv'
  BY DEF HostTypes, BeforeInv, HelpInv, Refused, RejectOptions, RejectProfiler
<1>2. RecordsInv' /\ UploadInv'
  BY DEF RecordsInv, UploadInv
<1>3. PagesInv' /\ ExitInv'
  BY DEF PagesInv, ExitInv, PassMeansStored, DeviceGivenBack
<1> QED
  BY <1>1, <1>2, <1>3

\* Every step of the process keeps the invariant, wherever it throws.
LEMMA NextKeeps ==
    ASSUME HostInv, Next
    PROVE  HostInv'
<1>1. CASE Host
  BY <1>1, HelpStep, ParseOptionsStep, PrepareInputStep, CheckProfilerStep,
     CreateDeviceStep, SetupStep, ChangeInputStep, BindArgumentsStep, UploadStep,
     PoisonOutputStep, EnqueueStep, FinishStep, ReadOutputStep, CompareStep,
     EmitResultStep, NextIterationStep, CloseStep, CatchStep
     DEF Host
<1>2. CASE Throw \/ CloseThrows \/ Return
  BY <1>2, ThrowStep, CloseThrowsStep, ReturnStep
<1>3. CASE \E r \in Row : StoreRight(r) \/ StoreWrong(r)
  BY <1>3, StoreRightStep, StoreWrongStep
<1>4. CASE Terminating
  BY <1>4, HostKept DEF Terminating
<1> QED
  BY <1>1, <1>2, <1>3, <1>4 DEF Next

\* The host program keeps its invariant by itself, whatever the device stores
\* and whichever calls throw.
THEOREM HostInvariance == Spec => []HostInv
<1>1. HostInv /\ [Next]_vars => HostInv'
  BY NextKeeps, HostKept
<1> QED
  BY <1>1, HostInit, PTL DEF Spec

-----------------------------------------------------------------------------
\* The invariant under the runner

\* How a process ends, or does not: by the help text, by close() or by the
\* handler; nothing after it changes what the runner reads.
LEMMA NextEnds ==
    ASSUME HostInv, Next
    PROVE  /\ UNCHANGED request
           /\ phase = "exit" => UNCHANGED <<phase, before_device, exit>>
           /\ phase # "exit" /\ phase' = "exit" /\ ~request.help /\ before_device' =>
                phase = "catch" /\ before_device /\ exit' = 2
           /\ phase = "catch" => UNCHANGED before_device
<1> USE DEF Step, mesh, loop, dram, kernel, judged
<1>1. CASE Help \/ Close
  BY <1>1 DEF Help, Close, HostInv, BeforeInv, HelpInv, Running
<1>2. CASE ParseOptions \/ PrepareInput \/ CheckProfiler
  BY <1>2 DEF ParseOptions, PrepareInput, CheckProfiler
<1>3. CASE CreateDevice \/ Setup \/ ChangeInput \/ BindArguments \/ Upload \/ PoisonOutput
  BY <1>3 DEF CreateDevice, Setup, ChangeInput, BindArguments, Upload, PoisonOutput
<1>4. CASE Enqueue \/ Finish \/ ReadOutput \/ Compare \/ EmitResult \/ NextIteration
  BY <1>4 DEF Enqueue, Finish, ReadOutput, Compare, EmitResult, NextIteration
<1>5. CASE Catch
  BY <1>5 DEF Catch
<1>6. CASE Throw \/ CloseThrows \/ Return \/ Terminating
  BY <1>6 DEF Throw, MayThrow, CloseThrows, Return, Terminating, vars
<1>7. CASE \E r \in Row : StoreRight(r) \/ StoreWrong(r)
  BY <1>7 DEF StoreRight, StoreWrong
<1> QED
  BY <1>1, <1>2, <1>3, <1>4, <1>5, <1>6, <1>7 DEF Next, Host

\* A process that ends by itself prints no error or the one of its exception.
LEMMA HostStepKeeps ==
    ASSUME RunnerInv, HostStep
    PROVE  RunnerInv'
<1>1. HostInv'
  BY NextKeeps DEF RunnerInv, HostStep
<1>2. ErrorInv'
  <2> USE NextEnds DEF RunnerInv, HostStep, ErrorInv, ErrorLine
  <2>1. CASE phase = "catch" /\ phase' = "exit"
    <3>1. errors = << >> /\ ErrorLine' = ErrorLine
      BY <2>1
    <3>2. errors' = <<ErrorLine>>
      BY <2>1, <3>1
    <3> QED
      BY <2>1, <3>1, <3>2
  <2>2. CASE ~(phase = "catch" /\ phase' = "exit")
    BY <2>2
  <2> QED
    BY <2>1, <2>2
<1> QED
  BY <1>1, <1>2 DEF RunnerInv

\* Ended from outside, the process leaves what it had.
LEMMA CutKeeps ==
    ASSUME HostInv, Cut, phase # "exit"
    PROVE  HostInv'
<1> USE DEF HostInv, Cut, mesh, loop, dram, judged
<1>1. HostTypes'
  BY DEF HostTypes, Phase
<1>2. BeforeInv' /\ HelpInv'
  BY DEF BeforeInv, HelpInv, Refused, RejectOptions, RejectProfiler,
         Early, Running, Iterating, required_cases
<1>3. RecordsInv' /\ UploadInv'
  BY DEF RecordsInv, UploadInv, Early, Running, Iterating
<1>4. PagesInv' /\ ExitInv'
  BY DEF PagesInv, ExitInv, PassMeansStored, DeviceGivenBack
<1> QED
  BY <1>1, <1>2, <1>3, <1>4

\* A killed process and one that does not start leave no error line.
LEMMA KillKeeps ==
    ASSUME RunnerInv, NotStarted \/ Killed
    PROVE  RunnerInv'
<1>1. Cut /\ phase # "exit"
  BY DEF NotStarted, Killed
<1>2. HostInv'
  BY <1>1, CutKeeps DEF RunnerInv
<1>3. ErrorInv'
  <2> USE DEF RunnerInv, ErrorInv
  <2>1. ErrorLine' = ErrorLine /\ errors = << >> /\ phase' = "exit" /\ ending' # "none"
    BY <1>1 DEF Cut, NotStarted, Killed, ErrorLine
  <2>2. errors' = << >> \/ errors' = <<ErrorLine>>
    BY <2>1 DEF NotStarted, Killed
  <2> QED
    BY <2>1, <2>2
<1> QED
  BY <1>2, <1>3 DEF RunnerInv

\* The invariant is about what the runner has seen of the process.
LEMMA RunnerKept ==
    ASSUME RunnerInv, UNCHANGED runnerVars
    PROVE  RunnerInv'
<1>1. HostInv'
  BY HostKept DEF RunnerInv, runnerVars
<1>2. ErrorInv'
  BY DEF RunnerInv, ErrorInv, ErrorLine, runnerVars, vars
<1> QED
  BY <1>1, <1>2 DEF RunnerInv

\* The host's invariant and what its error line says hold under a runner that
\* may fail to start the process and kill it at every step.
THEOREM RejectionInvariance == RunnerSpec => []RunnerInv
<1>1. RunnerInit => RunnerInv
  BY HostInit DEF RunnerInit, RunnerInv, ErrorInv, Init
<1>2. RunnerInv /\ [RunnerNext]_runnerVars => RunnerInv'
  <2> SUFFICES ASSUME RunnerInv, [RunnerNext]_runnerVars PROVE RunnerInv'
    OBVIOUS
  <2>1. CASE HostStep
    BY <2>1, HostStepKeeps
  <2>2. CASE NotStarted \/ Killed
    BY <2>2, KillKeeps
  <2>3. CASE Over \/ UNCHANGED runnerVars
    BY <2>3, RunnerKept DEF Over
  <2> QED
    BY <2>1, <2>2, <2>3 DEF RunnerNext
<1> QED
  BY <1>1, <1>2, PTL DEF RunnerSpec

-----------------------------------------------------------------------------
\* What the runners trust

\* A passing comparison means that this launch stored every page, rightly: no
\* skipped write and no leftover of another launch or process can pass.
THEOREM PassEarned == RunnerSpec => []PassMeansStored
<1>1. RunnerInv => PassMeansStored
  BY DEF RunnerInv, HostInv, PagesInv
<1> QED
  BY <1>1, RejectionInvariance, PTL

\* Exit status 0 stands for as many passing records as repeats were asked for, in
\* order, and a closed device.
THEOREM ExitZeroEarned == RunnerSpec => []ExitZeroIsEvidence
<1>1. RunnerInv => ExitZeroIsEvidence
  BY DEF RunnerInv, HostInv, RecordsInv, ExitInv, ExitZeroIsEvidence
<1> QED
  BY <1>1, RejectionInvariance, PTL

\* A process that ends by itself has given its device back.
THEOREM DevicesGivenBack == RunnerSpec => []DeviceGivenBack
<1>1. RunnerInv => DeviceGivenBack
  BY DEF RunnerInv, HostInv, ExitInv
<1> QED
  BY <1>1, RejectionInvariance, PTL

\* A rejection that passes never touched a device, and what must be refused
\* passes unless its process was ended from outside.
THEOREM RejectionsEarned == RunnerSpec => []RejectionIsEvidence
<1>1. RunnerInv => RejectionIsEvidence
  <2> SUFFICES ASSUME RunnerInv, phase = "exit", ~request.help
               PROVE  /\ classify_rejection = "pass" =>
                           device = "none" /\ closes = 0 /\ inDram = "none" /\ records = << >>
                      /\ ending = "none"
                           /\ (RejectOptions \/ request.data = "bad" \/ RejectProfiler)
                           => classify_rejection = "pass"
    BY DEF RejectionIsEvidence
  <2>1. classify_rejection = "pass" => before_device
    BY DEF classify_rejection, RunnerInv, HostInv, ExitInv
  <2>2. before_device => device = "none" /\ closes = 0 /\ inDram = "none" /\ records = << >>
    BY DEF RunnerInv, HostInv, BeforeInv
  <2>3. ASSUME ending = "none", Refused
        PROVE  classify_rejection = "pass"
    <3>1. before_device /\ records = << >>
      BY <2>2, <2>3 DEF RunnerInv, HostInv, BeforeInv
    <3>2. exit = 2 /\ errors = <<ErrorLine>>
      BY <2>3, <3>1 DEF RunnerInv, ErrorInv
    <3>3. Len(errors) = 1 /\ errors[1] = ErrorLine
      BY <3>2
    <3> QED
      BY <2>3, <3>1, <3>2, <3>3 DEF classify_rejection, ErrorLine
  <2> QED
    BY <2>1, <2>2, <2>3 DEF Refused
<1> QED
  BY <1>1, RejectionInvariance, PTL

\* Two launches of one process never upload the same input: a kernel that reuses
\* what it read before cannot go unnoticed.
THEOREM UploadsAlternate == RunnerSpec => UploadsDiffer
<1>1. RunnerInv /\ [RunnerNext]_runnerVars =>
        [phase = "upload" /\ iteration > 0 /\ phase' = "poison" => inDram' # inDram]_vars
  <2> SUFFICES ASSUME RunnerInv, RunnerNext, phase = "upload", iteration > 0, phase' = "poison"
               PROVE  inDram' # inDram
    BY DEF runnerVars
  <2>1. HostStep
    BY DEF RunnerNext, NotStarted, Killed, Over, Cut, runnerVars, vars
  <2>2. Upload
    BY <2>1 DEF HostStep, Next, Host, Step, Help, ParseOptions, PrepareInput, CheckProfiler,
       CreateDevice, Setup, ChangeInput, BindArguments, PoisonOutput, Enqueue, Finish,
       ReadOutput, Compare, EmitResult, NextIteration, Close, Catch, Throw, CloseThrows,
       Return, StoreRight, StoreWrong, Terminating, vars
  <2> QED
    BY <2>2 DEF Upload, RunnerInv, HostInv, UploadInv
<1> QED
  BY <1>1, RejectionInvariance, PTL DEF RunnerSpec, UploadsDiffer

=============================================================================
