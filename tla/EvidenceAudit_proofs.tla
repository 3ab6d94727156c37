------------------------ MODULE EvidenceAudit_proofs ------------------------
(***************************************************************************)
(* Kept evidence and complete summaries of EvidenceRunner, and what an     *)
(* audit of them is worth (EvidenceAudit): for every set of runs and       *)
(* directories, any number of cases, edits and failures, with runs that    *)
(* overlap and are interrupted anywhere and audits made at any time.       *)
(***************************************************************************)
EXTENDS EvidenceAudit, TLAPS

-----------------------------------------------------------------------------
\* The inductive invariant

Label ==
    {"idle", "checkRaw", "makeDir", "hashTree", "preflight", "unsupported",
     "environment", "open", "case", "running", "rehash", "summary", "end",
     "interrupted"}

Says == [state : {"pass", "fail", "unsupported"}, run : Run, complete : BOOLEAN]

Types ==
    /\ tree \in Nat /\ binary \in Nat
    /\ author \in [Dir -> [File -> Run \cup {Nobody}]]
    /\ summary \in [Dir -> {Absent} \cup Says]
    /\ alive \subseteq Run
    /\ pc \in [Run -> Label]
    /\ output \in [Run -> Dir]
    /\ seen \in [Run -> [tree : Nat, binary : Int]]
    /\ executed \in [Run -> BOOLEAN]
    /\ statuses \in [Run -> Seq({"pass", "fail"})]
    /\ unchanged \in [Run -> BOOLEAN]
    /\ late \subseteq Run

\* A run has written nothing before its first write.
Fresh(r) ==
    pc[r] \in {"idle", "checkRaw", "makeDir", "hashTree", "preflight", "unsupported",
               "environment"}

FreshInv == \A r \in Run, d \in Dir, f \in File : Fresh(r) => author[d][f] # r

\* Every file is in a directory, and records are not there without their
\* environment.
AuthorInv ==
    /\ \A d \in Dir, f \in File : author[d][f] # Nobody => d \in made
    /\ \A d \in Dir : author[d]["rejections.jsonl"] # Nobody
                        => author[d]["environment.json"] # Nobody

\* A run writes in a directory that is there, and opens records after it has
\* written the environment.
FilesInv ==
    /\ AuthorInv
    /\ \A r \in Run : pc[r] # "idle" /\ pc[r] # "makeDir" /\ pc[r] # "end"
                        => output[r] \in made
    /\ \A r \in Run : pc[r] \in {"open", "case", "running", "rehash", "summary"}
                        => author[output[r]]["environment.json"] # Nobody

\* A run that found evidence is over, or is about to find the raw logs.
LateInv ==
    /\ EarlierKept
    /\ \A r \in late : pc[r] = "end" \/ (pc[r] = "checkRaw" /\ Exists(r, "raw"))
    /\ \A r \in alive : pc[r] \in {"running", "interrupted"}

\* Contents only grow, so what differed once differs from then on.
HashInv ==
    \A r \in Run :
        /\ seen[r].tree <= tree /\ seen[r].binary <= binary
        /\ ~executed[r] => seen[r].tree < tree \/ seen[r].binary < binary
        /\ pc[r] = "rehash" /\ unchanged[r] /\ ~executed[r] => seen[r].binary < binary
        /\ pc[r] = "summary" /\ unchanged[r] => executed[r]
        /\ pc[r] \in {"rehash", "summary"} => Len(statuses[r]) = Selected(r)

\* A run whose hashes are still to be taken has executed nothing.
UnstartedInv ==
    \A r \in Run :
        pc[r] \in {"idle", "checkRaw", "makeDir", "hashTree", "preflight"} => executed[r]

\* What a complete summary says was so when it was written and its run is over.
Earned(r) ==
    /\ pc[r] = "end"
    /\ plan[r] \in {AllCases, RejectionCases}
    /\ Len(statuses[r]) = Selected(r)
    /\ \A i \in 1 .. Selected(r) : statuses[r][i] = "pass"
    /\ executed[r]

SummaryInv ==
    \A d \in Dir : summary[d] # Absent /\ summary[d].complete => Earned(summary[d].run)

RunnerInv ==
    Types /\ FreshInv /\ FilesInv /\ LateInv /\ HashInv /\ UnstartedInv /\ SummaryInv

-----------------------------------------------------------------------------
\* No run has done anything at the start.
LEMMA RunnerInit == Init => RunnerInv
<1> SUFFICES ASSUME Init PROVE RunnerInv
  OBVIOUS
<1> USE NobodyAssumption DEF Init, RunnerInv, Unhashed
<1>1. Types
  BY DEF Types, Label, Absent
<1>2. FreshInv /\ FilesInv /\ LateInv /\ UnstartedInv
  BY <1>1 DEF Types, FreshInv, Fresh, FilesInv, AuthorInv, LateInv, EarlierKept,
         UnstartedInv, File
<1>3. HashInv /\ SummaryInv
  BY DEF HashInv, SummaryInv
<1> QED BY <1>1, <1>2, <1>3

\* What a run writes, it writes in its own directory under its own name: where
\* it is not late, all that is said of authors stays true.
LEMMA WriteKeeps ==
    ASSUME Types, FreshInv, FilesInv, LateInv, NEW r \in Run, NEW fs \in SUBSET File,
           Write(r, fs), UNCHANGED <<made, late>>,
           r \notin late, ~Fresh(r)', output[r] \in made,
           fs \cap {"rejections.jsonl", "environment.json"} # {"rejections.jsonl"}
             \/ author[output[r]]["environment.json"] # Nobody,
           \A q \in Run \ {r} : pc'[q] = pc[q]
    PROVE  /\ author' \in [Dir -> [File -> Run \cup {Nobody}]]
           /\ \A d \in Dir, f \in File : author[d][f] # Nobody => author'[d][f] # Nobody
           /\ \A f \in fs : author'[output[r]][f] = r
           /\ FreshInv' /\ AuthorInv' /\ EarlierKept'
<1> USE NobodyAssumption
<1>1. /\ author' \in [Dir -> [File -> Run \cup {Nobody}]]
      /\ \A d \in Dir, f \in File :
           author'[d][f] = IF d = output[r] /\ f \in fs THEN r ELSE author[d][f]
  BY DEF Types, Write
<1>2. \A f \in fs : author'[output[r]][f] = r
  BY <1>1 DEF Types
<1>3. FreshInv'
  BY <1>1 DEF FreshInv, Fresh
<1>4. AuthorInv'
  <2>1. \A d \in Dir, f \in File : author'[d][f] # Nobody => d \in made'
    BY <1>1 DEF FilesInv, AuthorInv
  <2>2. \A d \in Dir : author'[d]["rejections.jsonl"] # Nobody
                          => author'[d]["environment.json"] # Nobody
    BY <1>1 DEF FilesInv, AuthorInv, File
  <2> QED BY <2>1, <2>2 DEF AuthorInv
<1>5. EarlierKept'
  <2> SUFFICES ASSUME NEW q \in late', NEW d \in Dir, NEW f \in File
               PROVE  author'[d][f] # q
    BY DEF EarlierKept
  <2>1. q \in late /\ q # r /\ author[d][f] # q
    BY DEF LateInv, EarlierKept
  <2> QED BY <1>1, <2>1
<1> QED BY <1>1, <1>2, <1>3, <1>4, <1>5

\* A step of run r, which is not over, that completes no summary.
StepOf(r) ==
    /\ pc[r] # "end"
    /\ \A d \in Dir :
          summary'[d] = summary[d] \/ (summary'[d] # Absent /\ ~summary'[d].complete)
    /\ UNCHANGED plan
    /\ \A q \in Run \ {r} :
          pc'[q] = pc[q] /\ statuses'[q] = statuses[q] /\ executed'[q] = executed[q]

\* Summaries of other runs stay true while run r is at work.
LEMMA SummaryKept ==
    ASSUME Types, SummaryInv, NEW r \in Run, StepOf(r) PROVE SummaryInv'
<1> USE DEF StepOf
<1> SUFFICES ASSUME NEW d \in Dir, summary'[d] # Absent, summary'[d].complete
             PROVE  Earned(summary[d].run)'
  BY DEF SummaryInv
<1>1. /\ summary'[d] = summary[d] /\ summary[d] # Absent
      /\ Earned(summary[d].run)
  BY DEF SummaryInv
<1>2. summary[d].run \in Run \ {r}
  BY <1>1 DEF Types, Says, Earned
<1> QED BY <1>1, <1>2 DEF Earned, Selected

\* A run looks for evidence and finds it, or none but raw logs, or none.
LEMMA StartStep == ASSUME RunnerInv, NEW r \in Run, Start(r) PROVE RunnerInv'
<1> USE NobodyAssumption DEF RunnerInv, Start, Goto, world, files, contents, run, history
<1>1. Types'
  BY DEF Types, Label
<1>2. FreshInv'
  BY DEF Types, FreshInv, Fresh
<1>3. FilesInv'
  BY DEF Types, FilesInv, AuthorInv
<1>4. LateInv'
  BY DEF Types, LateInv, EarlierKept, FreshInv, Fresh, FilesInv, AuthorInv, HasEvidence,
         Exists, File, Turn
<1>5. HashInv'
  BY DEF Types, HashInv, UnstartedInv, Selected
<1>6. UnstartedInv'
  BY DEF Types, UnstartedInv
<1>7. SummaryInv'
  <2>1. StepOf(r)
    BY DEF Types, StepOf
  <2> QED BY <2>1, SummaryKept
<1> QED BY <1>1, <1>2, <1>3, <1>4, <1>5, <1>6, <1>7

\* A directory with files in it is one that is there.
LEMMA StartRejectionsStep ==
    ASSUME RunnerInv, NEW r \in Run, StartRejections(r) PROVE RunnerInv'
<1> USE NobodyAssumption DEF RunnerInv, StartRejections, Goto, world, files, contents, run,
            history
<1>1. Types'
  BY DEF Types, Label
<1>2. FreshInv'
  BY DEF Types, FreshInv, Fresh
<1>3. FilesInv'
  BY DEF Types, FilesInv, AuthorInv
<1>4. LateInv'
  BY DEF Types, LateInv, EarlierKept, FreshInv, Fresh, FilesInv, AuthorInv, Exists, Turn
<1>5. HashInv'
  BY DEF Types, HashInv, UnstartedInv, Selected
<1>6. UnstartedInv'
  BY DEF Types, UnstartedInv
<1>7. SummaryInv'
  <2>1. StepOf(r)
    BY DEF Types, StepOf
  <2> QED BY <2>1, SummaryKept
<1> QED BY <1>1, <1>2, <1>3, <1>4, <1>5, <1>6, <1>7

\* Making a directory writes no file.
LEMMA MakeDirStep == ASSUME RunnerInv, NEW r \in Run, MakeDir(r) PROVE RunnerInv'
<1> USE NobodyAssumption DEF RunnerInv, MakeDir, Goto, world, files, contents, run, history
<1>1. Types'
  BY DEF Types, Label
<1>2. FreshInv'
  BY DEF Types, FreshInv, Fresh
<1>3. FilesInv'
  BY DEF Types, FilesInv, AuthorInv
<1>4. LateInv'
  BY DEF Types, LateInv, EarlierKept, Exists
<1>5. HashInv'
  BY DEF Types, HashInv, UnstartedInv, Selected
<1>6. UnstartedInv'
  BY DEF Types, UnstartedInv
<1>7. SummaryInv'
  <2>1. StepOf(r)
    BY DEF Types, StepOf
  <2> QED BY <2>1, SummaryKept
<1> QED BY <1>1, <1>2, <1>3, <1>4, <1>5, <1>6, <1>7

\* A run that has found evidence ends here at the latest.
LEMMA CheckRawStep == ASSUME RunnerInv, NEW r \in Run, CheckRaw(r) PROVE RunnerInv'
<1> USE NobodyAssumption DEF RunnerInv, CheckRaw, Goto, world, files, contents, run, history
<1>1. Types'
  BY DEF Types, Label
<1>2. FreshInv'
  BY DEF Types, FreshInv, Fresh
<1>3. FilesInv'
  BY DEF Types, FilesInv, AuthorInv
<1>4. LateInv'
  BY DEF Types, LateInv, EarlierKept, Exists
<1>5. HashInv'
  BY DEF Types, HashInv, UnstartedInv, Selected
<1>6. UnstartedInv'
  BY DEF Types, UnstartedInv
<1>7. SummaryInv'
  <2>1. StepOf(r)
    BY DEF Types, StepOf
  <2> QED BY <2>1, SummaryKept
<1> QED BY <1>1, <1>2, <1>3, <1>4, <1>5, <1>6, <1>7

\* What is hashed is what is there.
LEMMA HashTreeStep == ASSUME RunnerInv, NEW r \in Run, HashTree(r) PROVE RunnerInv'
<1> USE NobodyAssumption DEF RunnerInv, HashTree, Goto, world, files, contents, run, history
<1>1. Types'
  BY DEF Types, Label
<1>2. FreshInv'
  BY DEF Types, FreshInv, Fresh
<1>3. FilesInv'
  BY DEF Types, FilesInv, AuthorInv
<1>4. LateInv'
  BY DEF Types, LateInv, EarlierKept, Exists
<1>5. HashInv'
  BY DEF Types, HashInv, UnstartedInv, Selected
<1>6. UnstartedInv'
  BY DEF Types, UnstartedInv
<1>7. SummaryInv'
  <2>1. StepOf(r)
    BY DEF Types, StepOf
  <2> QED BY <2>1, SummaryKept
<1> QED BY <1>1, <1>2, <1>3, <1>4, <1>5, <1>6, <1>7

\* The same, of the binary.
LEMMA PreflightStep == ASSUME RunnerInv, NEW r \in Run, Preflight(r) PROVE RunnerInv'
<1> USE NobodyAssumption DEF RunnerInv, Preflight, Goto, world, files, contents, run, history
<1>a. /\ seen' \in [Run -> [tree : Nat, binary : Int]]
      /\ pc' \in [Run -> Label]
      /\ seen'[r].tree = seen[r].tree
      /\ seen'[r].binary \in {seen[r].binary, binary}
      /\ pc'[r] \in {"environment", "unsupported"}
      /\ \A q \in Run \ {r} : seen'[q] = seen[q] /\ pc'[q] = pc[q]
  <2>1. CASE /\ pc' = [pc EXCEPT ![r] = "environment"]
             /\ seen' = [seen EXCEPT ![r].binary = binary]
    <3>1. seen[r] \in [tree : Nat, binary : Int] /\ binary \in Int
      BY DEF Types
    <3>2. seen'[r] = [tree |-> seen[r].tree, binary |-> binary]
      BY <2>1, <3>1 DEF Types
    <3>3. seen' \in [Run -> [tree : Nat, binary : Int]]
      BY <2>1, <3>1, <3>2 DEF Types
    <3> QED BY <2>1, <3>2, <3>3 DEF Types, Label
  <2>2. CASE pc' = [pc EXCEPT ![r] = "unsupported"] /\ seen' = seen
    BY <2>2 DEF Types, Label
  <2> QED BY <2>1, <2>2
<1>1. Types'
  BY <1>a DEF Types, Label
<1>2. FreshInv'
  BY DEF Types, FreshInv, Fresh
<1>3. FilesInv'
  BY DEF Types, FilesInv, AuthorInv
<1>4. LateInv'
  BY DEF Types, LateInv, EarlierKept, Exists
<1>5. HashInv'
  BY <1>a DEF Types, HashInv, UnstartedInv, Selected
<1>6. UnstartedInv'
  BY DEF Types, UnstartedInv
<1>7. SummaryInv'
  <2>1. StepOf(r)
    BY DEF Types, StepOf
  <2> QED BY <2>1, SummaryKept
<1> QED BY <1>1, <1>2, <1>3, <1>4, <1>5, <1>6, <1>7

\* The first files of a run that stops, which was not late.
LEMMA UnsupportedStep == ASSUME RunnerInv, NEW r \in Run, Unsupported(r) PROVE RunnerInv'
<1> USE NobodyAssumption DEF RunnerInv, Unsupported, Goto, world, files, contents, run, history
<1>a. /\ r \notin late /\ output[r] \in made /\ ~Fresh(r)'
      /\ \A q \in Run \ {r} : pc'[q] = pc[q]
  BY DEF Types, LateInv, FilesInv, Fresh
<1>b. /\ {"environment.json", "summary.json"} \subseteq File
      /\ \/ {"environment.json", "summary.json"}
              \cap {"rejections.jsonl", "environment.json"} # {"rejections.jsonl"}
         \/ author[output[r]]["environment.json"] # Nobody
  BY DEF File, FilesInv
<1>c. /\ author' \in [Dir -> [File -> Run \cup {Nobody}]]
      /\ \A d \in Dir, f \in File : author[d][f] # Nobody => author'[d][f] # Nobody
      /\ \A f \in {"environment.json", "summary.json"} : author'[output[r]][f] = r
      /\ FreshInv' /\ AuthorInv' /\ EarlierKept'
  BY <1>a, <1>b, WriteKeeps
<1>d. summary' \in [Dir -> {Absent} \cup Says]
  BY DEF Types, Says, Absent
<1>1. Types'
  BY <1>c, <1>d DEF Types, Label
<1>2. FreshInv'
  BY <1>c
<1>3. FilesInv'
  BY <1>c DEF Types, FilesInv, File
<1>4. LateInv'
  BY <1>a, <1>c DEF Types, LateInv, Exists, File
<1>5. HashInv'
  BY DEF Types, HashInv, UnstartedInv, Selected
<1>6. UnstartedInv'
  BY DEF Types, UnstartedInv
<1>7. SummaryInv'
  <2>1. StepOf(r)
    BY DEF Types, StepOf, Absent
  <2> QED BY <2>1, SummaryKept
<1> QED BY <1>1, <1>2, <1>3, <1>4, <1>5, <1>6, <1>7

\* The first file of a run, which was not late.
LEMMA WriteEnvironmentStep ==
    ASSUME RunnerInv, NEW r \in Run, WriteEnvironment(r) PROVE RunnerInv'
<1> USE NobodyAssumption DEF RunnerInv, WriteEnvironment, Goto, world, files, contents, run,
            history
<1>a. /\ r \notin late /\ output[r] \in made /\ ~Fresh(r)'
      /\ \A q \in Run \ {r} : pc'[q] = pc[q]
  BY DEF Types, LateInv, FilesInv, Fresh
<1>b. /\ {"environment.json"} \subseteq File
      /\ \/ {"environment.json"}
              \cap {"rejections.jsonl", "environment.json"} # {"rejections.jsonl"}
         \/ author[output[r]]["environment.json"] # Nobody
  BY DEF File, FilesInv
<1>c. /\ author' \in [Dir -> [File -> Run \cup {Nobody}]]
      /\ \A d \in Dir, f \in File : author[d][f] # Nobody => author'[d][f] # Nobody
      /\ \A f \in {"environment.json"} : author'[output[r]][f] = r
      /\ FreshInv' /\ AuthorInv' /\ EarlierKept'
  BY <1>a, <1>b, WriteKeeps
<1>1. Types'
  BY <1>c DEF Types, Label
<1>2. FreshInv'
  BY <1>c
<1>3. FilesInv'
  BY <1>c DEF Types, FilesInv, File
<1>4. LateInv'
  BY <1>a, <1>c DEF Types, LateInv, Exists, File
<1>5. HashInv'
  BY DEF Types, HashInv, UnstartedInv, Selected
<1>6. UnstartedInv'
  BY DEF Types, UnstartedInv
<1>7. SummaryInv'
  <2>1. StepOf(r)
    BY DEF Types, StepOf
  <2> QED BY <2>1, SummaryKept
<1> QED BY <1>1, <1>2, <1>3, <1>4, <1>5, <1>6, <1>7

\* Records are opened where their environment is.
LEMMA OpenRecordsStep == ASSUME RunnerInv, NEW r \in Run, OpenRecords(r) PROVE RunnerInv'
<1> USE NobodyAssumption DEF RunnerInv, OpenRecords, Goto, world, files, contents, run, history
<1>a. /\ r \notin late /\ output[r] \in made /\ ~Fresh(r)'
      /\ \A q \in Run \ {r} : pc'[q] = pc[q]
  BY DEF Types, LateInv, FilesInv, Fresh
<1>b. /\ {Records(r)} \subseteq File
      /\ \/ {Records(r)} \cap {"rejections.jsonl", "environment.json"} # {"rejections.jsonl"}
         \/ author[output[r]]["environment.json"] # Nobody
  BY DEF File, FilesInv, Records
<1>c. /\ author' \in [Dir -> [File -> Run \cup {Nobody}]]
      /\ \A d \in Dir, f \in File : author[d][f] # Nobody => author'[d][f] # Nobody
      /\ \A f \in {Records(r)} : author'[output[r]][f] = r
      /\ FreshInv' /\ AuthorInv' /\ EarlierKept'
  BY <1>a, <1>b, WriteKeeps
<1>1. Types'
  BY <1>c DEF Types, Label
<1>2. FreshInv'
  BY <1>c
<1>3. FilesInv'
  BY <1>c DEF Types, FilesInv, File
<1>4. LateInv'
  BY <1>a, <1>c DEF Types, LateInv, Exists, File
<1>5. HashInv'
  BY DEF Types, HashInv, UnstartedInv, Selected
<1>6. UnstartedInv'
  BY DEF Types, UnstartedInv
<1>7. SummaryInv'
  <2>1. StepOf(r)
    BY DEF Types, StepOf
  <2> QED BY <2>1, SummaryKept
<1> QED BY <1>1, <1>2, <1>3, <1>4, <1>5, <1>6, <1>7

\* A case that starts with other contents than the hashed ones is remembered.
LEMMA StartCaseStep == ASSUME RunnerInv, NEW r \in Run, StartCase(r) PROVE RunnerInv'
<1> USE NobodyAssumption DEF RunnerInv, StartCase, Goto, world, files, contents, run, history
<1>a. /\ r \notin late /\ output[r] \in made /\ ~Fresh(r)'
      /\ \A q \in Run \ {r} : pc'[q] = pc[q]
  BY DEF Types, LateInv, FilesInv, Fresh
<1>b. /\ {"raw"} \subseteq File
      /\ \/ {"raw"} \cap {"rejections.jsonl", "environment.json"} # {"rejections.jsonl"}
         \/ author[output[r]]["environment.json"] # Nobody
  BY DEF File, FilesInv
<1>c. /\ author' \in [Dir -> [File -> Run \cup {Nobody}]]
      /\ \A d \in Dir, f \in File : author[d][f] # Nobody => author'[d][f] # Nobody
      /\ \A f \in {"raw"} : author'[output[r]][f] = r
      /\ FreshInv' /\ AuthorInv' /\ EarlierKept'
  BY <1>a, <1>b, WriteKeeps
<1>1. Types'
  BY <1>c DEF Types, Label
<1>2. FreshInv'
  BY <1>c
<1>3. FilesInv'
  BY <1>c DEF Types, FilesInv, File
<1>4. LateInv'
  BY <1>a, <1>c DEF Types, LateInv, Exists, File
<1>5. HashInv'
  BY DEF Types, HashInv, UnstartedInv, Selected
<1>6. UnstartedInv'
  BY DEF Types, UnstartedInv
<1>7. SummaryInv'
  <2>1. StepOf(r)
    BY DEF Types, StepOf
  <2> QED BY <2>1, SummaryKept
<1> QED BY <1>1, <1>2, <1>3, <1>4, <1>5, <1>6, <1>7

\* A record is written where its environment is.
LEMMA EndCaseStep == ASSUME RunnerInv, NEW r \in Run, EndCase(r) PROVE RunnerInv'
<1> USE NobodyAssumption DEF RunnerInv, EndCase, Goto, world, files, contents, run, history
<1>a. /\ r \notin late /\ output[r] \in made /\ ~Fresh(r)'
      /\ \A q \in Run \ {r} : pc'[q] = pc[q]
  BY DEF Types, LateInv, FilesInv, Fresh
<1>b. /\ {Records(r)} \subseteq File
      /\ \/ {Records(r)} \cap {"rejections.jsonl", "environment.json"} # {"rejections.jsonl"}
         \/ author[output[r]]["environment.json"] # Nobody
  BY DEF File, FilesInv, Records
<1>c. /\ author' \in [Dir -> [File -> Run \cup {Nobody}]]
      /\ \A d \in Dir, f \in File : author[d][f] # Nobody => author'[d][f] # Nobody
      /\ \A f \in {Records(r)} : author'[output[r]][f] = r
      /\ FreshInv' /\ AuthorInv' /\ EarlierKept'
  BY <1>a, <1>b, WriteKeeps
<1>1. Types'
  BY <1>c DEF Types, Label
<1>2. FreshInv'
  BY <1>c
<1>3. FilesInv'
  BY <1>c DEF Types, FilesInv, File
<1>4. LateInv'
  BY <1>a, <1>c DEF Types, LateInv, Exists, File
<1>5. HashInv'
  BY DEF Types, HashInv, UnstartedInv, Selected
<1>6. UnstartedInv'
  BY DEF Types, UnstartedInv
<1>7. SummaryInv'
  <2>1. StepOf(r)
    BY DEF Types, StepOf
  <2> QED BY <2>1, SummaryKept
<1> QED BY <1>1, <1>2, <1>3, <1>4, <1>5, <1>6, <1>7

\* The tree is as it was hashed, or the run cannot pass.
LEMMA RehashStep == ASSUME RunnerInv, NEW r \in Run, Rehash(r) PROVE RunnerInv'
<1> USE NobodyAssumption DEF RunnerInv, Rehash, Goto, world, files, contents, run, history
<1>1. Types'
  BY DEF Types, Label
<1>2. FreshInv'
  BY DEF Types, FreshInv, Fresh
<1>3. FilesInv'
  BY DEF Types, FilesInv, AuthorInv
<1>4. LateInv'
  BY DEF Types, LateInv, EarlierKept, Exists
<1>5. HashInv'
  BY DEF Types, HashInv, UnstartedInv, Selected
<1>6. UnstartedInv'
  BY DEF Types, UnstartedInv
<1>7. SummaryInv'
  <2>1. StepOf(r)
    BY DEF Types, StepOf
  <2> QED BY <2>1, SummaryKept
<1> QED BY <1>1, <1>2, <1>3, <1>4, <1>5, <1>6, <1>7

\* The binary is as it was hashed, or the run cannot pass.
LEMMA RehashBinaryStep == ASSUME RunnerInv, NEW r \in Run, RehashBinary(r) PROVE RunnerInv'
<1> USE NobodyAssumption DEF RunnerInv, RehashBinary, Goto, world, files, contents, run,
            history
<1>1. Types'
  BY DEF Types, Label
<1>2. FreshInv'
  BY DEF Types, FreshInv, Fresh
<1>3. FilesInv'
  BY DEF Types, FilesInv, AuthorInv
<1>4. LateInv'
  BY DEF Types, LateInv, EarlierKept, Exists
<1>5. HashInv'
  BY DEF Types, HashInv, UnstartedInv, Selected
<1>6. UnstartedInv'
  BY DEF Types, UnstartedInv
<1>7. SummaryInv'
  <2>1. StepOf(r)
    BY DEF Types, StepOf
  <2> QED BY <2>1, SummaryKept
<1> QED BY <1>1, <1>2, <1>3, <1>4, <1>5, <1>6, <1>7

\* What a complete summary says, its run has just established.
LEMMA WriteSummaryStep == ASSUME RunnerInv, NEW r \in Run, WriteSummary(r) PROVE RunnerInv'
<1> USE NobodyAssumption DEF RunnerInv, WriteSummary, Goto, world, files, contents, run,
            history
<1>a. /\ r \notin late /\ output[r] \in made /\ ~Fresh(r)'
      /\ \A q \in Run \ {r} : pc'[q] = pc[q]
  BY DEF Types, LateInv, FilesInv, Fresh
<1>b. /\ {"summary.json"} \subseteq File
      /\ \/ {"summary.json"}
              \cap {"rejections.jsonl", "environment.json"} # {"rejections.jsonl"}
         \/ author[output[r]]["environment.json"] # Nobody
  BY DEF File, FilesInv
<1>c. /\ author' \in [Dir -> [File -> Run \cup {Nobody}]]
      /\ \A d \in Dir, f \in File : author[d][f] # Nobody => author'[d][f] # Nobody
      /\ \A f \in {"summary.json"} : author'[output[r]][f] = r
      /\ FreshInv' /\ AuthorInv' /\ EarlierKept'
  BY <1>a, <1>b, WriteKeeps
<1>d. summary' \in [Dir -> {Absent} \cup Says]
  BY DEF Types, Says, Absent, Summary, Complete, AllPass
<1>e. /\ summary'[output[r]].run = r
      /\ summary'[output[r]].complete => Earned(r)'
  BY DEF Types, HashInv, Earned, Selected, Summary, Complete, AllPass, Rejecting
<1>f. /\ \A d \in Dir \ {output[r]} : summary'[d] = summary[d]
      /\ \A q \in Run \ {r} : pc'[q] = pc[q]
      /\ pc[r] # "end"
  BY DEF Types, Selected
<1>1. Types'
  BY <1>c, <1>d DEF Types, Label
<1>2. FreshInv'
  BY <1>c
<1>3. FilesInv'
  BY <1>c DEF Types, FilesInv, File
<1>4. LateInv'
  BY <1>a, <1>c DEF Types, LateInv, Exists, File
<1>5. HashInv'
  BY DEF Types, HashInv, UnstartedInv, Selected
<1>6. UnstartedInv'
  BY DEF Types, UnstartedInv
<1>7. SummaryInv'
  BY <1>e, <1>f DEF Types, SummaryInv, Says, Earned, Selected
<1> QED BY <1>1, <1>2, <1>3, <1>4, <1>5, <1>6, <1>7

\* A run that is stopped says nothing more.
LEMMA InterruptStep == ASSUME RunnerInv, NEW r \in Run, Interrupt(r) PROVE RunnerInv'
<1> USE NobodyAssumption DEF RunnerInv, Interrupt, Goto, world, files, contents, run, history
<1>1. Types'
  BY DEF Types, Label
<1>2. FreshInv'
  BY DEF Types, FreshInv, Fresh
<1>3. FilesInv'
  BY DEF Types, FilesInv, AuthorInv, LateInv, Over
<1>4. LateInv'
  BY DEF Types, LateInv, EarlierKept, Over, Exists
<1>5. HashInv'
  BY DEF Types, HashInv, UnstartedInv, Selected
<1>6. UnstartedInv'
  BY DEF Types, UnstartedInv
<1>7. SummaryInv'
  <2>1. StepOf(r)
    BY DEF Types, StepOf, Over
  <2> QED BY <2>1, SummaryKept
<1> QED BY <1>1, <1>2, <1>3, <1>4, <1>5, <1>6, <1>7

\* Nor does what it left running.
LEMMA OrphanEndsStep == ASSUME RunnerInv, NEW r \in Run, OrphanEnds(r) PROVE RunnerInv'
<1> USE NobodyAssumption DEF RunnerInv, OrphanEnds, Goto, world, files, contents, run, history
<1>1. Types'
  BY DEF Types, Label
<1>2. FreshInv'
  BY DEF Types, FreshInv, Fresh
<1>3. FilesInv'
  BY DEF Types, FilesInv, AuthorInv
<1>4. LateInv'
  BY DEF Types, LateInv, EarlierKept, Exists
<1>5. HashInv'
  BY DEF Types, HashInv, UnstartedInv, Selected
<1>6. UnstartedInv'
  BY DEF Types, UnstartedInv
<1>7. SummaryInv'
  <2>1. StepOf(r)
    BY DEF Types, StepOf
  <2> QED BY <2>1, SummaryKept
<1> QED BY <1>1, <1>2, <1>3, <1>4, <1>5, <1>6, <1>7

\* Nothing that is read and remembered is read again, whatever else is edited.
LEMMA EditStep == ASSUME RunnerInv, Edit \/ Rebuild PROVE RunnerInv'
<1> USE DEF RunnerInv, Edit, Rebuild, files, contents, run, history
<1>1. Types'
  BY DEF Types
<1>2. FreshInv' /\ FilesInv' /\ LateInv' /\ UnstartedInv' /\ SummaryInv'
  BY DEF FreshInv, Fresh, FilesInv, AuthorInv, LateInv, EarlierKept, Exists,
         UnstartedInv, SummaryInv, Earned, Selected
<1>3. HashInv'
  BY DEF Types, HashInv, Selected
<1> QED BY <1>1, <1>2, <1>3

\* Nor does anything change when nothing does.
LEMMA RunnerStutter == ASSUME RunnerInv, UNCHANGED vars PROVE RunnerInv'
BY DEF vars, world, files, contents, run, history, RunnerInv, Types, FreshInv, Fresh,
       FilesInv, AuthorInv, LateInv, EarlierKept, Exists, HashInv, UnstartedInv,
       SummaryInv, Earned, Selected

\* The runs' part of the invariant, step by step.
LEMMA RunnerKeeps == ASSUME RunnerInv, [Next]_vars PROVE RunnerInv'
<1>1. ASSUME NEW r \in Run, Work(r) PROVE RunnerInv'
  BY <1>1, StartStep, StartRejectionsStep, MakeDirStep, CheckRawStep, HashTreeStep,
     PreflightStep, UnsupportedStep, WriteEnvironmentStep, OpenRecordsStep,
     StartCaseStep, EndCaseStep, RehashStep, RehashBinaryStep, WriteSummaryStep
     DEF Work
<1>2. ASSUME NEW r \in Run, Interrupt(r) \/ OrphanEnds(r) PROVE RunnerInv'
  BY <1>2, InterruptStep, OrphanEndsStep
<1>3. CASE Edit \/ Rebuild
  BY <1>3, EditStep
<1>4. CASE Terminating \/ UNCHANGED vars
  BY <1>4, RunnerStutter DEF Terminating
<1> QED BY <1>1, <1>2, <1>3, <1>4 DEF Next

\* The invariant holds in every state of every set of runs.
THEOREM RunnerInvariance == Spec => []RunnerInv
<1>1. RunnerInv /\ [Next]_vars => RunnerInv'
  BY RunnerKeeps
<1> QED BY <1>1, RunnerInit, PTL DEF Spec

-----------------------------------------------------------------------------
\* "The runners refuse to replace earlier records": evidence that a run finds is
\* as it was, whoever else is at work and whatever stopped the run that left it.
THEOREM EarlierEvidenceKept == Spec => []EarlierKept
<1>1. RunnerInv => EarlierKept
  BY DEF RunnerInv, LateInv
<1> QED BY <1>1, RunnerInvariance, PTL

\* "A partial run cannot be labelled a complete matrix", nor one that failed a
\* case or ran another binary, or built other kernels, than the ones it names.
THEOREM CompleteSummaries == Spec => []CompleteIsComplete
<1>1. RunnerInv => CompleteIsComplete
  BY DEF RunnerInv, SummaryInv, Earned, CompleteIsComplete
<1> QED BY <1>1, RunnerInvariance, PTL

-----------------------------------------------------------------------------
\* The invariant of a directory that nobody has interfered with

\* The variables that only the audit reads, and what a run has recorded.
RecordTypes ==
    /\ plan \in [Run -> Plans]
    /\ records \in [Dir -> Seq(Run \cup {Nobody})]
    /\ logs \in [Dir -> [0 .. Matrix -> SUBSET Run]]
    /\ digests \in [Run -> Seq(SUBSET Run)]
    /\ spoilt \in BOOLEAN

Recording(r) == pc[r] \in {"case", "running", "rehash", "summary"}

\* A run records a status and a hash for each case, from the first to the last,
\* and has taken its own hashes before.
ProgressInv ==
    \A r \in Run :
        /\ Fresh(r) \/ pc[r] = "open" => statuses[r] = << >> /\ digests[r] = << >>
        /\ Recording(r) => Len(digests[r]) = Len(statuses[r])
        /\ Recording(r) => Len(statuses[r]) <= Selected(r)
        /\ pc[r] = "running" => Len(statuses[r]) < Selected(r)
        /\ Recording(r) \/ pc[r] \in {"environment", "open"} => seen[r].binary # Unhashed

\* What summary.json says is the last word of its run, and only a run that
\* passes is complete.
SaidInv ==
    \A d \in Dir : summary[d] # Absent =>
        LET r == summary[d].run IN
        /\ pc[r] = "end" /\ output[r] = d
        /\ summary[d].complete =>
             /\ summary[d].state = "pass"
             /\ Len(digests[r]) = Len(statuses[r])
             /\ seen[r].binary # Unhashed

\* The records and logs of a directory are those of run r.
Kept(r) ==
    LET d == output[r] IN
    /\ author[d]["simulator.jsonl"] = r
    /\ records[d] = [i \in 1 .. Len(statuses[r]) |-> r]
    /\ \A i \in 1 .. Len(digests[r]) : logs[d][plan[r][i]] = digests[r][i]

\* While no run replaces a file of another, a directory is that of the run that
\* wrote its environment, and holds what that run has recorded.
SoleInv ==
    ~spoilt =>
        /\ \A r \in Run : Recording(r) \/ pc[r] \in {"open", "interrupted"}
             => author[output[r]]["environment.json"] = r
        /\ \A d \in Dir : summary[d] # Absent
             => author[d]["environment.json"] = summary[d].run
        /\ \A r \in Run : Recording(r) /\ ~Rejecting(r) => Kept(r)
        /\ \A d \in Dir : summary[d] # Absent /\ summary[d].complete
             => Rejecting(summary[d].run) \/ Kept(summary[d].run)

RecordsInv == RecordTypes /\ ProgressInv /\ SaidInv /\ SoleInv

\* Run r has filled the audited directory and nobody is at work there.
Settled(r) ==
    /\ summary[Audited] # Absent /\ summary[Audited].complete /\ summary[Audited].run = r
    /\ plan[r] = AllCases
    /\ output[r] = Audited /\ Audited \in made
    /\ author[Audited]["environment.json"] = r
    /\ Kept(r)
    /\ \A q \in Run : output[q] = Audited => pc[q] \in {"idle", "end"}

-----------------------------------------------------------------------------
\* The invariant of the audit

Stage == {"start", "environment", "summary", "records", "source", "pass"}

AuditRecord ==
    [at : Stage, environment : Run \cup {Nobody}, summary : {Absent} \cup Says,
     records : Seq(Run \cup {Nobody}), checked : Nat, due : BOOLEAN, refused : BOOLEAN]

AuditTypes ==
    /\ audit \in AuditRecord
    /\ audit.at # "start" => audit.environment \in Run /\ ~Fresh(audit.environment)

ReadSays == audit.at \in {"summary", "records", "source", "pass"}
ReadAll == audit.at \in {"records", "source", "pass"}
Judged == audit.at \in {"source", "pass"}

\* What has been read of the directory, and what has been found out about it.
EvidenceRead ==
    /\ ReadSays =>
         /\ audit.summary # Absent
         /\ audit.summary.complete => Earned(audit.summary.run)
    /\ ReadAll =>
         /\ Len(audit.records) = Matrix
         /\ \A i \in 1 .. Matrix : audit.records[i] # Nobody
    /\ Judged =>
         /\ audit.summary.complete /\ ~Rejecting(audit.summary.run)
         /\ seen[audit.summary.run] = seen[audit.environment]
         /\ \A i \in 1 .. Matrix : audit.records[i] = audit.summary.run

\* An audit that is due to pass has read what one run left, which is still there.
DueInv ==
    /\ ~audit.refused
    /\ audit.at = "start" => ~audit.due
    /\ audit.due => Settled(audit.environment)
    /\ audit.due /\ ReadSays => audit.summary = summary[Audited]
    /\ audit.due /\ ReadAll => audit.records = records[Audited]

AuditInv == RunnerInv /\ RecordsInv /\ AuditTypes /\ EvidenceRead /\ DueInv

-----------------------------------------------------------------------------
\* Sole runs

\* The cases of a run have numbers, no two the same.
LEMMA PlanFacts ==
    ASSUME RecordTypes, NEW r \in Run
    PROVE  /\ plan[r] \in Seq(0 .. Matrix) /\ Selected(r) \in Nat
           /\ \A i \in 1 .. Selected(r) : plan[r][i] \in 0 .. Matrix
           /\ \A i, j \in 1 .. Selected(r) : plan[r][i] = plan[r][j] => i = j
<1> USE MatrixAssumption DEF Selected
<1>1. CASE plan[r] = AllCases
  <2>1. plan[r] \in Seq(0 .. Matrix) /\ Len(plan[r]) = Matrix
    BY <1>1 DEF AllCases
  <2> QED BY <1>1, <2>1 DEF AllCases
<1>2. CASE plan[r] = RejectionCases
  <2>1. plan[r] \in Seq(0 .. Matrix) /\ Len(plan[r]) = 1 /\ plan[r][1] = 0
    BY <1>2 DEF RejectionCases
  <2> QED BY <2>1
<1>3. ASSUME NEW c \in Single, plan[r] = <<c>>
      PROVE  /\ plan[r] \in Seq(0 .. Matrix) /\ Len(plan[r]) = 1
             /\ plan[r][1] = c
  BY <1>3
<1> QED
  BY <1>1, <1>2, <1>3 DEF RecordTypes, Plans

\* A step of run r changes its own directory and its own progress.
Confined(r) ==
    /\ \A d \in Dir \ {output[r]} :
         /\ author'[d] = author[d] /\ records'[d] = records[d]
         /\ logs'[d] = logs[d] /\ summary'[d] = summary[d]
    /\ \A q \in Run \ {r} :
         /\ pc'[q] = pc[q] /\ seen'[q] = seen[q]
         /\ statuses'[q] = statuses[q] /\ digests'[q] = digests[q]
    /\ UNCHANGED <<output, plan>>

\* A summary that is there names a run.
LEMMA SummaryRun ==
    ASSUME Types, NEW d \in Dir, summary[d] # Absent
    PROVE  summary[d] \in Says /\ summary[d].run \in Run
  BY DEF Types, Says

\* What run r does in a directory that nobody else writes to.
LEMMA SoleStep ==
    ASSUME Types, RecordTypes, SaidInv, SoleInv, NEW r \in Run, ~spoilt, Confined(r),
           pc[r] # "end",
           \A q \in Run \ {r} : author[output[r]]["environment.json"] # q,
           author'[output[r]]["environment.json"] = r,
           Recording(r)' /\ ~Rejecting(r) => Kept(r)',
           \/ summary'[output[r]] = summary[output[r]]
           \/ /\ summary'[output[r]].run = r
              /\ summary'[output[r]].complete => Rejecting(r) \/ Kept(r)'
    PROVE  SoleInv'
<1> USE DEF Types, Says, RecordTypes, SaidInv, SoleInv, Confined
<1>1. summary[output[r]] = Absent
  <2> SUFFICES ASSUME summary[output[r]] # Absent PROVE FALSE
    OBVIOUS
  <2>1. output[r] \in Dir /\ summary[output[r]].run \in Run
    BY SummaryRun
  <2>2. author[output[r]]["environment.json"] = summary[output[r]].run
    BY <2>1
  <2> QED BY <2>1, <2>2
<1>2. \A q \in Run \ {r} :
        author[output[q]]["environment.json"] = q => output[q] \in Dir \ {output[r]}
  OBVIOUS
<1>3. ASSUME NEW q \in Run \ {r}, author[output[q]]["environment.json"] = q, Kept(q)
      PROVE  Kept(q)'
  <2>1. output'[q] = output[q] /\ output[q] \in Dir \ {output[r]}
    BY <1>2, <1>3
  <2>2. /\ author'[output[q]] = author[output[q]] /\ records'[output[q]] = records[output[q]]
        /\ logs'[output[q]] = logs[output[q]]
        /\ statuses'[q] = statuses[q] /\ digests'[q] = digests[q] /\ plan'[q] = plan[q]
    BY <2>1
  <2> QED BY <1>3, <2>1, <2>2 DEF Kept
<1>4. ASSUME NEW q \in Run, Recording(q)' \/ pc'[q] \in {"open", "interrupted"}
      PROVE  author'[output[q]]["environment.json"] = q
  <2>1. CASE q = r
    BY <2>1
  <2>2. CASE q # r
    <3>1. author[output[q]]["environment.json"] = q
      BY <1>4, <2>2 DEF Recording
    <3> QED BY <1>2, <2>2, <3>1
  <2> QED BY <2>1, <2>2
<1>5. \A d \in Dir : summary'[d] # Absent => author'[d]["environment.json"] = summary'[d].run
  BY <1>1
<1>6. ASSUME NEW q \in Run, Recording(q)', ~Rejecting(q) PROVE Kept(q)'
  BY <1>3, <1>6 DEF Recording
<1>7. \A d \in Dir : summary'[d] # Absent /\ summary'[d].complete
             => Rejecting(summary'[d].run) \/ Kept(summary[d].run)'
  <2> SUFFICES ASSUME NEW d \in Dir, summary'[d] # Absent, summary'[d].complete
               PROVE  Rejecting(summary'[d].run) \/ Kept(summary[d].run)'
    OBVIOUS
  <2>1. CASE d = output[r]
    <3>1. summary'[d].run = r
      BY <1>1, <2>1
    <3> QED BY <1>1, <2>1, <3>1 DEF Kept
  <2>2. CASE d # output[r]
    <3>1. /\ summary'[d] = summary[d] /\ summary[d].run \in Run \ {r}
          /\ author[d]["environment.json"] = summary[d].run /\ output[summary[d].run] = d
      BY <2>2, SummaryRun
    <3>2. Rejecting(summary[d].run) \/ Kept(summary[d].run)
      BY <3>1, <2>2
    <3>3. ASSUME NEW q, q = summary[d].run, Kept(q) PROVE Kept(summary[d].run)'
      <4>1. q \in Run \ {r} /\ author[output[q]]["environment.json"] = q
        BY <3>1, <3>3
      <4>2. Kept(q)'
        BY <1>3, <3>3, <4>1
      <4>3. summary'[d].run = q
        BY <3>1, <3>3
      <4> QED BY <4>2, <4>3 DEF Kept
    <3> QED BY <3>1, <3>2, <3>3
  <2> QED BY <2>1, <2>2
<1> QED
  BY <1>4, <1>5, <1>6, <1>7 DEF Rejecting

\* What summaries say stays true while run r, which is not over, is at work.
LEMMA SaidStep ==
    ASSUME Types, SaidInv, NEW r \in Run, Confined(r), pc[r] # "end",
           \/ summary'[output[r]] = summary[output[r]]
           \/ /\ summary'[output[r]].run = r /\ pc'[r] = "end"
              /\ summary'[output[r]].complete =>
                   /\ summary'[output[r]].state = "pass"
                   /\ Len(digests'[r]) = Len(statuses'[r])
                   /\ seen'[r].binary # Unhashed
    PROVE  SaidInv'
<1> USE DEF SaidInv, Confined
<1> SUFFICES ASSUME NEW d \in Dir, summary'[d] # Absent
             PROVE  LET q == summary'[d].run IN
                    /\ pc'[q] = "end" /\ output[q] = d
                    /\ summary'[d].complete =>
                         /\ summary'[d].state = "pass"
                         /\ Len(digests'[q]) = Len(statuses'[q])
                         /\ seen'[q].binary # Unhashed
  OBVIOUS
<1>1. CASE summary'[d] = summary[d]
  <2>1. summary[d].run \in Run \ {r}
    BY <1>1, SummaryRun
  <2> QED BY <1>1, <2>1
<1>2. CASE summary'[d] # summary[d]
  BY <1>2
<1> QED BY <1>1, <1>2

\* A step of run r that writes nothing but directories.
Quiet(r) ==
    /\ UNCHANGED <<author, records, logs, summary, output, plan, statuses, digests, spoilt>>
    /\ pc' \in [Run -> Label]
    /\ \A q \in Run \ {r} : pc'[q] = pc[q] /\ seen'[q] = seen[q]
    /\ pc[r] # "end"
    /\ ~Fresh(r)' \/ Fresh(r)
    /\ pc'[r] \notin {"open", "running"}
    /\ pc'[r] = "environment" => seen'[r].binary # Unhashed
    /\ Recording(r)' \/ pc'[r] = "interrupted" => Recording(r) /\ seen'[r] = seen[r]

\* It keeps what is said of records.
LEMMA QuietKeeps ==
    ASSUME Types, RecordsInv, NEW r \in Run, Quiet(r)
    PROVE  RecordsInv'
<1> USE DEF RecordsInv, Quiet
<1>1. RecordTypes'
  BY DEF RecordTypes
<1>2. ProgressInv'
  BY DEF Types, ProgressInv, Recording, Fresh, Selected
<1>3. SaidInv'
  <2>1. Confined(r)
    BY DEF Confined
  <2> QED BY <2>1, SaidStep
<1>4. SoleInv'
  <2> SUFFICES ASSUME ~spoilt PROVE SoleInv'
    BY DEF SoleInv
  <2>1. \A q \in Run : (Kept(q)' <=> Kept(q)) /\ (Rejecting(q)' <=> Rejecting(q))
    BY DEF Kept, Rejecting
  <2>2. \A q \in Run : Recording(q)' => Recording(q)
    BY DEF Recording
  <2>3. \A q \in Run : pc'[q] \in {"open", "interrupted"} =>
          pc[q] \in {"open", "interrupted"} \/ Recording(q)
    BY DEF Types
  <2>4. \A d \in Dir : summary[d] # Absent => summary[d].run \in Run
    BY SummaryRun
  <2> QED BY <2>1, <2>2, <2>3, <2>4 DEF SoleInv
<1> QED
  BY <1>1, <1>2, <1>3, <1>4

-----------------------------------------------------------------------------
\* Every step of a run

\* A run looks for evidence.
LEMMA StartQuiet ==
    ASSUME RunnerInv, RecordsInv, NEW r \in Run, Start(r)
    PROVE  RecordsInv'
<1>1. Quiet(r)
  BY DEF RunnerInv, Types, Label, Start, Goto, world, files, contents, run, history, Quiet,
         Fresh, Recording, Unhashed, Turn
<1> QED
  BY <1>1, QuietKeeps DEF RunnerInv

\* A run looks for its directory.
LEMMA StartRejectionsQuiet ==
    ASSUME RunnerInv, RecordsInv, NEW r \in Run, StartRejections(r)
    PROVE  RecordsInv'
<1>1. Quiet(r)
  BY DEF RunnerInv, Types, Label, StartRejections, Goto, world, files, contents, run, history, Quiet,
         Fresh, Recording, Unhashed, Turn
<1> QED
  BY <1>1, QuietKeeps DEF RunnerInv

\* A run makes its directory.
LEMMA MakeDirQuiet ==
    ASSUME RunnerInv, RecordsInv, NEW r \in Run, MakeDir(r)
    PROVE  RecordsInv'
<1>1. Quiet(r)
  BY DEF RunnerInv, Types, Label, MakeDir, Goto, world, files, contents, run, history, Quiet,
         Fresh, Recording, Unhashed
<1> QED
  BY <1>1, QuietKeeps DEF RunnerInv

\* A run looks for raw logs.
LEMMA CheckRawQuiet ==
    ASSUME RunnerInv, RecordsInv, NEW r \in Run, CheckRaw(r)
    PROVE  RecordsInv'
<1>1. Quiet(r)
  BY DEF RunnerInv, Types, Label, CheckRaw, Goto, world, files, contents, run, history, Quiet,
         Fresh, Recording, Unhashed
<1> QED
  BY <1>1, QuietKeeps DEF RunnerInv

\* A run hashes the tree.
LEMMA HashTreeQuiet ==
    ASSUME RunnerInv, RecordsInv, NEW r \in Run, HashTree(r)
    PROVE  RecordsInv'
<1>1. Quiet(r)
  BY DEF RunnerInv, Types, Label, HashTree, Goto, world, files, contents, run, history, Quiet,
         Fresh, Recording, Unhashed
<1> QED
  BY <1>1, QuietKeeps DEF RunnerInv

\* A run hashes the binary, which is then hashed.
LEMMA PreflightQuiet ==
    ASSUME RunnerInv, RecordsInv, NEW r \in Run, Preflight(r)
    PROVE  RecordsInv'
<1>1. pc'[r] = "environment" => seen'[r].binary # Unhashed
  <2>1. binary # Unhashed
    BY DEF RunnerInv, Types, Unhashed
  <2>2. pc' = [pc EXCEPT ![r] = "unsupported"] => pc'[r] = "unsupported"
    BY DEF RunnerInv, Types
  <2>3. seen[r] \in [tree : Nat, binary : Int]
    BY DEF RunnerInv, Types
  <2>4. seen' = [seen EXCEPT ![r].binary = binary] => seen'[r].binary = binary
    BY <2>3 DEF RunnerInv, Types
  <2> QED
    BY <2>1, <2>2, <2>4 DEF Preflight
<1>2. Quiet(r)
  BY <1>1 DEF RunnerInv, Types, Label, Preflight, Goto, world, files, contents, run, history,
         Quiet, Fresh, Recording
<1> QED
  BY <1>2, QuietKeeps DEF RunnerInv

\* A run hashes the tree again.
LEMMA RehashQuiet ==
    ASSUME RunnerInv, RecordsInv, NEW r \in Run, Rehash(r)
    PROVE  RecordsInv'
<1>1. Quiet(r)
  BY DEF RunnerInv, Types, Label, Rehash, Goto, world, files, contents, run, history, Quiet,
         Fresh, Recording, Unhashed
<1> QED
  BY <1>1, QuietKeeps DEF RunnerInv

\* A run hashes the binary again.
LEMMA RehashBinaryQuiet ==
    ASSUME RunnerInv, RecordsInv, NEW r \in Run, RehashBinary(r)
    PROVE  RecordsInv'
<1>1. Quiet(r)
  BY DEF RunnerInv, Types, Label, RehashBinary, Goto, world, files, contents, run, history, Quiet,
         Fresh, Recording, Unhashed
<1> QED
  BY <1>1, QuietKeeps DEF RunnerInv

\* Only a run whose host process is there leaves it behind.
LEMMA InterruptQuiet ==
    ASSUME RunnerInv, RecordsInv, NEW r \in Run, Interrupt(r)
    PROVE  RecordsInv'
<1>1. Quiet(r)
  BY DEF RunnerInv, Types, Label, Interrupt, Goto, world, files, contents, run, history, Quiet,
         Fresh, Recording, Unhashed, Over, LateInv
<1> QED
  BY <1>1, QuietKeeps DEF RunnerInv

\* Contents that change are not in any directory.
LEMMA EditQuiet ==
    ASSUME RecordsInv, UNCHANGED <<files, pc, run, history>>
    PROVE  RecordsInv'
<1> USE DEF RecordsInv, files, run, history
<1>1. RecordTypes' /\ ProgressInv' /\ SaidInv'
  BY DEF RecordTypes, ProgressInv, SaidInv, Fresh, Recording, Selected
<1>2. SoleInv'
  BY DEF SoleInv, Recording, Kept, Rejecting
<1> QED
  BY <1>1, <1>2

\* A run that stops has the directory for itself.
LEMMA UnsupportedWrites ==
    ASSUME RunnerInv, RecordsInv, NEW r \in Run, Unsupported(r)
    PROVE  RecordsInv'
<1> USE DEF RunnerInv, RecordsInv, Unsupported, Goto, world, files, contents, run, history
<1>1. Confined(r)
  BY DEF Types, RecordTypes, Confined, Write
<1>2. RecordTypes'
  BY DEF RecordTypes, Write
<1>3. ProgressInv'
  BY DEF Types, ProgressInv, Fresh, Recording, Selected
<1>4. SaidInv'
  <2>1. /\ pc[r] # "end" /\ pc'[r] = "end" /\ summary'[output[r]].run = r
        /\ ~summary'[output[r]].complete
    BY DEF Types
  <2> QED BY <1>1, <2>1, SaidStep
<1>5. ASSUME ~spoilt'
      PROVE  SoleInv'
  <2>1. /\ ~spoilt /\ output[r] \in Dir
        /\ \A f \in {"environment.json", "summary.json"} : author[output[r]][f] \in {Nobody, r} /\ author'[output[r]][f] = r
        /\ \A f \in File \ {"environment.json", "summary.json"} : author'[output[r]][f] = author[output[r]][f]
    BY <1>5 DEF Types, Write, File, Records
  <2>2. /\ author'[output[r]]["environment.json"] = r
        /\ \A q \in Run \ {r} : author[output[r]]["environment.json"] # q
    BY <2>1, NobodyAssumption DEF File
  <2>3. ~Recording(r)'
    BY DEF Types, Recording
  <2>4. pc[r] # "end" /\ summary'[output[r]].run = r /\ ~summary'[output[r]].complete
    BY <2>1 DEF Types
  <2> QED
    BY <1>1, <2>1, <2>2, <2>3, <2>4, SoleStep DEF Types, RecordTypes
<1> QED
  BY <1>2, <1>3, <1>4, <1>5 DEF SoleInv

\* The environment is the first file of a run.
LEMMA WriteEnvironmentWrites ==
    ASSUME RunnerInv, RecordsInv, NEW r \in Run, WriteEnvironment(r)
    PROVE  RecordsInv'
<1> USE DEF RunnerInv, RecordsInv, WriteEnvironment, Goto, world, files, contents, run, history
<1>1. Confined(r)
  BY DEF Types, RecordTypes, Confined, Write
<1>2. RecordTypes'
  BY DEF RecordTypes, Write
<1>3. ProgressInv'
  BY DEF Types, ProgressInv, Fresh, Recording, Selected
<1>4. SaidInv'
  <2>1. pc[r] # "end" /\ summary'[output[r]] = summary[output[r]]
    OBVIOUS
  <2> QED BY <1>1, <2>1, SaidStep
<1>5. ASSUME ~spoilt'
      PROVE  SoleInv'
  <2>1. /\ ~spoilt /\ output[r] \in Dir
        /\ \A f \in {"environment.json"} : author[output[r]][f] \in {Nobody, r} /\ author'[output[r]][f] = r
        /\ \A f \in File \ {"environment.json"} : author'[output[r]][f] = author[output[r]][f]
    BY <1>5 DEF Types, Write, File, Records
  <2>2. /\ author'[output[r]]["environment.json"] = r
        /\ \A q \in Run \ {r} : author[output[r]]["environment.json"] # q
    BY <2>1, NobodyAssumption DEF File
  <2>3. ~Recording(r)'
    BY DEF Types, Recording
  <2>4. pc[r] # "end" /\ summary'[output[r]] = summary[output[r]]
    OBVIOUS
  <2> QED
    BY <1>1, <2>1, <2>2, <2>3, <2>4, SoleStep DEF Types, RecordTypes
<1> QED
  BY <1>2, <1>3, <1>4, <1>5 DEF SoleInv

\* The records of a run start empty.
LEMMA OpenRecordsWrites ==
    ASSUME RunnerInv, RecordsInv, NEW r \in Run, OpenRecords(r)
    PROVE  RecordsInv'
<1> USE DEF RunnerInv, RecordsInv, OpenRecords, Goto, world, files, contents, run, history
<1>1. Confined(r)
  BY DEF Types, RecordTypes, Confined, Write
<1>2. RecordTypes'
  <2>1. records' \in [Dir -> Seq(Run \cup {Nobody})]
    BY DEF Types, RecordTypes
  <2> QED BY <2>1 DEF RecordTypes, Write
<1>3. ProgressInv'
  BY DEF Types, ProgressInv, Fresh, Recording, Selected
<1>4. SaidInv'
  <2>1. pc[r] # "end" /\ summary'[output[r]] = summary[output[r]]
    OBVIOUS
  <2> QED BY <1>1, <2>1, SaidStep
<1>5. ASSUME ~spoilt'
      PROVE  SoleInv'
  <2>1. /\ ~spoilt /\ output[r] \in Dir
        /\ \A f \in {Records(r)} : author[output[r]][f] \in {Nobody, r} /\ author'[output[r]][f] = r
        /\ \A f \in File \ {Records(r)} : author'[output[r]][f] = author[output[r]][f]
    BY <1>5 DEF Types, Write, File, Records
  <2>2. /\ author'[output[r]]["environment.json"] = r
        /\ \A q \in Run \ {r} : author[output[r]]["environment.json"] # q
    BY <2>1 DEF SoleInv, File, Records, Recording
  <2>3. ASSUME ~Rejecting(r) PROVE Kept(r)'
    <3>1. /\ author'[output[r]]["simulator.jsonl"] = r /\ records'[output[r]] = << >>
          /\ statuses'[r] = << >> /\ digests'[r] = << >>
      BY <2>1, <2>3 DEF RecordTypes, ProgressInv, Records, File
    <3>2. << >> = [i \in 1 .. 0 |-> r]
      OBVIOUS
    <3> QED BY <3>1, <3>2 DEF Kept
  <2>4. pc[r] # "end" /\ summary'[output[r]] = summary[output[r]]
    OBVIOUS
  <2> QED
    BY <1>1, <2>1, <2>2, <2>3, <2>4, SoleStep DEF Types, RecordTypes
<1> QED
  BY <1>2, <1>3, <1>4, <1>5 DEF SoleInv

\* Writing into one log leaves the others alone.
LEMMA LogWritten ==
    ASSUME logs \in [Dir -> [0 .. Matrix -> SUBSET Run]], NEW d \in Dir, NEW c, NEW s,
           logs' = [logs EXCEPT ![d][c] = s], c \in 0 .. Matrix => s \in SUBSET Run
    PROVE  /\ logs' \in [Dir -> [0 .. Matrix -> SUBSET Run]]
           /\ \A e \in Dir \ {d} : logs'[e] = logs[e]
           /\ \A b \in (0 .. Matrix) \ {c} : logs'[d][b] = logs[d][b]
           /\ c \in 0 .. Matrix => logs'[d][c] = s
<1>1. logs'[d] = [logs[d] EXCEPT ![c] = s] /\ logs[d] \in [0 .. Matrix -> SUBSET Run]
  OBVIOUS
<1>2. logs'[d] \in [0 .. Matrix -> SUBSET Run]
  BY <1>1
<1> QED
  BY <1>1, <1>2

\* A log that is emptied is not one that has been hashed.
LEMMA StartCaseWrites ==
    ASSUME RunnerInv, RecordsInv, NEW r \in Run, StartCase(r)
    PROVE  RecordsInv'
<1> USE DEF RunnerInv, RecordsInv, StartCase, Goto, world, files, contents, run, history
<1>1. Confined(r)
  BY DEF Types, RecordTypes, Confined, Write
<1>a. /\ Case(r) \in 0 .. Matrix /\ Len(statuses[r]) + 1 \in 1 .. Selected(r)
      /\ \A i \in 1 .. Len(statuses[r]) : plan[r][i] # Case(r)
  <2>1. Len(statuses[r]) \in Nat /\ Len(statuses[r]) < Selected(r)
    BY DEF Types, ProgressInv
  <2>2. /\ Len(statuses[r]) + 1 \in 1 .. Selected(r)
        /\ \A i \in 1 .. Len(statuses[r]) : i \in 1 .. Selected(r) /\ i # Len(statuses[r]) + 1
    BY <2>1, PlanFacts
  <2>3. Case(r) \in 0 .. Matrix
    BY <2>2, PlanFacts DEF Case
  <2> QED BY <2>2, <2>3, PlanFacts DEF Case
<1>2. RecordTypes'
  <2>1. logs' \in [Dir -> [0 .. Matrix -> SUBSET Run]]
    BY <1>a DEF Types, RecordTypes
  <2> QED BY <2>1 DEF RecordTypes, Write
<1>3. ProgressInv'
  BY <1>a DEF Types, ProgressInv, Fresh, Recording, Selected
<1>4. SaidInv'
  <2>1. pc[r] # "end" /\ summary'[output[r]] = summary[output[r]]
    OBVIOUS
  <2> QED BY <1>1, <2>1, SaidStep
<1>5. ASSUME ~spoilt'
      PROVE  SoleInv'
  <2>1. /\ ~spoilt /\ output[r] \in Dir
        /\ \A f \in {"raw"} : author[output[r]][f] \in {Nobody, r} /\ author'[output[r]][f] = r
        /\ \A f \in File \ {"raw"} : author'[output[r]][f] = author[output[r]][f]
    BY <1>5 DEF Types, Write, File, Records
  <2>2. /\ author'[output[r]]["environment.json"] = r
        /\ \A q \in Run \ {r} : author[output[r]]["environment.json"] # q
    BY <2>1 DEF SoleInv, File, Records, Recording
  <2>3. ASSUME ~Rejecting(r) PROVE Kept(r)'
    <3>1. Kept(r) /\ Len(digests[r]) = Len(statuses[r])
      BY <2>1, <2>3 DEF SoleInv, ProgressInv, Recording
    <3>2. \A i \in 1 .. Len(digests[r]) : logs'[output[r]][plan[r][i]] = logs[output[r]][plan[r][i]]
      BY <1>a, <2>1, <3>1 DEF RecordTypes
    <3> QED BY <2>1, <3>1, <3>2 DEF Kept, File
  <2>4. pc[r] # "end" /\ summary'[output[r]] = summary[output[r]]
    OBVIOUS
  <2> QED
    BY <1>1, <2>1, <2>2, <2>3, <2>4, SoleStep DEF Types, RecordTypes
<1> QED
  BY <1>2, <1>3, <1>4, <1>5 DEF SoleInv

\* The record of a case is the next one, and its hash is that of the log.
LEMMA EndCaseWrites ==
    ASSUME RunnerInv, RecordsInv, NEW r \in Run, EndCase(r)
    PROVE  RecordsInv'
<1> USE DEF RunnerInv, RecordsInv, EndCase, Goto, world, files, contents, run, history
<1>1. Confined(r)
  BY DEF Types, RecordTypes, Confined, Write
<1>a. /\ Case(r) \in 0 .. Matrix /\ Len(statuses[r]) + 1 \in 1 .. Selected(r)
      /\ \A i \in 1 .. Len(statuses[r]) : plan[r][i] # Case(r)
  <2>1. Len(statuses[r]) \in Nat /\ Len(statuses[r]) < Selected(r)
    BY DEF Types, ProgressInv
  <2>2. /\ Len(statuses[r]) + 1 \in 1 .. Selected(r)
        /\ \A i \in 1 .. Len(statuses[r]) : i \in 1 .. Selected(r) /\ i # Len(statuses[r]) + 1
    BY <2>1, PlanFacts
  <2>3. Case(r) \in 0 .. Matrix
    BY <2>2, PlanFacts DEF Case
  <2> QED BY <2>2, <2>3, PlanFacts DEF Case
<1>d. /\ logs' \in [Dir -> [0 .. Matrix -> SUBSET Run]]
      /\ \A c \in (0 .. Matrix) \ {Case(r)} : logs'[output[r]][c] = logs[output[r]][c]
  <2>1. /\ output[r] \in Dir /\ logs \in [Dir -> [0 .. Matrix -> SUBSET Run]]
    BY DEF Types, RecordTypes
  <2>3. logs[output[r]][Case(r)] \cup {r} \in SUBSET Run
    <3>1. logs[output[r]] \in [0 .. Matrix -> SUBSET Run]
      BY <2>1
    <3> QED BY <1>a, <3>1
  <2>2. CASE logs' = [logs EXCEPT ![output[r]][Case(r)] = logs[output[r]][Case(r)] \cup {r}]
    <3> HIDE DEF EndCase
    <3>1. /\ logs' \in [Dir -> [0 .. Matrix -> SUBSET Run]]
          /\ \A c \in (0 .. Matrix) \ {Case(r)} : logs'[output[r]][c] = logs[output[r]][c]
      BY <2>1, <2>2, <2>3, LogWritten
    <3> QED BY <3>1
  <2> QED BY <2>1, <2>2
<1>b. /\ digests'[r] = Append(digests[r], logs'[output[r]][Case(r)])
      /\ \A q \in Run \ {r} : digests'[q] = digests[q]
      /\ logs'[output[r]][Case(r)] \in SUBSET Run
      /\ Len(statuses'[r]) = Len(statuses[r]) + 1
  <2>1. digests'[r] = Append(digests[r], logs'[output[r]][Case(r)])
    BY DEF RecordTypes
  <2>2. PICK status \in {"pass", "fail"} :
          statuses' = [statuses EXCEPT ![r] = Append(@, status)]
    OBVIOUS
  <2>3. statuses[r] \in Seq({"pass", "fail"}) /\ statuses'[r] = Append(statuses[r], status)
    BY <2>2 DEF Types
  <2>4. Len(statuses'[r]) = Len(statuses[r]) + 1
    BY <2>3
  <2>5. logs'[output[r]][Case(r)] \in SUBSET Run
    <3>1. logs'[output[r]] \in [0 .. Matrix -> SUBSET Run]
      BY <1>d DEF Types
    <3> QED BY <1>a, <3>1
  <2> QED BY <2>1, <2>4, <2>5 DEF RecordTypes
<1>c. Put(records[output[r]], Len(statuses[r]) + 1, r) \in Seq(Run \cup {Nobody})
  BY DEF Types, RecordTypes, Put
<1>2. RecordTypes'
  <2>1. logs' \in [Dir -> [0 .. Matrix -> SUBSET Run]]
    BY <1>d
  <2>2. digests' \in [Run -> Seq(SUBSET Run)]
    BY <1>b DEF RecordTypes
  <2>3. records' \in [Dir -> Seq(Run \cup {Nobody})]
    BY <1>c DEF Types, RecordTypes
  <2> QED BY <2>1, <2>2, <2>3 DEF RecordTypes, Write
<1>3. ProgressInv'
  BY <1>a, <1>b DEF Types, ProgressInv, Fresh, Recording, Selected
<1>4. SaidInv'
  <2>1. pc[r] # "end" /\ summary'[output[r]] = summary[output[r]]
    OBVIOUS
  <2> QED BY <1>1, <2>1, SaidStep
<1>5. ASSUME ~spoilt'
      PROVE  SoleInv'
  <2>1. /\ ~spoilt /\ output[r] \in Dir
        /\ \A f \in {Records(r)} : author[output[r]][f] \in {Nobody, r} /\ author'[output[r]][f] = r
        /\ \A f \in File \ {Records(r)} : author'[output[r]][f] = author[output[r]][f]
    BY <1>5 DEF Types, Write, File, Records
  <2>2. /\ author'[output[r]]["environment.json"] = r
        /\ \A q \in Run \ {r} : author[output[r]]["environment.json"] # q
    BY <2>1 DEF SoleInv, File, Records, Recording
  <2>3. ASSUME ~Rejecting(r) PROVE Kept(r)'
    <3>1. Kept(r) /\ Len(digests[r]) = Len(statuses[r])
      BY <2>1, <2>3 DEF SoleInv, ProgressInv, Recording
    <3>2. author'[output[r]]["simulator.jsonl"] = r
      BY <2>1, <2>3 DEF Records, File
    <3>3. records'[output[r]] = [i \in 1 .. Len(statuses'[r]) |-> r]
      BY <2>1, <2>3, <3>1, <1>b DEF Kept, Put, RecordTypes, Types
    <3>4. ASSUME NEW i \in 1 .. Len(digests'[r])
          PROVE  logs'[output[r]][plan[r][i]] = digests'[r][i]
      <4>1. digests[r] \in Seq(SUBSET Run) /\ Len(digests'[r]) = Len(digests[r]) + 1
        BY <1>b DEF RecordTypes
      <4>2. CASE i = Len(digests[r]) + 1
        <5>1. plan[r][i] = Case(r)
          BY <3>1, <4>2 DEF Case
        <5>2. digests'[r][i] = logs'[output[r]][Case(r)]
          BY <1>b, <4>1, <4>2
        <5> QED BY <5>1, <5>2
      <4>3. CASE i \in 1 .. Len(digests[r])
        <5>1. digests'[r][i] = digests[r][i]
          BY <1>b, <4>1, <4>3
        <5>2. plan[r][i] \in (0 .. Matrix) \ {Case(r)}
          <6>1. i \in 1 .. Len(statuses[r]) /\ i \in 1 .. Selected(r)
            BY <1>a, <3>1, <4>3, PlanFacts
          <6> QED BY <1>a, <6>1, PlanFacts
        <5> QED BY <1>d, <3>1, <4>3, <5>1, <5>2 DEF Kept
      <4> QED BY <4>1, <4>2, <4>3
    <3> QED BY <3>2, <3>3, <3>4 DEF Kept
  <2>4. pc[r] # "end" /\ summary'[output[r]] = summary[output[r]]
    OBVIOUS
  <2> QED
    BY <1>1, <2>1, <2>2, <2>3, <2>4, SoleStep DEF Types, RecordTypes
<1> QED
  BY <1>2, <1>3, <1>4, <1>5 DEF SoleInv

\* The summary of a run that passes stands for the records that are there.
LEMMA WriteSummaryWrites ==
    ASSUME RunnerInv, RecordsInv, NEW r \in Run, WriteSummary(r)
    PROVE  RecordsInv'
<1> USE DEF RunnerInv, RecordsInv, WriteSummary, Goto, world, files, contents, run, history
<1>1. Confined(r)
  BY DEF Types, RecordTypes, Confined, Write
<1>e. /\ summary'[output[r]].run = r
      /\ summary'[output[r]].complete =>
           /\ summary'[output[r]].state = "pass"
           /\ Len(digests'[r]) = Len(statuses'[r])
           /\ seen'[r].binary # Unhashed
  BY DEF Types, Summary, Complete, AllPass, ProgressInv, Recording
<1>2. RecordTypes'
  BY DEF RecordTypes, Write
<1>3. ProgressInv'
  BY DEF Types, ProgressInv, Fresh, Recording, Selected
<1>4. SaidInv'
  <2>1. pc[r] # "end" /\ pc'[r] = "end"
    BY DEF Types
  <2> QED BY <1>1, <1>e, <2>1, SaidStep
<1>5. ASSUME ~spoilt'
      PROVE  SoleInv'
  <2>1. /\ ~spoilt /\ output[r] \in Dir
        /\ \A f \in {"summary.json"} : author[output[r]][f] \in {Nobody, r} /\ author'[output[r]][f] = r
        /\ \A f \in File \ {"summary.json"} : author'[output[r]][f] = author[output[r]][f]
    BY <1>5 DEF Types, Write, File, Records
  <2>2. /\ author'[output[r]]["environment.json"] = r
        /\ \A q \in Run \ {r} : author[output[r]]["environment.json"] # q
    BY <2>1 DEF SoleInv, File, Records, Recording
  <2>3. ~Recording(r)'
    BY DEF Types, Recording
  <2>4. /\ pc[r] # "end" /\ summary'[output[r]].run = r
        /\ summary'[output[r]].complete => Rejecting(r) \/ Kept(r)'
    <3>1. ~Rejecting(r) => Kept(r)
      BY <2>1 DEF SoleInv, Recording
    <3>2. Kept(r) => Kept(r)'
      BY <2>1 DEF Kept, File
    <3> QED BY <1>e, <3>1, <3>2
  <2> QED
    BY <1>1, <2>1, <2>2, <2>3, <2>4, SoleStep DEF Types, RecordTypes
<1> QED
  BY <1>2, <1>3, <1>4, <1>5 DEF SoleInv

\* What a run leaves running prints into a log of a directory that is its own.
LEMMA OrphanEndsWrites ==
    ASSUME RunnerInv, RecordsInv, NEW r \in Run, OrphanEnds(r)
    PROVE  RecordsInv'
<1> USE DEF RunnerInv, RecordsInv, OrphanEnds, Goto, world, run, history
<1>1. Confined(r)
  BY DEF Types, RecordTypes, Confined
<1>2. RecordTypes'
  <2>1. logs' \in [Dir -> [0 .. Matrix -> SUBSET Run]]
    <3>1. output[r] \in Dir /\ logs \in [Dir -> [0 .. Matrix -> SUBSET Run]]
      BY DEF Types, RecordTypes
    <3>2. Case(r) \in 0 .. Matrix => logs[output[r]][Case(r)] \cup {r} \in SUBSET Run
      BY <3>1
    <3>3. CASE logs' = [logs EXCEPT ![output[r]][Case(r)] = logs[output[r]][Case(r)] \cup {r}]
      BY <3>1, <3>2, <3>3, LogWritten
    <3> QED BY <3>1, <3>3
  <2> QED BY <2>1 DEF RecordTypes
<1>3. ProgressInv'
  BY DEF Types, ProgressInv, Fresh, Recording, Selected
<1>4. SaidInv'
  <2>1. pc[r] # "end" /\ summary'[output[r]] = summary[output[r]]
    OBVIOUS
  <2> QED BY <1>1, <2>1, SaidStep
<1>5. ASSUME ~spoilt
      PROVE  SoleInv'
  <2>1. /\ author'[output[r]]["environment.json"] = r
        /\ \A q \in Run \ {r} : author[output[r]]["environment.json"] # q
    BY <1>5 DEF SoleInv
  <2>2. ~Recording(r)' /\ pc[r] # "end" /\ summary'[output[r]] = summary[output[r]]
    BY DEF Types, Recording
  <2> QED
    BY <1>1, <1>5, <2>1, <2>2, SoleStep
<1> QED
  BY <1>2, <1>3, <1>4, <1>5 DEF SoleInv

-----------------------------------------------------------------------------
\* The invariant of the records

\* Nothing is recorded at the start.
LEMMA RecordsInit == Init => RecordsInv
<1> SUFFICES ASSUME Init PROVE RecordsInv
  OBVIOUS
<1> USE DEF Init
<1>1. RecordTypes
  <2>1. /\ plan \in [Run -> Plans] /\ spoilt \in BOOLEAN
        /\ logs \in [Dir -> [0 .. Matrix -> SUBSET Run]]
    OBVIOUS
  <2>2. records \in [Dir -> Seq(Run \cup {Nobody})] /\ digests \in [Run -> Seq(SUBSET Run)]
    OBVIOUS
  <2> QED BY <2>1, <2>2 DEF RecordTypes
<1>2. ProgressInv /\ SaidInv
  BY DEF ProgressInv, SaidInv, Fresh, Recording
<1>3. SoleInv
  BY DEF SoleInv, Recording
<1> QED
  BY <1>1, <1>2, <1>3 DEF RecordsInv

\* Every step of every run keeps it.
LEMMA RecordsKeep ==
    ASSUME RunnerInv, RecordsInv, [Next]_vars
    PROVE  RecordsInv'
<1>1. ASSUME NEW r \in Run, Work(r) PROVE RecordsInv'
  BY <1>1, StartQuiet, StartRejectionsQuiet, MakeDirQuiet, CheckRawQuiet, HashTreeQuiet,
     PreflightQuiet, UnsupportedWrites, WriteEnvironmentWrites, OpenRecordsWrites,
     StartCaseWrites, EndCaseWrites, RehashQuiet, RehashBinaryQuiet, WriteSummaryWrites
     DEF Work
<1>2. ASSUME NEW r \in Run, Interrupt(r) \/ OrphanEnds(r) PROVE RecordsInv'
  BY <1>2, InterruptQuiet, OrphanEndsWrites
<1>3. CASE Edit \/ Rebuild \/ Terminating \/ UNCHANGED vars
  BY <1>3, EditQuiet DEF Edit, Rebuild, Terminating, vars
<1> QED
  BY <1>1, <1>2, <1>3 DEF Next

-----------------------------------------------------------------------------
\* What the audit has read stays true

\* A run that has hashed does not hash again; one that is over is over.
LEMMA PastKept ==
    ASSUME Types, RecordTypes, [Next]_vars
    PROVE  /\ UNCHANGED <<output, plan>> /\ made \subseteq made'
           /\ \A r \in Run : ~Fresh(r) => ~Fresh(r)' /\ seen'[r] = seen[r]
           /\ \A r \in Run : pc[r] = "end" =>
                /\ pc'[r] = "end" /\ executed'[r] = executed[r] /\ seen'[r] = seen[r]
                /\ statuses'[r] = statuses[r] /\ digests'[r] = digests[r]
<1> USE DEF Types, RecordTypes, Goto, files, contents, run, history, world, Fresh
<1>1. ASSUME NEW q \in Run, Start(q) \/ StartRejections(q) \/ MakeDir(q) \/ CheckRaw(q)
                            \/ HashTree(q) \/ Interrupt(q) \/ OrphanEnds(q)
      PROVE  /\ UNCHANGED <<output, plan>> /\ made \subseteq made'
             /\ \A r \in Run : ~Fresh(r) => ~Fresh(r)' /\ seen'[r] = seen[r]
             /\ \A r \in Run : pc[r] = "end" =>
                  /\ pc'[r] = "end" /\ executed'[r] = executed[r] /\ seen'[r] = seen[r]
                  /\ statuses'[r] = statuses[r] /\ digests'[r] = digests[r]
  BY <1>1 DEF Start, StartRejections, MakeDir, CheckRaw, HashTree, Interrupt, OrphanEnds, Over
<1>2. ASSUME NEW q \in Run, Preflight(q) \/ Unsupported(q) \/ WriteEnvironment(q)
                            \/ OpenRecords(q) \/ Rehash(q) \/ RehashBinary(q)
                            \/ WriteSummary(q)
      PROVE  /\ UNCHANGED <<output, plan>> /\ made \subseteq made'
             /\ \A r \in Run : ~Fresh(r) => ~Fresh(r)' /\ seen'[r] = seen[r]
             /\ \A r \in Run : pc[r] = "end" =>
                  /\ pc'[r] = "end" /\ executed'[r] = executed[r] /\ seen'[r] = seen[r]
                  /\ statuses'[r] = statuses[r] /\ digests'[r] = digests[r]
  BY <1>2 DEF Preflight, Unsupported, WriteEnvironment, OpenRecords, Rehash, RehashBinary,
              WriteSummary
<1>3. ASSUME NEW q \in Run, StartCase(q) \/ EndCase(q)
      PROVE  /\ UNCHANGED <<output, plan>> /\ made \subseteq made'
             /\ \A r \in Run : ~Fresh(r) => ~Fresh(r)' /\ seen'[r] = seen[r]
             /\ \A r \in Run : pc[r] = "end" =>
                  /\ pc'[r] = "end" /\ executed'[r] = executed[r] /\ seen'[r] = seen[r]
                  /\ statuses'[r] = statuses[r] /\ digests'[r] = digests[r]
  <2>1. /\ pc[q] \in {"case", "running"} /\ pc' = [pc EXCEPT ![q] = pc'[q]]
        /\ pc'[q] \in {"case", "running"}
        /\ UNCHANGED <<output, plan, made, seen>>
    BY <1>3 DEF StartCase, EndCase
  <2>2. \A r \in Run \ {q} :
          executed'[r] = executed[r] /\ statuses'[r] = statuses[r] /\ digests'[r] = digests[r]
    <3>1. CASE StartCase(q)
      BY <3>1 DEF StartCase
    <3>2. CASE EndCase(q)
      <4>1. \E status \in {"pass", "fail"} :
              statuses' = [statuses EXCEPT ![q] = Append(@, status)]
        BY <3>2 DEF EndCase
      <4>2. \E digest : digests' = [digests EXCEPT ![q] = digest]
        BY <3>2 DEF EndCase
      <4>3. UNCHANGED executed
        BY <3>2 DEF EndCase
      <4> HIDE DEF Fresh
      <4> QED BY <4>1, <4>2, <4>3
    <3> QED BY <1>3, <3>1, <3>2
  <2> QED BY <2>1, <2>2
<1>4. CASE Edit \/ Rebuild \/ Terminating \/ UNCHANGED vars
  BY <1>4 DEF Edit, Rebuild, Terminating, vars
<1> QED
  BY <1>1, <1>2, <1>3, <1>4 DEF Next, Work

\* Every step of a run is confined to its directory.
LEMMA WorkConfined ==
    ASSUME Types, RecordTypes, NEW r \in Run, Work(r) \/ Interrupt(r) \/ OrphanEnds(r)
    PROVE  Confined(r)
<1> USE DEF Types, RecordTypes, Confined, Goto, files, contents, run, history
<1>1. CASE Start(r) \/ StartRejections(r) \/ MakeDir(r) \/ CheckRaw(r) \/ HashTree(r)
           \/ Preflight(r) \/ Rehash(r) \/ RehashBinary(r) \/ Interrupt(r)
  BY <1>1 DEF Start, StartRejections, MakeDir, CheckRaw, HashTree, Preflight, Rehash,
              RehashBinary, Interrupt
<1>2. CASE Unsupported(r) \/ WriteEnvironment(r) \/ OpenRecords(r) \/ WriteSummary(r)
  BY <1>2 DEF Unsupported, WriteEnvironment, OpenRecords, WriteSummary, Write
<1>3. CASE StartCase(r) \/ EndCase(r) \/ OrphanEnds(r)
  BY <1>3 DEF StartCase, EndCase, OrphanEnds, Write
<1> QED
  BY <1>1, <1>2, <1>3 DEF Work

\* A settled directory turns away every run that is still to start.
LEMMA SettledKept ==
    ASSUME RunnerInv, RecordsInv, [Next]_vars, NEW r \in Run, Settled(r)
    PROVE  /\ Settled(r)'
           /\ UNCHANGED <<summary[Audited], records[Audited]>>
<1>1. /\ UNCHANGED <<output, plan>> /\ made \subseteq made'
      /\ pc'[r] = "end" /\ statuses'[r] = statuses[r] /\ digests'[r] = digests[r]
  BY PastKept, AuditedAssumption DEF RunnerInv, RecordsInv, SummaryInv, Earned, Settled
<1>2. /\ author'[Audited] = author[Audited] /\ records'[Audited] = records[Audited]
      /\ logs'[Audited] = logs[Audited] /\ summary'[Audited] = summary[Audited]
      /\ \A q \in Run : output[q] = Audited => pc'[q] \in {"idle", "end"}
  <2>1. ASSUME NEW q \in Run, Work(q) \/ Interrupt(q) \/ OrphanEnds(q), output[q] # Audited
        PROVE  <1>2!:
    <3>1. Confined(q)
      BY <2>1, WorkConfined DEF RunnerInv, RecordsInv
    <3> QED
      BY <2>1, <3>1, AuditedAssumption DEF Confined, Settled
  <2>2. ASSUME NEW q \in Run, Work(q) \/ Interrupt(q) \/ OrphanEnds(q), output[q] = Audited
        PROVE  <1>2!:
    <3>1. pc[q] \in {"idle", "end"} /\ Exists(q, "environment.json") /\ Audited \in made
      BY <2>2, NobodyAssumption DEF Settled, Exists
    <3>2. Start(q) \/ StartRejections(q)
      BY <2>2, <3>1 DEF Work, MakeDir, CheckRaw, HashTree, Preflight, Unsupported,
         WriteEnvironment, OpenRecords, StartCase, EndCase, Rehash, RehashBinary, WriteSummary,
         Interrupt, OrphanEnds, Over, Goto
    <3>3. /\ pc' = [pc EXCEPT ![q] = "end"]
          /\ UNCHANGED <<author, records, logs, summary>>
      BY <2>2, <3>1, <3>2 DEF Start, StartRejections, HasEvidence, files, contents
    <3> QED
      BY <3>3 DEF Settled, RunnerInv, Types
  <2>3. CASE Edit \/ Rebuild \/ Terminating \/ UNCHANGED vars
    BY <2>3 DEF Edit, Rebuild, Terminating, vars, files, Settled
  <2> QED
    BY <2>1, <2>2, <2>3 DEF Next
<1>3. Kept(r)'
  BY <1>1, <1>2 DEF Settled, Kept
<1> QED
  BY <1>1, <1>2, <1>3 DEF Settled

\* The whole matrix is not the rejections.
LEMMA WholeNotRejecting ==
    ASSUME NEW r \in Run, plan[r] = AllCases PROVE ~Rejecting(r)
<1>1. AllCases[1] = 1 /\ RejectionCases[1] = 0
  BY MatrixAssumption DEF AllCases, RejectionCases
<1> QED BY <1>1 DEF Rejecting

\* The whole run that is there when the audit starts has settled.
LEMMA WholeSettled ==
    ASSUME RunnerInv, RecordsInv, WholeRunThere
    PROVE  Settled(author[Audited]["environment.json"])
<1> DEFINE r == summary[Audited].run
<1>1. /\ r \in Run /\ summary[Audited] # Absent /\ summary[Audited].complete /\ ~spoilt
      /\ plan[r] = AllCases
  BY SummaryRun, AuditedAssumption DEF WholeRunThere, RunnerInv
<1>2. pc[r] = "end" /\ output[r] = Audited /\ author[Audited]["environment.json"] = r
  BY <1>1, AuditedAssumption DEF RecordsInv, SaidInv, SoleInv
<1>3. Audited \in made
  BY <1>1, <1>2, NobodyAssumption, AuditedAssumption DEF RunnerInv, FilesInv, AuthorInv, File
<1>4. Kept(r)
  <2>1. ~Rejecting(r)
    BY <1>1, WholeNotRejecting
  <2> QED BY <1>1, <2>1, AuditedAssumption DEF RecordsInv, SoleInv
<1>5. ASSUME NEW q \in Run, output[q] = Audited PROVE pc[q] \in {"idle", "end"}
  BY <1>1, <1>2, <1>5 DEF WholeRunThere, Over, RecordsInv, SoleInv
<1> QED
  BY <1>1, <1>2, <1>3, <1>4, <1>5 DEF Settled

-----------------------------------------------------------------------------
\* The audit

\* An audit changes no file.
LEMMA AuditAlone ==
    ASSUME RunnerInv, RecordsInv, UNCHANGED vars
    PROVE  RunnerInv' /\ RecordsInv'
  BY RunnerStutter, EditQuiet DEF vars

\* Runs go on while an audit has read a part of a directory.
LEMMA RunsKeepAudit ==
    ASSUME AuditInv, [Next]_vars, UNCHANGED audit
    PROVE  AuditInv'
<1> USE DEF AuditInv
<1>1. RunnerInv' /\ RecordsInv'
  BY RunnerKeeps, RecordsKeep
<1>2. AuditTypes'
  BY PastKept DEF AuditTypes, RunnerInv, RecordsInv
<1>3. EvidenceRead'
  <2>1. ASSUME NEW r \in Run, Earned(r) PROVE Earned(r)'
    BY <2>1, PastKept DEF RunnerInv, RecordsInv, Earned, Selected
  <2>2. ReadSays => audit.summary # Absent /\ audit.summary \in {Absent} \cup Says
    BY DEF EvidenceRead, AuditTypes, AuditRecord
  <2>3. ReadSays => audit.summary.run \in Run
    BY <2>2 DEF Says
  <2>4. ASSUME NEW r, ReadSays, audit.summary.complete, r = audit.summary.run
        PROVE  Earned(audit.summary.run)'
    BY <1>2, <2>1, <2>3, <2>4 DEF EvidenceRead, Earned
  <2>5. Judged =>
          /\ seen'[audit.summary.run] = seen[audit.summary.run]
          /\ seen'[audit.environment] = seen[audit.environment]
          /\ plan' = plan
    <3>1. Judged => ReadSays /\ pc[audit.summary.run] = "end"
      BY DEF Judged, ReadSays, EvidenceRead, Earned
    <3>2. Judged => audit.environment \in Run /\ ~Fresh(audit.environment)
      BY DEF Judged, AuditTypes
    <3> QED BY <2>3, <3>1, <3>2, PastKept DEF RunnerInv, RecordsInv
  <2> QED
    BY <2>2, <2>4, <2>5 DEF EvidenceRead, ReadSays, ReadAll, Judged, Rejecting
<1>4. DueInv'
  <2>1. audit.due => /\ Settled(audit.environment)'
                     /\ UNCHANGED <<summary[Audited], records[Audited]>>
    <3>1. audit.due => audit.environment \in Run
      BY DEF DueInv, AuditTypes
    <3>2. ASSUME NEW r \in Run, Settled(r), r = audit.environment
          PROVE  /\ Settled(audit.environment)'
                 /\ UNCHANGED <<summary[Audited], records[Audited]>>
      <4>1. Settled(r)' /\ UNCHANGED <<summary[Audited], records[Audited]>>
        BY <3>2, SettledKept
      <4>2. audit'.environment = r
        BY <3>2
      <4> QED
        BY <4>1, <4>2 DEF Settled, Kept
    <3> QED BY <3>1, <3>2 DEF DueInv
  <2> QED
    BY <2>1 DEF DueInv, ReadSays, ReadAll
<1> QED
  BY <1>1, <1>2, <1>3, <1>4

\* What is due passes each check.
LEMMA DueFacts ==
    ASSUME AuditInv, audit.due
    PROVE  LET r == audit.environment IN
           /\ r \in Run /\ author[Audited]["simulator.jsonl"] # Nobody
           /\ seen[r].binary # Unhashed /\ ~Rejecting(r)
           /\ summary[Audited] # Absent /\ summary[Audited].complete
           /\ summary[Audited].state = "pass" /\ summary[Audited].run = r
           /\ records[Audited] = [i \in 1 .. Matrix |-> r]
           /\ \A i \in 1 .. Matrix :
                /\ plan[r][i] = i
                /\ statuses[r][i] = "pass"
                /\ logs[Audited][plan[r][i]] = digests[r][i]
<1> DEFINE r == audit.environment
<1>1. r \in Run /\ Settled(r)
  BY DEF AuditInv, DueInv, AuditTypes
<1>2. Earned(r) /\ plan[r] = AllCases /\ Selected(r) = Matrix
  BY <1>1, AuditedAssumption, MatrixAssumption
     DEF AuditInv, RunnerInv, SummaryInv, Settled, Earned, Selected, AllCases
<1>3. Kept(r) /\ output[r] = Audited
  BY <1>1 DEF Settled
<1>4. /\ summary[Audited].state = "pass" /\ Len(digests[r]) = Len(statuses[r])
      /\ seen[r].binary # Unhashed
  BY <1>1, AuditedAssumption DEF AuditInv, RecordsInv, SaidInv, Settled
<1>5. Len(statuses[r]) = Matrix /\ \A i \in 1 .. Matrix : statuses[r][i] = "pass"
  BY <1>2 DEF Earned
<1>6. records[Audited] = [i \in 1 .. Matrix |-> r]
  BY <1>3, <1>5 DEF Kept
<1>7. \A i \in 1 .. Matrix : plan[r][i] = i /\ logs[Audited][plan[r][i]] = digests[r][i]
  BY <1>2, <1>3, <1>4, <1>5 DEF Kept, AllCases
<1>8. ~Rejecting(r)
  BY <1>1, <1>2, WholeNotRejecting
<1>9. author[Audited]["simulator.jsonl"] # Nobody
  BY <1>1, <1>3, NobodyAssumption DEF Kept
<1> QED
  BY <1>1, <1>4, <1>5, <1>6, <1>7, <1>8, <1>9 DEF Settled

\* An audit that has read nothing.
LEMMA NothingRead ==
    ASSUME NEW a, a = NoAudit(FALSE)
    PROVE  a \in AuditRecord /\ a.at = "start" /\ ~a.due /\ ~a.refused
<1>1. << >> \in Seq(Run \cup {Nobody})
  OBVIOUS
<1> QED
  BY <1>1 DEF NoAudit, AuditRecord, Stage

\* Nothing is left of an audit that is given up.
LEMMA RefuseStep ==
    ASSUME AuditInv, UNCHANGED vars, audit' = NoAudit(FALSE)
    PROVE  AuditInv'
<1>1. RunnerInv' /\ RecordsInv'
  BY AuditAlone DEF AuditInv
<1>2. audit' \in AuditRecord /\ audit'.at = "start" /\ ~audit'.due /\ ~audit'.refused
  BY NothingRead
<1>3. AuditTypes' /\ EvidenceRead' /\ DueInv'
  BY <1>2 DEF AuditTypes, EvidenceRead, DueInv, ReadSays, ReadAll, Judged
<1> QED
  BY <1>1, <1>3 DEF AuditInv

\* An audit that refuses was not due.
LEMMA NoRefusal ==
    ASSUME AuditInv, UNCHANGED vars, Refuse, ~audit.due
    PROVE  AuditInv'
  BY RefuseStep DEF Refuse, AuditInv, AuditTypes, AuditRecord

\* The environment names a run that has written it; a whole run has settled.
LEMMA ReadEnvironmentStep ==
    ASSUME AuditInv, UNCHANGED vars, ReadEnvironment
    PROVE  AuditInv'
<1> DEFINE e == author[Audited]["environment.json"]
<1> USE DEF AuditInv
<1>1. RunnerInv' /\ RecordsInv'
  BY AuditAlone
<1>2. e \in Run /\ ~Fresh(e)
  BY AuditedAssumption DEF ReadEnvironment, RunnerInv, Types, FreshInv, File
<1>3. /\ audit.at = "start" /\ audit'.at = "environment" /\ audit'.environment = e
      /\ audit'.due = WholeRunThere /\ audit'.refused = audit.refused
      /\ audit' \in AuditRecord
  BY <1>2 DEF ReadEnvironment, AuditTypes, AuditRecord, Stage, WholeRunThere
<1>4. AuditTypes'
  BY <1>2, <1>3 DEF AuditTypes, Fresh, vars
<1>5. EvidenceRead'
  BY <1>3 DEF EvidenceRead, ReadSays, ReadAll, Judged
<1>6. DueInv'
  <2>1. audit'.due => Settled(e)
    BY <1>3, WholeSettled
  <2>2. audit'.due => Settled(audit.environment)'
    BY <1>3, <2>1 DEF Settled, Kept, vars, files, run
  <2> QED
    BY <1>3, <2>2 DEF DueInv, ReadSays, ReadAll
<1> QED
  BY <1>1, <1>4, <1>5, <1>6

\* A step of the audit that keeps the environment it has read keeps what is due.
LEMMA StillSettled ==
    ASSUME AuditInv, UNCHANGED vars, audit'.environment = audit.environment,
           audit'.due = audit.due
    PROVE  /\ audit'.due => Settled(audit.environment)'
           /\ audit.at # "start" => ~Fresh(audit.environment)'
<1>1. audit'.due => Settled(audit.environment)
  BY DEF AuditInv, DueInv
<1>2. audit'.due => Settled(audit.environment)'
  BY <1>1 DEF Settled, Kept, vars, files, run
<1> QED
  BY <1>2 DEF AuditInv, AuditTypes, Fresh, vars

\* A complete summary is that of a run that has earned it.
LEMMA ReadSummaryStep ==
    ASSUME AuditInv, UNCHANGED vars, ReadSummary
    PROVE  AuditInv'
<1> USE DEF AuditInv
<1>1. RunnerInv' /\ RecordsInv'
  BY AuditAlone
<1>2. CASE summary[Audited] = Absent
  <2>1. ~audit.due
    BY <1>2, DueFacts
  <2> QED BY <1>2, <2>1, NoRefusal DEF ReadSummary
<1>3. CASE summary[Audited] # Absent
  <2>1. /\ audit.at = "environment" /\ audit'.at = "summary"
        /\ audit'.environment = audit.environment /\ audit'.summary = summary[Audited]
        /\ audit'.due = audit.due /\ audit'.refused = audit.refused
        /\ audit' \in AuditRecord
    <3>1. summary[Audited] \in {Absent} \cup Says
      BY AuditedAssumption DEF RunnerInv, Types
    <3>2. audit' = [audit EXCEPT !.at = "summary", !.summary = summary[Audited]]
      BY <1>3 DEF ReadSummary
    <3> HIDE DEF AuditInv
    <3> QED BY <3>1, <3>2 DEF ReadSummary, AuditInv, AuditTypes, AuditRecord, Stage
  <2>2. AuditTypes'
    BY <2>1, StillSettled DEF AuditTypes
  <2>3. EvidenceRead'
    <3>1. summary[Audited].complete => Earned(summary[Audited].run)
      BY <1>3, AuditedAssumption DEF RunnerInv, SummaryInv
    <3> QED
      BY <1>3, <2>1, <3>1 DEF EvidenceRead, ReadSays, ReadAll, Judged, Earned, Selected,
         vars, run
  <2>4. DueInv'
    BY <2>1, StillSettled DEF DueInv, ReadSays, ReadAll, vars, files
  <2> QED
    BY <1>1, <2>2, <2>3, <2>4
<1> QED
  BY <1>2, <1>3

\* As many records as the matrix has cases, without a hole.
LEMMA ReadRecordsStep ==
    ASSUME AuditInv, UNCHANGED vars, ReadRecords
    PROVE  AuditInv'
<1> USE DEF AuditInv
<1> DEFINE Fit == /\ author[Audited]["simulator.jsonl"] # Nobody
                  /\ Identity.binary # Unhashed
                  /\ ~Rejecting(audit.environment)
                  /\ Len(records[Audited]) = Matrix
                  /\ \A i \in 1 .. Len(records[Audited]) : records[Audited][i] # Nobody
<1>1. RunnerInv' /\ RecordsInv'
  BY AuditAlone
<1>2. CASE ~Fit
  <2>1. ~audit.due
    <3> SUFFICES ASSUME audit.due PROVE Fit
      BY <1>2
    <3>1. /\ records[Audited] = [i \in 1 .. Matrix |-> audit.environment]
          /\ audit.environment # Nobody
      BY DueFacts, NobodyAssumption
    <3>2. /\ Len(records[Audited]) = Matrix
          /\ \A i \in 1 .. Len(records[Audited]) : records[Audited][i] # Nobody
      BY <3>1, MatrixAssumption
    <3> QED BY <3>2, DueFacts DEF Identity
  <2> QED BY <1>2, <2>1, NoRefusal DEF ReadRecords
<1>3. CASE Fit
  <2>1. /\ audit.at = "summary" /\ audit'.at = "records"
        /\ audit'.environment = audit.environment /\ audit'.summary = audit.summary
        /\ audit'.records = records[Audited]
        /\ audit'.due = audit.due /\ audit'.refused = audit.refused
        /\ audit' \in AuditRecord
    BY <1>3, AuditedAssumption DEF ReadRecords, AuditTypes, AuditRecord, Stage, RecordsInv, RecordTypes
  <2>2. AuditTypes'
    BY <2>1, StillSettled DEF AuditTypes
  <2>3. EvidenceRead'
    BY <1>3, <2>1 DEF EvidenceRead, ReadSays, ReadAll, Judged, Earned, Selected, vars, run
  <2>4. DueInv'
    BY <2>1, StillSettled DEF DueInv, ReadSays, ReadAll, vars, files, contents
  <2> QED
    BY <1>1, <2>2, <2>3, <2>4
<1> QED
  BY <1>2, <1>3

\* A record that one run left of its own passes every check.
LEMMA CheckRecordStep ==
    ASSUME AuditInv, UNCHANGED vars, CheckRecord
    PROVE  AuditInv'
<1> USE DEF AuditInv
<1> DEFINE i == audit.checked + 1
           q == audit.records[i]
           Fit == /\ \A j \in 1 .. i - 1 : CaseOf(j) # CaseOf(i)
                  /\ seen[q] = Identity
                  /\ statuses[q][i] = "pass"
                  /\ logs[Audited][CaseOf(i)] = digests[q][i]
<1>1. RunnerInv' /\ RecordsInv'
  BY AuditAlone
<1>2. CASE ~Fit
  <2>1. ~audit.due
    <3> SUFFICES ASSUME audit.due PROVE Fit
      BY <1>2
    <3>1. audit.at = "records" /\ i \in 1 .. Len(audit.records) /\ i \in Nat
      BY DEF CheckRecord, AuditTypes, AuditRecord
    <3>2. /\ audit.records = [j \in 1 .. Matrix |-> audit.environment]
          /\ Len(audit.records) = Matrix
      BY <3>1, DueFacts, MatrixAssumption DEF DueInv, ReadAll
    <3>3. \A j \in 1 .. Matrix : audit.records[j] = audit.environment
      BY <3>2
    <3>4. \A j \in 1 .. Matrix : CaseOf(j) = j
      BY <3>3, DueFacts DEF CaseOf
    <3>5. \A j \in 1 .. i - 1 : CaseOf(j) # CaseOf(i)
      <4>1. i \in 1 .. Matrix /\ \A j \in 1 .. i - 1 : j \in 1 .. Matrix /\ j # i
        BY <3>1, <3>2, MatrixAssumption
      <4> QED BY <3>4, <4>1
    <3>6. q = audit.environment /\ CaseOf(i) = plan[q][i]
      BY <3>1, <3>2, <3>3 DEF CaseOf
    <3>7. /\ statuses[q][i] = "pass"
          /\ logs[Audited][CaseOf(i)] = digests[q][i]
      <4>1. i \in 1 .. Matrix
        BY <3>1, <3>2
      <4> QED BY <3>6, <4>1, DueFacts
    <3> QED BY <3>5, <3>6, <3>7 DEF Identity
  <2> QED BY <1>2, <2>1, NoRefusal DEF CheckRecord
<1>3. CASE Fit
  <2>1. /\ audit.at = "records" /\ audit'.at = "records"
        /\ audit'.environment = audit.environment /\ audit'.summary = audit.summary
        /\ audit'.records = audit.records
        /\ audit'.due = audit.due /\ audit'.refused = audit.refused
        /\ audit' \in AuditRecord
    BY <1>3 DEF CheckRecord, AuditTypes, AuditRecord
  <2>2. AuditTypes'
    BY <2>1, StillSettled DEF AuditTypes
  <2>3. EvidenceRead'
    BY <2>1 DEF EvidenceRead, ReadSays, ReadAll, Judged, Earned, Selected, vars, run
  <2>4. DueInv'
    BY <2>1, StillSettled DEF DueInv, ReadSays, ReadAll, vars, files, contents
  <2> QED
    BY <1>1, <2>2, <2>3, <2>4
<1> QED
  BY <1>2, <1>3

\* The records are those of the run of the summary.
LEMMA CheckSummaryStep ==
    ASSUME AuditInv, UNCHANGED vars, CheckSummary
    PROVE  AuditInv'
<1> USE DEF AuditInv
<1> DEFINE q == audit.summary.run
           Fit == /\ audit.summary.state = "pass" /\ audit.summary.complete
                  /\ ~Rejecting(q)
                  /\ seen[q] = Identity
                  /\ \A i \in 1 .. Len(audit.records) : audit.records[i] = q
<1>1. RunnerInv' /\ RecordsInv'
  BY AuditAlone
<1>2. CASE ~Fit
  <2>1. ~audit.due
    <3> SUFFICES ASSUME audit.due PROVE Fit
      BY <1>2
    <3>1. audit.summary = summary[Audited] /\ audit.records = records[Audited]
      BY DEF CheckSummary, DueInv, ReadSays, ReadAll
    <3>2. audit.records = [j \in 1 .. Matrix |-> audit.environment] /\ q = audit.environment
      BY <3>1, DueFacts
    <3>3. Len(audit.records) = Matrix
      BY <3>2, MatrixAssumption
    <3> QED BY <3>1, <3>2, <3>3, DueFacts DEF Identity
  <2> QED BY <1>2, <2>1, NoRefusal DEF CheckSummary
<1>3. CASE Fit
  <2>1. /\ audit.at = "records" /\ audit'.at = "source"
        /\ audit'.environment = audit.environment /\ audit'.summary = audit.summary
        /\ audit'.records = audit.records
        /\ audit'.due = audit.due /\ audit'.refused = audit.refused
        /\ audit' \in AuditRecord
    BY <1>3 DEF CheckSummary, AuditTypes, AuditRecord, Stage
  <2>2. AuditTypes'
    BY <2>1, StillSettled DEF AuditTypes
  <2>3. EvidenceRead'
    BY <1>3, <2>1 DEF EvidenceRead, ReadSays, ReadAll, Judged, Earned, Selected, Rejecting,
       Identity, vars, run
  <2>4. DueInv'
    BY <2>1, StillSettled DEF DueInv, ReadSays, ReadAll, vars, files, contents
  <2> QED
    BY <1>1, <2>2, <2>3, <2>4
<1> QED
  BY <1>2, <1>3

\* Only missing sources can end an audit here.
LEMMA CheckSourceStep ==
    ASSUME AuditInv, UNCHANGED vars, CheckSource
    PROVE  AuditInv'
<1> USE DEF AuditInv
<1>1. RunnerInv' /\ RecordsInv'
  BY AuditAlone
<1>2. CASE audit' = NoAudit(FALSE)
  BY <1>2, RefuseStep
<1>3. CASE audit' = [audit EXCEPT !.at = "pass"]
  <2>1. /\ audit.at = "source" /\ audit'.at = "pass"
        /\ audit'.environment = audit.environment /\ audit'.summary = audit.summary
        /\ audit'.records = audit.records
        /\ audit'.due = audit.due /\ audit'.refused = audit.refused
        /\ audit' \in AuditRecord
    BY <1>3 DEF CheckSource, AuditTypes, AuditRecord, Stage
  <2>2. AuditTypes'
    BY <2>1, StillSettled DEF AuditTypes
  <2>3. EvidenceRead'
    BY <2>1 DEF EvidenceRead, ReadSays, ReadAll, Judged, Earned, Selected, Rejecting, vars, run
  <2>4. DueInv'
    BY <2>1, StillSettled DEF DueInv, ReadSays, ReadAll, vars, files, contents
  <2> QED
    BY <1>1, <2>2, <2>3, <2>4
<1> QED
  BY <1>2, <1>3 DEF CheckSource

\* The invariant holds whenever the audits are made.
THEOREM AuditInvariance == AuditSpec => []AuditInv
<1>1. AuditInit => AuditInv
  <2> SUFFICES ASSUME AuditInit PROVE AuditInv
    OBVIOUS
  <2>1. RunnerInv /\ RecordsInv
    BY RunnerInit, RecordsInit DEF AuditInit
  <2>2. audit \in AuditRecord /\ audit.at = "start" /\ ~audit.due /\ ~audit.refused
    BY NothingRead DEF AuditInit
  <2>3. AuditTypes /\ EvidenceRead /\ DueInv
    BY <2>2 DEF AuditTypes, EvidenceRead, DueInv, ReadSays, ReadAll, Judged
  <2> QED
    BY <2>1, <2>3 DEF AuditInv
<1>2. AuditInv /\ [AuditNext]_auditVars => AuditInv'
  <2> SUFFICES ASSUME AuditInv, [AuditNext]_auditVars PROVE AuditInv'
    OBVIOUS
  <2>1. CASE Next /\ UNCHANGED audit
    BY <2>1, RunsKeepAudit
  <2>2. CASE Audit /\ UNCHANGED vars
    BY <2>2, ReadEnvironmentStep, ReadSummaryStep, ReadRecordsStep, CheckRecordStep,
       CheckSummaryStep, CheckSourceStep DEF Audit
  <2>3. CASE UNCHANGED auditVars
    BY <2>3, RunsKeepAudit DEF auditVars
  <2> QED
    BY <2>1, <2>2, <2>3 DEF AuditNext
<1> QED
  BY <1>1, <1>2, PTL DEF AuditSpec

\* An audit that passes has seen one undivided run of the whole matrix, whoever
\* wrote to the directory before it and meanwhile.
THEOREM AuditsMeanOneRun == AuditSpec => []AuditMeansOneRun
<1>1. AuditInv => AuditMeansOneRun
  <2> SUFFICES ASSUME AuditInv, audit.at = "pass"
               PROVE  LET r == audit.summary.run IN
                      /\ plan[r] = AllCases
                      /\ \A i \in 1 .. Matrix : audit.records[i] = r /\ statuses[r][i] = "pass"
                      /\ executed[r] /\ seen[r] = Identity
    BY DEF AuditMeansOneRun
  <2> DEFINE r == audit.summary.run
  <2>1. /\ Earned(r) /\ ~Rejecting(r) /\ seen[r] = Identity
        /\ \A i \in 1 .. Matrix : audit.records[i] = r
    BY DEF AuditInv, EvidenceRead, ReadSays, Judged, Identity
  <2>2. plan[r] = AllCases /\ executed[r]
    BY <2>1 DEF Earned, Rejecting
  <2>3. Selected(r) = Matrix
    BY <2>2, MatrixAssumption DEF Selected, AllCases
  <2> QED
    BY <2>1, <2>2, <2>3 DEF Earned
<1> QED
  BY <1>1, AuditInvariance, PTL

\* No audit refuses what one run has completed and nobody has interfered with.
THEOREM AuditsAcceptComplete == AuditSpec => []AuditAcceptsComplete
<1>1. AuditInv => AuditAcceptsComplete
  BY DEF AuditInv, DueInv, AuditAcceptsComplete
<1> QED
  BY <1>1, AuditInvariance, PTL

=============================================================================
