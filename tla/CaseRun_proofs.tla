--------------------------- MODULE CaseRun_proofs ---------------------------
(***************************************************************************)
(* What the status of a case is worth, for any number of records and of    *)
(* lines, against any process.                                             *)
(***************************************************************************)
EXTENDS CaseRun, FiniteSetTheorems, TLAPS

-----------------------------------------------------------------------------
\* The inductive invariant

\* The runner's place, the process and the signals belong together.
PhaseInv ==
    /\ pc \in {"spawn", "wait", "terminate", "grace", "kill", "reap", "classify", "done"}
    /\ child \in {"none", "running", "dead"}
    /\ pc = "spawn" => child = "none"
    /\ pc \in {"wait", "terminate", "grace", "kill"} => child # "none"
    /\ pc \in {"reap", "classify"} => child = "dead"
    /\ pc = "done" => child # "running"
    /\ pc = "classify" => returncode = code

\* Nothing is signalled before the timeout is noted.
TimeoutInv ==
    /\ timed_out \in BOOLEAN
    /\ pc \in {"terminate", "grace", "kill", "reap"} => timed_out
    /\ signalled # {} => timed_out
    /\ pc = "spawn" => ~timed_out
    /\ pc = "done" /\ timed_out => status = "timeout"

StatusInv == (pc # "done" => status = "none") /\ PassIsEvidence

CaseInv == PhaseInv /\ TimeoutInv /\ StatusInv

-----------------------------------------------------------------------------
\* As many inputs as records: no two records have the same.
LEMMA AllDifferent ==
    ASSUME NEW n \in Nat, NEW f, Cardinality({f[i] : i \in 1 .. n}) = n,
           NEW i \in 1 .. n, NEW j \in 1 .. n, i # j
    PROVE  f[i] # f[j]
<1> DEFINE S == 1 .. n
           T == {f[k] : k \in S}
           g == [k \in S |-> f[k]]
<1>1. IsFiniteSet(S) /\ Cardinality(S) = n
  BY FS_Interval
<1>2. g \in Surjection(S, T)
  BY DEF Surjection
<1>3. g \in Injection(S, T)
  BY <1>1, <1>2, FS_SurjSameCardinalityImpliesInj
<1> QED BY <1>3 DEF Injection, IsInjective

\* A status of pass is given only to what PassIsEvidence describes.
LEMMA VerdictIsEvidence ==
    ASSUME CaseInv, Classify
    PROVE  PassIsEvidence'
<1> SUFFICES ASSUME Verdict = "pass" PROVE PassIsEvidence'
  BY DEF Classify, PassIsEvidence
<1>1. /\ ~timed_out /\ returncode = 0 /\ AllJson /\ Len(lines) = Repeat /\ Accepted
      /\ \A i \in 1 .. Repeat : lines[i].verdict = "pass"
  BY DEF Verdict
<1>2. child = "dead" /\ code = 0 /\ signalled = {}
  BY <1>1 DEF CaseInv, PhaseInv, TimeoutInv, Classify
<1>3. executions' = lines
  BY <1>1 DEF Classify, Validated, Accepted
<1>4. ASSUME NEW i \in 1 .. Repeat, NEW j \in 1 .. Repeat, i # j
      PROVE  lines[i].input # lines[j].input
  <2> DEFINE f == [k \in 1 .. Repeat |-> lines[k].input]
  <2>1. Repeat \in Nat /\ Repeat > 1
    BY <1>4, RepeatAssumption
  <2>2. {f[k] : k \in 1 .. Repeat} = {lines[k].input : k \in 1 .. Repeat}
    OBVIOUS
  <2>3. Cardinality({f[k] : k \in 1 .. Repeat}) = Repeat
    BY <1>1, <2>1, <2>2 DEF Accepted
  <2>4. f[i] # f[j]
    BY <1>4, <2>1, <2>3, AllDifferent
  <2> QED BY <2>4
<1> QED BY <1>1, <1>2, <1>3, <1>4 DEF Classify, PassIsEvidence, process

\* Nothing has happened at the start.
LEMMA CaseInit == Init => CaseInv
BY DEF Init, CaseInv, PhaseInv, TimeoutInv, StatusInv, PassIsEvidence

\* Every step of the process and of the runner keeps the invariant.
LEMMA CaseStep == CaseInv /\ [Next]_vars => CaseInv'
<1> SUFFICES ASSUME CaseInv, [Next]_vars PROVE CaseInv'
  OBVIOUS
<1> USE DEF CaseInv, PhaseInv, TimeoutInv, StatusInv
<1>1. CASE WriteLine
  BY <1>1 DEF WriteLine, PassIsEvidence, runner
<1>2. CASE End
  BY <1>2 DEF End, PassIsEvidence, runner
<1>3. CASE Popen
  BY <1>3 DEF Popen, PassIsEvidence
<1>4. CASE PopenFails
  BY <1>4 DEF PopenFails, PassIsEvidence, process
<1>5. CASE WaitReturns
  BY <1>5 DEF WaitReturns, PassIsEvidence, process
<1>6. CASE WaitExpires
  BY <1>6 DEF WaitExpires, PassIsEvidence, process
<1>7. CASE Terminate
  BY <1>7 DEF Terminate, PassIsEvidence, process
<1>8. CASE GraceExpires
  BY <1>8 DEF GraceExpires, PassIsEvidence, process
<1>9. CASE Kill
  BY <1>9 DEF Kill, PassIsEvidence
<1>10. CASE Classify
  <2>1. timed_out => status' = "timeout"
    BY <1>10 DEF Classify, Verdict
  <2>2. PassIsEvidence'
    BY <1>10, VerdictIsEvidence
  <2> QED BY <1>10, <2>1, <2>2 DEF Classify, process
<1>11. CASE UNCHANGED vars
  BY <1>11 DEF vars, runner, process, PassIsEvidence
<1> QED
  BY <1>1, <1>2, <1>3, <1>4, <1>5, <1>6, <1>7, <1>8, <1>9, <1>10, <1>11
     DEF Next, Runner, Terminating

\* The invariant of run_subprocess and run_case holds in every reachable state.
THEOREM CaseInvariance == Spec => []CaseInv
BY CaseInit, CaseStep, PTL DEF Spec

\* A passing case is a process that ended by itself with status 0 and left
\* exactly the records asked for, each accepted and each of another input.
THEOREM PassEarned == Spec => []PassIsEvidence
<1>1. CaseInv => PassIsEvidence
  BY DEF CaseInv, StatusInv
<1> QED BY <1>1, CaseInvariance, PTL

\* Once the runner has sent a signal, the outcome can only be a timeout.
THEOREM BlameFair == Spec => []BlameIsFair
<1>1. CaseInv => BlameIsFair
  BY DEF CaseInv, TimeoutInv, BlameIsFair
<1> QED BY <1>1, CaseInvariance, PTL

\* When run_case classifies or has returned, the process it started is gone.
THEOREM Reaped == Spec => []LeaderReaped
<1>1. CaseInv => LeaderReaped
  BY DEF CaseInv, PhaseInv, LeaderReaped
<1> QED BY <1>1, CaseInvariance, PTL

=============================================================================
