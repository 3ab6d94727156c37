--------------------------- MODULE EvidenceAudit ---------------------------
(***************************************************************************)
(* The audit of a results directory: audit() and source_bytes() of         *)
(* results/audit/verify_c3.py, made at any time while EvidenceRunner goes  *)
(* on.  The files are read one after the other and the first check that    *)
(* fails ends the audit.                                                   *)
(*                                                                         *)
(* What a log says of its executions (audit_host) is not repeated here: a  *)
(* record that passed has a log that passes.  No two processes take the    *)
(* same wall time.                                                         *)
(***************************************************************************)
EXTENDS EvidenceRunner

CONSTANT Audited  \* the results directory

ASSUME AuditedAssumption == Audited \in Dir

VARIABLE audit

auditVars == <<vars, audit>>

\* An audit that has read nothing yet; refused says that the one before it
\* turned down a run that was due to pass.
NoAudit(refused) ==
    [at |-> "start", environment |-> Nobody, summary |-> Absent, records |-> << >>,
     checked |-> 0, due |-> FALSE, refused |-> refused]

AuditInit == Init /\ audit = NoAudit(FALSE)

\* An audit that fails can be made again.
Refuse == audit' = NoAudit(audit.due)

-----------------------------------------------------------------------------
\* A run of the whole matrix has passed and nobody has interfered with it.
WholeRunThere ==
    /\ ~spoilt
    /\ \A r \in Run : Over(r) \/ pc[r] = "idle"
    /\ summary[Audited] # Absent
    /\ summary[Audited].complete
    /\ plan[summary[Audited].run] = AllCases

ReadEnvironment ==
    /\ audit.at = "start"
    /\ author[Audited]["environment.json"] # Nobody
    /\ audit' = [audit EXCEPT !.at = "environment", !.due = WholeRunThere,
                              !.environment = author[Audited]["environment.json"]]

ReadSummary ==
    /\ audit.at = "environment"
    /\ IF summary[Audited] = Absent THEN Refuse
       ELSE audit' = [audit EXCEPT !.at = "summary", !.summary = summary[Audited]]

Identity == seen[audit.environment]

\* Faulty variant: the required cases are taken from the shapes alone, without
\* the repeated one.
ReadRecordsOfShapes ==
    /\ audit.at = "summary"
    /\ IF /\ author[Audited]["simulator.jsonl"] # Nobody
          /\ Identity.binary # Unhashed
          /\ ~Rejecting(audit.environment)
          /\ Len(records[Audited]) = Matrix - 1
          /\ \A i \in 1 .. Len(records[Audited]) : records[Audited][i] # Nobody
         THEN audit' = [audit EXCEPT !.at = "records", !.records = records[Audited]]
         ELSE Refuse

\* All lines parse; then the checks of the environment and of their number.
ReadRecords ==
    /\ audit.at = "summary"
    /\ IF /\ author[Audited]["simulator.jsonl"] # Nobody
          /\ Identity.binary # Unhashed
          /\ ~Rejecting(audit.environment)
          /\ Len(records[Audited]) = Matrix
          /\ \A i \in 1 .. Len(records[Audited]) : records[Audited][i] # Nobody
         THEN audit' = [audit EXCEPT !.at = "records", !.records = records[Audited]]
         ELSE Refuse

CaseOf(i) == plan[audit.records[i]][i]

\* The next record: its case occurs for the first time, its identity is that of
\* the environment, it passed, and its logs, read now, have the recorded hashes.
CheckRecord ==
    LET i == audit.checked + 1
        r == audit.records[i] IN
    /\ audit.at = "records"
    /\ i <= Len(audit.records)
    /\ IF /\ \A j \in 1 .. i - 1 : CaseOf(j) # CaseOf(i)
          /\ seen[r] = Identity
          /\ statuses[r][i] = "pass"
          /\ logs[Audited][CaseOf(i)] = digests[r][i]
         THEN audit' = [audit EXCEPT !.checked = i]
         ELSE Refuse

\* Faulty variant: the wall times are not added up.
CheckSummaryUntimed ==
    /\ audit.at = "records"
    /\ audit.checked = Len(audit.records)
    /\ IF /\ audit.summary.state = "pass" /\ audit.summary.complete
          /\ ~Rejecting(audit.summary.run)
          /\ seen[audit.summary.run] = Identity
         THEN audit' = [audit EXCEPT !.at = "source"]
         ELSE Refuse

\* The statement of the summary, its identity, and the sum of the wall times.
CheckSummary ==
    /\ audit.at = "records"
    /\ audit.checked = Len(audit.records)
    /\ IF /\ audit.summary.state = "pass" /\ audit.summary.complete
          /\ ~Rejecting(audit.summary.run)
          /\ seen[audit.summary.run] = Identity
          /\ \A i \in 1 .. Len(audit.records) : audit.records[i] = audit.summary.run
         THEN audit' = [audit EXCEPT !.at = "source"]
         ELSE Refuse

\* source_bytes: the files of the manifest are in the checkout as it is now, or
\* in a commit, which holds them or not.
CheckSource ==
    /\ audit.at = "source"
    /\ \/ audit' = [audit EXCEPT !.at = "pass"]
       \/ tree # Identity.tree /\ audit' = NoAudit(FALSE)

Audit ==
    ReadEnvironment \/ ReadSummary \/ ReadRecords \/ CheckRecord \/ CheckSummary \/ CheckSource

AuditNext ==
    \/ Next /\ UNCHANGED audit
    \/ Audit /\ UNCHANGED vars

AuditSpec == AuditInit /\ [][AuditNext]_auditVars

-----------------------------------------------------------------------------
\* An audit that passes has seen one undivided run of the whole matrix, whatever
\* other runs wrote to the directory before or meanwhile: the records are all of
\* that run, every case of it passed, and its processes ran the binary and the
\* sources of the environment.json that was read.
AuditMeansOneRun ==
    audit.at = "pass" =>
        LET r == audit.summary.run IN
        /\ plan[r] = AllCases
        /\ \A i \in 1 .. Matrix : audit.records[i] = r /\ statuses[r][i] = "pass"
        /\ executed[r] /\ seen[r] = Identity

\* An audit accepts what the runner calls complete, if it came after it and no
\* run has interfered; only sources that are gone can be in its way.
AuditAcceptsComplete == ~audit.refused

=============================================================================
