-------------------------- MODULE ProfilerCapture --------------------------
(***************************************************************************)
(* A profiler capture: tools/profile.sh and tools/check_profiler.py.       *)
(* The script refuses to start while the profiler's CSV is there, runs the *)
(* smoke case with --profile, copies the CSV that this left behind, if     *)
(* any, and has it checked.  The checker parses all rows, pairs the begin  *)
(* and end events of the expected zones with a stack per key, and passes   *)
(* when nothing is left open and no zone is absent.                        *)
(*                                                                         *)
(* An event's site stands for the ten fields of the checker's key, of      *)
(* which the zone name is one.  Metal writes the CSV (external): lines     *)
(* that the checker keeps as text, the header, then rows, of which the     *)
(* last may be broken.                                                     *)
(***************************************************************************)
EXTENDS Integers, SequencesExt

CONSTANTS
    Site,      \* keys of events, pairs of a zone and a place in the chip
    Requests,  \* sets of zones that a check may be asked for
    MaxCycle,  \* bound on the counters
    MaxRows    \* bound on the rows below the header

ASSUME SiteAssumption == \A s \in Site : s = <<s[1], s[2]>>

VARIABLES
    csv,        \* the profiler's file
    output,     \* the copy beside the results
    pc,
    expected,   \* expected_zones
    paired,     \* events that the second loop has read
    opened,     \* the stack of begin counters of each key
    counts,
    intervals,
    status      \* of the validation, "none" before it is written

pairing == <<paired, opened, counts, intervals>>
vars == <<csv, output, pc, expected, pairing, status>>

Phases == {"ZONE_START", "ZONE_END"}
Row == [site : Site, type : Phases, time : 0 .. MaxCycle]
       \cup [site : Site, type : {"ZONE_TOTAL"}, time : {0}]

\* A file: who wrote it, the header that is found in it, its event rows, and
\* whether one row below them is broken.
NoRows == [by |-> "nobody", header |-> "none", rows |-> << >>, broken |-> FALSE]

\* An earlier capture left its file behind, or somebody archived it.
EarlierRows ==
    LET sites == SetToSeq(Site) IN
    [k \in 1 .. 2 * Len(sites) |->
        [site |-> sites[(k + 1) \div 2],
         type |-> IF k % 2 = 1 THEN "ZONE_START" ELSE "ZONE_END",
         time |-> 0]]

Init ==
    /\ csv \in {NoRows, [NoRows EXCEPT !.by = "earlier", !.header = "pinned", !.rows = EarlierRows]}
    /\ output = NoRows
    /\ pc = "start"
    /\ expected \in Requests
    /\ paired = 0
    /\ opened = [s \in Site |-> << >>]
    /\ counts = [z \in expected |-> 0]
    /\ intervals = << >>
    /\ status = "none"

-----------------------------------------------------------------------------
\* Faulty variant: a file that is there is left to the profiler.
StartAnyway ==
    /\ pc = "start"
    /\ pc' = "run"
    /\ UNCHANGED <<csv, output, expected, pairing, status>>

\* [[ -e "${profiler_csv}" ]]
Start ==
    /\ pc = "start"
    /\ pc' = IF csv.by = "nobody" THEN "run" ELSE "stopped"
    /\ UNCHANGED <<csv, output, expected, pairing, status>>

\* The profiler's writer (external).
Metal(file) == csv' = [file EXCEPT !.by = IF @ = "nobody" THEN "this" ELSE @]

WriteHeader ==
    /\ csv.header = "none"
    /\ \E header \in {"none", "pinned", "other"} : Metal([csv EXCEPT !.header = header])

WriteRow ==
    /\ csv.header = "pinned" /\ ~csv.broken
    /\ Len(csv.rows) < MaxRows
    /\ \/ \E row \in Row : Metal([csv EXCEPT !.rows = Append(@, row)])
       \/ Metal([csv EXCEPT !.broken = TRUE])

WriteCsv ==
    /\ pc = "run"
    /\ WriteHeader \/ WriteRow
    /\ UNCHANGED <<output, pc, expected, pairing, status>>

\* run_matrix.py ends; when it fails, set -e ends the script.
RunEnds ==
    /\ pc = "run"
    /\ pc' \in {"copy", "stopped"}
    /\ UNCHANGED <<csv, output, expected, pairing, status>>

Copy ==
    /\ pc = "copy"
    /\ output' = csv
    /\ pc' = "parse"
    /\ UNCHANGED <<csv, expected, pairing, status>>

Report(verdict) == status' = verdict /\ pc' = "stopped"

\* The file is missing, a row is broken, or there is no header or no event.
Unreadable(file) == file.header # "pinned" \/ file.broken \/ file.rows = << >>

\* The first loop of validate_csv reads every row before any is paired.
Parse ==
    /\ pc = "parse"
    /\ IF Unreadable(output) THEN Report("fail") ELSE pc' = "pair" /\ UNCHANGED status
    /\ UNCHANGED <<csv, output, expected, pairing>>

\* There is a begin to the end e, and not after it.
Closes(e) == opened[e.site] # << >> /\ Last(opened[e.site]) <= e.time

\* Faulty variant: the first of the begin counters is taken, not the last.
CloseFirst(e) ==
    /\ e.type = "ZONE_END"
    /\ Closes(e)
    /\ opened' = [opened EXCEPT ![e.site] = Tail(@)]
    /\ counts' = [counts EXCEPT ![e.site[1]] = @ + 1]
    /\ intervals' = Append(intervals,
         [site |-> e.site, begin |-> Head(opened[e.site]), end |-> e.time])

Close(e) ==
    /\ e.type = "ZONE_END"
    /\ Closes(e)
    /\ opened' = [opened EXCEPT ![e.site] = Front(@)]
    /\ counts' = [counts EXCEPT ![e.site[1]] = @ + 1]
    /\ intervals' = Append(intervals,
         [site |-> e.site, begin |-> Last(opened[e.site]), end |-> e.time])

OpenZone(e) ==
    /\ e.type = "ZONE_START"
    /\ opened' = [opened EXCEPT ![e.site] = Append(@, e.time)]
    /\ UNCHANGED <<counts, intervals>>

Skip(e) ==
    /\ e.site[1] \notin expected
    /\ UNCHANGED <<opened, counts, intervals>>

\* An end without a begin or before it, or another phase.
Unpaired(e) ==
    \/ e.type \notin Phases
    \/ e.type = "ZONE_END" /\ ~Closes(e)

Pair ==
    /\ pc = "pair"
    /\ paired < Len(output.rows)
    /\ LET e == output.rows[paired + 1] IN
       \/ /\ Skip(e) \/ (e.site[1] \in expected /\ (OpenZone(e) \/ Close(e)))
          /\ paired' = paired + 1
          /\ UNCHANGED <<pc, status>>
       \/ /\ e.site[1] \in expected /\ Unpaired(e)
          /\ Report("fail")
          /\ UNCHANGED pairing
    /\ UNCHANGED <<csv, output, expected>>

\* Faulty variant: a zone that is still open is not looked for.
ConcludeOpen ==
    /\ pc = "pair"
    /\ paired = Len(output.rows)
    /\ Report(IF \A z \in expected : counts[z] > 0 THEN "pass" ELSE "fail")
    /\ UNCHANGED <<csv, output, expected, pairing>>

Conclude ==
    /\ pc = "pair"
    /\ paired = Len(output.rows)
    /\ Report(IF /\ \A s \in Site : opened[s] = << >>
                 /\ \A z \in expected : counts[z] > 0
                THEN "pass" ELSE "fail")
    /\ UNCHANGED <<csv, output, expected, pairing>>

Stopped == pc = "stopped" /\ UNCHANGED vars

Next ==
    \/ Start \/ WriteCsv \/ RunEnds \/ Copy
    \/ Parse \/ Pair \/ Conclude
    \/ Stopped

Spec == Init /\ [][Next]_vars

-----------------------------------------------------------------------------
\* What the rows say, without a stack: an end belongs to the last begin of its
\* key before which as many zones of the key have begun as ended since.
Copied == output.rows
Counted(s, type, i, j) == Cardinality({k \in i .. j : Copied[k].site = s /\ Copied[k].type = type})
Balanced(s, i, j) == Counted(s, "ZONE_START", i, j) = Counted(s, "ZONE_END", i, j)
Ends == {j \in DOMAIN Copied : Copied[j].site[1] \in expected /\ Copied[j].type = "ZONE_END"}
BeginsOf(j) ==
    {i \in 1 .. j - 1 : /\ Copied[i].site = Copied[j].site
                        /\ Copied[i].type = "ZONE_START"
                        /\ Balanced(Copied[j].site, i, j)
                        /\ \A k \in i + 1 .. j - 1 : Balanced(Copied[j].site, k, j) =>
                               Copied[k].site # Copied[j].site \/ Copied[k].type = "ZONE_END"}

\* A capture passes exactly when its rows are whole, every expected zone occurs,
\* and at every key all zones that began have ended, none earlier than it began.
PassMeansPaired ==
    (pc = "stopped" /\ status # "none") =>
        (status = "pass" <=>
            /\ ~Unreadable(output)
            /\ \A k \in DOMAIN Copied : Copied[k].site[1] \in expected => Copied[k].type \in Phases
            /\ \A s \in Site : s[1] \in expected => Balanced(s, 1, Len(Copied))
            /\ \A j \in Ends : \E i \in BeginsOf(j) : Copied[i].time <= Copied[j].time
            /\ \A z \in expected : \E j \in Ends : Copied[j].site[1] = z)

\* The intervals of a report are the zones of the capture: each end is listed
\* once, with the counter of the begin it closes, also where zones are nested or
\* the rows of several processors are mixed.
IntervalsAreZones ==
    status = "pass" =>
        /\ Len(intervals) = Cardinality(Ends)
        /\ \A j \in Ends : \A i \in BeginsOf(j) :
             intervals[Cardinality({k \in Ends : k <= j})]
                 = [site |-> Copied[j].site, begin |-> Copied[i].time, end |-> Copied[j].time]

\* "require a newly created profiler CSV": rows that an earlier capture left are
\* never reported as this one's, also when this run wrote none.
CaptureIsNew == status = "pass" => output.by = "this"

=============================================================================
