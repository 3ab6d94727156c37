------------------------- MODULE IndependentChecks -------------------------
(***************************************************************************)
(* Three judges of one launch: the host program, validate_result() of      *)
(* tools/run_matrix.py and audit_host() of results/audit/verify_c3.py.     *)
(* Each knows the input patterns and reads the output tiles in its own     *)
(* way, and none may use what another has computed.  HostData is the way   *)
(* of the data; here it gets the words that the patterns give it, and is   *)
(* launched once more with a changed input, as --repeat 2 does.            *)
(*                                                                         *)
(* The rounding budgets are Bf16's subject: a row passes when it is the    *)
(* sum of its elements.  The random words are the generator's outputs, two *)
(* to an element; that the three agree on mt19937 itself is assumed.       *)
(***************************************************************************)
EXTENDS HostData, FiniteSets

CONSTANT Wave  \* rows after which small_integers repeats, 17 in the source

ASSUME WaveAssumption == Wave \in Nat \ {0}

Pattern ==
    {"zero", "one_hot", "ones", "cancellation", "small_integers", "decimals", "random"}

VARIABLES
    pattern,    \* what the record says of this launch
    lucky,      \* all random samples happen to round to 1.0
    iteration,
    quantized,  \* BF16 words of the input, row-major
    previous,   \* those of the launch before
    runner,     \* what validate_result says: "none", "pass" or another word
    auditor     \* what audit_host says

judges == <<runner, auditor>>
checkVars == <<vars, pattern, lucky, iteration, quantized, previous, judges>>

ChecksInit ==
    /\ Init
    /\ pattern \in Pattern
    /\ lucky \in (IF pattern = "random" THEN BOOLEAN ELSE {FALSE})
    /\ iteration = 0
    /\ quantized = Empty
    /\ previous = Empty
    /\ runner = "none"
    /\ auditor = "none"

-----------------------------------------------------------------------------
\* The input patterns, three times

Element == 0 .. Rows * Cols - 1

\* BF16 words.
One == <<"1">>
MinusOne == <<"-1">>
Nil == <<"0">>
Decimal == <<<<"0.1">>, <<"-0.2">>, <<"0.3">>>>

\* Outputs of the generator, a sample and a sign.
Random(first) == IF lucky THEN One ELSE <<"sample", first, "sign", first + 1>>

\* make_input of row_reduce.hpp, rounded.
MadeWord(p, row, col) ==
    CASE p = "ones" -> One
      [] p = "one_hot" -> IF row + 1 = Rows /\ col + 1 = Cols THEN One ELSE Nil
      [] p = "cancellation" ->
           IF col + 1 = Cols /\ Cols % 2 # 0 THEN Nil
           ELSE IF col % 2 = 0 THEN One ELSE MinusOne
      [] p = "small_integers" ->
           IF col < (IF (row % Wave) + 1 < Cols THEN (row % Wave) + 1 ELSE Cols) THEN One ELSE Nil
      [] p = "decimals" -> Decimal[1 + ((row + col) % 3)]
      [] p = "random" -> Random(2 * (row * Cols + col))
      [] OTHER -> Nil

make_input(p) == [e \in Element |-> MadeWord(p, e \div Cols, e % Cols)]

\* expected_input_bytes of run_matrix.py: its generator yields one output for
\* each next(), so an element's place in the stream is what was drawn before it.
ExpectedWord(p, row, col, drawn) ==
    CASE p = "zero" -> Nil
      [] p = "one_hot" -> IF <<row, col>> = <<Rows - 1, Cols - 1>> THEN One ELSE Nil
      [] p = "ones" -> One
      [] p = "cancellation" ->
           IF Cols % 2 = 1 /\ col = Cols - 1 THEN Nil ELSE <<One, MinusOne>>[1 + (col % 2)]
      [] p = "small_integers" ->
           IF \A bound \in {(row % Wave) + 1, Cols} : col < bound THEN One ELSE Nil
      [] p = "decimals" -> Decimal[1 + ((row + col) % 3)]
      [] p = "random" -> Random(drawn)

expected_input_bytes(p) ==
    [e \in Element |->
        ExpectedWord(p, e \div Cols, e % Cols, 2 * Cardinality({k \in Element : k < e}))]

\* check_pattern of verify_c3.py, which takes random words as they come.
check_pattern(p, bits) ==
    p # "random" =>
        \A row \in 0 .. Rows - 1, col \in 0 .. Cols - 1 :
            bits[row * Cols + col] =
                CASE p = "decimals" -> Decimal[1 + ((row + col) % 3)]
                  [] p = "ones" -> One
                  [] p = "one_hot" -> IF row = Rows - 1 /\ col = Cols - 1 THEN One ELSE Nil
                  [] p = "small_integers" ->
                       IF col <= row % Wave /\ col < Cols THEN One ELSE Nil
                  [] p = "cancellation" ->
                       IF Cols % 2 # 0 /\ col = Cols - 1 THEN Nil
                       ELSE IF col % 2 = 0 THEN One ELSE MinusOne
                  [] OTHER -> Nil

-----------------------------------------------------------------------------
\* The output tiles, twice more; the host's own way is HostData's

\* The words of row r, cut out of the row-major input, as labels.
Slice(r) ==
    [c \in 0 .. Cols - 1 |-> LET k == r * Cols + c IN Label(k \div Cols, k % Cols)]

\* decode_output_bits: from coordinates to positions.
Position(row, col) ==
    LET face == (((row % TileSide) \div FaceSide) * 2) + (col \div FaceSide) IN
    (row \div TileSide) * TileElems + face * FaceElems + (row % FaceSide) * FaceSide + (col % FaceSide)

decode_output_bits(bits) ==
    \A row \in 0 .. PaddedRows - 1, col \in 0 .. TileSide - 1 :
        ~(row < Rows /\ col = 0) => bits[Position(row, col)] = Zero

\* Faulty variant: the lower left face comes before the upper right one.
CornersByColumn == <<<<0, 0>>, <<FaceSide, 0>>, <<0, FaceSide>>, <<FaceSide, FaceSide>>>>

Corners == <<<<0, 0>>, <<0, FaceSide>>, <<FaceSide, 0>>, <<FaceSide, FaceSide>>>>

\* output_matrix: the words in serialized order, each put where it belongs.
Cell(n) ==
    LET corner == Corners[1 + ((n \div FaceElems) % 4)] IN
    <<(n \div TileElems) * TileSide + corner[1] + ((n % FaceElems) \div FaceSide),
      corner[2] + (n % FaceSide)>>

output_matrix(bits) ==
    [rc \in Coordinate(PaddedRows, TileSide) |->
        bits[CHOOSE n \in DOMAIN bits : Cell(n) = rc]]

-----------------------------------------------------------------------------
\* The steps: those of HostData, and what the others make of the record

Host(step) == step /\ UNCHANGED <<pattern, lucky, iteration, previous, judges>>

\* Faulty variant: the second launch is always all ones.
RelabelOnes(bits) == "ones"

\* What the words of a launch make of the next one.
Relabel(bits) == IF \A e \in DOMAIN bits : bits[e] = One THEN "zero" ELSE "ones"

MakeInput == Host(Prepare) /\ quantized' = make_input(pattern)

OtherStep ==
    /\ Host(Validate \/ Upload \/ Launch \/ Corrupt \/ ReadBack \/ Decode)
    /\ UNCHANGED quantized

\* validate_result of a record that the host emits: its words are the pattern's,
\* every actual value is in the tiles, and the rows and the padding are right.
RunnerValidates ==
    /\ phase = "done" /\ runner = "none"
    /\ runner' =
         IF quantized # expected_input_bytes(pattern) THEN "bytes"
         ELSE IF \E r \in 0 .. Rows - 1 : OutputBits[Position(r, 0)] # actual[r] THEN "readback"
         ELSE IF decode_output_bits(OutputBits) /\ \A r \in 0 .. Rows - 1 : actual[r] = Slice(r)
           THEN "pass" ELSE "numerical-fail"
    /\ UNCHANGED <<vars, pattern, lucky, iteration, quantized, previous, auditor>>

\* The pattern that the audit expects of a record: the one asked for, or what it
\* makes of the words of the record before.
AuditPattern == IF iteration = 0 THEN pattern ELSE Relabel(previous)

AuditValidates ==
    /\ phase = "done" /\ runner # "none" /\ auditor = "none"
    /\ auditor' =
         LET matrix == output_matrix(OutputBits) IN
         IF AuditPattern # pattern \/ ~check_pattern(AuditPattern, quantized) THEN "pattern"
         ELSE IF \E rc \in DOMAIN matrix : (rc[1] >= Rows \/ rc[2] # 0) /\ matrix[rc] # Zero
           THEN "padding"
         ELSE IF \A r \in 0 .. Rows - 1 : matrix[<<r, 0>>] = actual[r] /\ actual[r] = Slice(r)
           THEN IF quantized = previous THEN "unchanged" ELSE "pass"
         ELSE "numerical"
    /\ UNCHANGED <<vars, pattern, lucky, iteration, quantized, previous, runner>>

\* The second launch of run(): the pattern is chosen by the actual words.
Relaunch ==
    /\ auditor # "none" /\ iteration = 0
    /\ iteration' = 1
    /\ phase' = "prepare"
    /\ previous' = quantized
    /\ pattern' = Relabel(quantized)
    /\ runner' = "none" /\ auditor' = "none"
    /\ corrupt' = FALSE
    /\ UNCHANGED <<shape, padded, words, output, actual, padding_zero, decoded,
                   lucky, quantized>>

Concluded ==
    /\ phase = "rejected" \/ (auditor # "none" /\ iteration = 1)
    /\ UNCHANGED checkVars

ChecksNext ==
    MakeInput \/ OtherStep \/ RunnerValidates \/ AuditValidates \/ Relaunch \/ Concluded

ChecksSpec == ChecksInit /\ [][ChecksNext]_checkVars

-----------------------------------------------------------------------------
\* "Recompute ... from uploaded logical BF16 bytes" and "Enumerate serialized
\* tile/face order, instead of reproducing the host's": the three judges come to
\* one conclusion of every launch, for every shape and pattern, wherever a device
\* is wrong, on the second launch as on the first.
VerdictsAgree ==
    auditor # "none" =>
        LET passed == RowsPass /\ padding_zero IN
        (runner = "pass") = passed /\ (auditor = "pass") = passed

\* "must change on the next launch": the words of a second launch differ from
\* those of the first, also where a pattern or lucky samples made all of them
\* 1.0, so output left over from the first launch cannot pass.
RelaunchDiffers ==
    iteration = 1 /\ phase \notin {"validate", "prepare"} =>
        \E e \in Element : quantized[e] # previous[e]

=============================================================================
