-------------------------------- MODULE Bf16 --------------------------------
(***************************************************************************)
(* One element of a matrix, bit by bit: rounding from binary32 to BF16,    *)
(* the input contract, and the judges of the element that comes back.      *)
(*                                                                         *)
(* A floating-point number is its bit pattern, a natural number: the sign, *)
(* then the biased exponent, then the fraction.  The field sizes are       *)
(* constants; a BF16 word is the upper part of a binary32 pattern.         *)
(***************************************************************************)
EXTENDS Integers

CONSTANTS
    Half,    \* half of what a BF16 word drops, 0x8000
    Quiet,   \* the upper fraction bit of a word, 0x40
    ExpMax,  \* biased exponent of infinity and NaN, 255
    ExpOne,  \* biased exponent of 1, 127
    ExpLow   \* biased exponent of 2^-8, 119

ASSUME FormatAssumption ==
    /\ Half \in Nat \ {0} /\ Quiet \in Nat \ {0, 1}
    /\ ExpMax \in Nat
    /\ ExpLow \in 1 .. ExpOne /\ ExpOne \in 1 .. ExpMax - 1

Ulp == 2 * Half              \* binary32 patterns from one word to the next
Fraction == 2 * Quiet        \* words of one exponent
Infinity == ExpMax * Fraction
Sign == (ExpMax + 1) * Fraction
Poison == Infinity + Quiet + 1   \* 0x7fc1

Word == 0 .. (2 * Sign) - 1
Float == 0 .. (2 * Sign * Ulp) - 1

\* bits & 0x7fff, and the same of a binary32 pattern.
Magnitude(word) == word % Sign
FloatMagnitude(bits) == bits % (Sign * Ulp)

Finite(word) == Magnitude(word) < Infinity
IsNaN(word) == Magnitude(word) > Infinity
FloatFinite(bits) == FloatMagnitude(bits) < Infinity * Ulp
FloatNaN(bits) == FloatMagnitude(bits) > Infinity * Ulp

-----------------------------------------------------------------------------
\* row_reduce.hpp

Upper(bits) == bits \div Ulp

\* word | 0x40
WithQuiet(word) == IF (word \div Quiet) % 2 = 1 THEN word ELSE word + Quiet

\* bits + 0x7fff + the lowest bit that stays, in 32 bits.
Rounded(bits) == ((bits + (Half - 1) + (Upper(bits) % 2)) % (2 * Sign * Ulp)) \div Ulp

\* Faulty variant: a tie always goes up.
FloatToBf16TiesUp(bits) ==
    IF FloatNaN(bits) THEN WithQuiet(Upper(bits))
    ELSE ((bits + Half) % (2 * Sign * Ulp)) \div Ulp

\* Faulty variant: NaNs are rounded like numbers.
FloatToBf16Plain(bits) == Rounded(bits)

FloatToBf16(bits) ==
    IF FloatNaN(bits) THEN WithQuiet(Upper(bits)) ELSE Rounded(bits)

\* The magnitude of a finite word is zero or in [2^-8, 1].
InContract(word) ==
    /\ Finite(word)
    /\ Magnitude(word) = 0
       \/ Magnitude(word) \in ExpLow * Fraction .. ExpOne * Fraction

\* Faulty variant: the range is tested before the value is rounded.
AcceptedUnrounded(bits) ==
    /\ FloatFinite(bits)
    /\ FloatMagnitude(bits) = 0
       \/ FloatMagnitude(bits) \in ExpLow * Fraction * Ulp .. ExpOne * Fraction * Ulp

Accepted(bits) == FloatFinite(bits) /\ InContract(FloatToBf16(bits))

\* Equal as numbers: bit for bit, or two zeros.
Same(v, w) == v = w \/ (Magnitude(v) = 0 /\ Magnitude(w) = 0)

-----------------------------------------------------------------------------
\* run_matrix.py: its own rounding, in unbounded integers cut to 16 bits.
ExpectedBits(bits) ==
    ((bits + (Half - 1) + (Upper(bits) % 2)) \div Ulp) % (2 * Sign)

-----------------------------------------------------------------------------
VARIABLES
    stage,
    value,      \* the binary32 pattern of the element
    bf16,       \* its word
    readback,   \* the row sum and one padding element, as they are read back
    verdict     \* of the host and of the runner

elementVars == <<stage, value, bf16, readback, verdict>>

Unread == [row |-> 0, padding |-> 0]
Unjudged == [host |-> "none", runner |-> "none"]

ElementInit ==
    /\ stage = "input"
    /\ value \in Float
    /\ bf16 = 0
    /\ readback = Unread
    /\ verdict = Unjudged

\* float_to_bf16 by itself, as cpu_main.cpp calls it on a reference sum and
\* cpu_tests.cpp on patterns of every kind.
Convert ==
    /\ stage = "input"
    /\ stage' = "converted"
    /\ bf16' = FloatToBf16(value)
    /\ UNCHANGED <<value, readback, verdict>>

\* prepare_input: what is not finite is refused before it is rounded.
PrepareInput ==
    /\ stage = "input"
    /\ IF Accepted(value)
         THEN stage' = "upload" /\ bf16' = FloatToBf16(value)
         ELSE stage' = "refused" /\ UNCHANGED bf16
    /\ UNCHANGED <<value, readback, verdict>>

\* The sum of the one-element row as a device may store it: any word in one
\* place and the right one in the other.
Execute ==
    /\ stage = "upload"
    /\ stage' = "judge"
    /\ \E word \in Word :
         readback' \in {[row |-> word, padding |-> 0],
                        [row |-> bf16, padding |-> word]}
    /\ UNCHANGED <<value, bf16, verdict>>

\* Faulty variant: the sign of a zero counts.
PaddingZeroSigned(word) == word = 0

\* run() of metal_main.cpp: row_major & 0x7fff.
PaddingZero(word) == Magnitude(word) = 0

\* compare_rows of an exact pattern.
RowPasses(word) == Finite(word) /\ Same(word, bf16)

\* decode_output: !isfinite(value) || value != 0.
DecoderThrows(word) == ~Finite(word) \/ ~Same(word, 0)

HostVerdict ==
    IF ~RowPasses(readback.row) \/ ~PaddingZero(readback.padding) THEN "fail"
    ELSE IF DecoderThrows(readback.padding) THEN "thrown"
    ELSE "pass"

\* validate_result and decode_output_bits, without the status the host claims.
\* A row that is not finite is printed as null.
RunnerVerdict ==
    IF ~Finite(readback.row) THEN "refused"
    ELSE IF ~Same(readback.row, ExpectedBits(value)) \/ Magnitude(readback.padding) # 0
      THEN "fail"
    ELSE "pass"

Judge ==
    /\ stage = "judge"
    /\ stage' = "judged"
    /\ verdict' = [host |-> HostVerdict, runner |-> RunnerVerdict]
    /\ UNCHANGED <<value, bf16, readback>>

ElementDone == stage \in {"converted", "refused", "judged"} /\ UNCHANGED elementVars

ElementNext == Convert \/ PrepareInput \/ Execute \/ Judge \/ ElementDone

ElementSpec == ElementInit /\ [][ElementNext]_elementVars

-----------------------------------------------------------------------------
\* Every variable stays in its type: a rounded word has 16 bits.
TypeOK ==
    /\ stage \in {"input", "converted", "refused", "upload", "judge", "judged"}
    /\ value \in Float
    /\ bf16 \in Word
    /\ readback \in [row : Word, padding : Word]
    /\ verdict \in [host : {"none", "fail", "thrown", "pass"},
                    runner : {"none", "refused", "fail", "pass"}]

\* The number a magnitude stands for, in units of the smallest binary32
\* subnormal; infinity is where the next exponent would be.
Number(magnitude) ==
    LET exponent == magnitude \div (Fraction * Ulp)
        fraction == magnitude % (Fraction * Ulp)
    IN IF exponent = 0 THEN fraction
       ELSE (Fraction * Ulp + fraction) * 2 ^ (exponent - 1)

Distance(word, bits) ==
    LET d == Number(Magnitude(word) * Ulp) - Number(FloatMagnitude(bits))
    IN IF d < 0 THEN -d ELSE d

\* docs/design.md: "BF16 round-to-nearest-even quantization".  The word of a
\* number has its sign, no other word is nearer to it, and of two that are
\* equally near it is the even one; the carry into the exponent and the one
\* into infinity included.
RoundsToNearestEven ==
    stage \in {"converted", "upload"} /\ ~FloatNaN(value) =>
        /\ bf16 \div Sign = value \div (Sign * Ulp)
        /\ \A word \in 0 .. Infinity \ {Magnitude(bf16)} :
             \/ Distance(bf16, value) < Distance(word, value)
             \/ Distance(bf16, value) = Distance(word, value) /\ bf16 % 2 = 0

\* "NaNs stay NaNs": however small the payload, a NaN becomes neither infinity
\* nor, by a carry out of the word, zero.
NanStaysNan == stage = "converted" /\ FloatNaN(value) => IsNaN(bf16)

\* The host uploads an element exactly if the evidence runner, which rounds it
\* by itself and knows no NaN, accepts the bits, and both have the same bits.
ContractShared ==
    /\ stage = "upload" => bf16 = ExpectedBits(value) /\ InContract(ExpectedBits(value))
    /\ stage = "refused" /\ FloatFinite(value) => ~InContract(ExpectedBits(value))

\* The host and the runner come to the same verdict on every word, negative
\* zeros, NaNs and infinities included; the cross-check of the two decoders
\* never fires; and no place that still holds the poison passes.
JudgesAgree ==
    stage = "judged" =>
        /\ verdict.host # "thrown"
        /\ verdict.host = "pass" <=> verdict.runner = "pass"
        /\ Poison \in {readback.row, readback.padding} => verdict.host # "pass"

=============================================================================
