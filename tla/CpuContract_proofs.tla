------------------------- MODULE CpuContract_proofs -------------------------
(***************************************************************************)
(* Proofs about the CPU contract and those who check against it.           *)
(*                                                                         *)
(* First one element (Bf16), for every size of the fields: the rounding on *)
(* bit patterns, then on the numbers that the patterns stand for, and the  *)
(* judges of the element that comes back.                                  *)
(*                                                                         *)
(* Then a whole matrix (HostData, IndependentChecks), for every side of    *)
(* the faces and every shape: the tile-face layout is one-to-one and onto, *)
(* so each step of the data's way is undone by the one that reads it, and  *)
(* three judges with arithmetic of their own see the same rows.            *)
(***************************************************************************)
EXTENDS Bf16, IndependentChecks, FiniteSetTheorems, TLAPS

-----------------------------------------------------------------------------
\* Quotients

\* A number is its quotient and its remainder.
LEMMA Euclid ==
    ASSUME NEW n \in Nat \ {0}, NEW a \in Nat
    PROVE  /\ a = n * (a \div n) + (a % n)
           /\ a % n \in 0 .. n - 1
           /\ a \div n \in Nat
OBVIOUS

\* The remainder determines the quotient: two representations are one.
LEMMA UniqueQuotient ==
    ASSUME NEW n \in Nat \ {0},
           NEW p \in Int, NEW x \in 0 .. n - 1,
           NEW q \in Int, NEW y \in 0 .. n - 1,
           n * p + x = n * q + y
    PROVE  p = q /\ x = y
<1> DEFINE d == p - q
<1>1. d \in Int /\ n * d = y - x
  OBVIOUS
<1> HIDE DEF d
<1>2. CASE d >= 1
  <2>1. n * d >= n
    BY <1>1, <1>2
  <2> QED BY <1>1, <2>1
<1>3. CASE d <= -1
  <2>1. n * d <= -n
    BY <1>1, <1>3
  <2> QED BY <1>1, <2>1
<1>4. d = 0
  BY <1>1, <1>2, <1>3
<1>5. p = q
  BY <1>4 DEF d
<1> QED BY <1>1, <1>4, <1>5

\* Division, from the quotient and the remainder.
LEMMA Quotient ==
    ASSUME NEW n \in Nat \ {0}, NEW a \in Nat,
           NEW q \in Int, NEW r \in 0 .. n - 1,
           a = n * q + r
    PROVE  a \div n = q /\ a % n = r
<1>1. a = n * (a \div n) + (a % n) /\ a % n \in 0 .. n - 1 /\ a \div n \in Int
  OBVIOUS
<1> DEFINE p == a \div n
           x == a % n
<1>2. n * p + x = n * q + r /\ x \in 0 .. n - 1 /\ p \in Int
  BY <1>1
<1> HIDE DEF p, x
<1>3. p = q /\ x = r
  BY <1>2, UniqueQuotient
<1> QED BY <1>3 DEF p, x

-----------------------------------------------------------------------------
\* Adding half less one, and the lowest bit that stays, rounds to the nearest
\* multiple and resolves a tie to the even one.
LEMMA RoundNearest ==
    ASSUME NEW h \in Nat \ {0}, NEW x \in Nat, NEW q,
           q = (x + (h - 1) + ((x \div (2 * h)) % 2)) \div (2 * h)
    PROVE  /\ q \in {x \div (2 * h), (x \div (2 * h)) + 1}
           /\ x - q * (2 * h) <= h /\ q * (2 * h) - x <= h
           /\ x - q * (2 * h) = h \/ q * (2 * h) - x = h => q % 2 = 0
<1> DEFINE u == 2 * h
           k == x \div u
           r == x % u
           e == k % 2
           t == x + (h - 1) + e
<1>1. u \in Nat \ {0} /\ u = h + h
  OBVIOUS
<1>2. k \in Nat /\ r \in 0 .. u - 1 /\ x = u * k + r
  BY <1>1, Euclid
<1>3. e \in 0 .. 1 /\ (e = 1 => (k + 1) % 2 = 0) /\ (e = 0 => k % 2 = 0)
  BY <1>2
<1>4. t \in Nat /\ q = t \div u
  BY <1>2, <1>3
<1> HIDE DEF u, k, r, e
<1>6. u * k \in Nat /\ u * (k + 1) = u * k + u
  BY <1>1, <1>2
<1>7. t = u * k + (r + (h - 1) + e)
  BY <1>1, <1>2, <1>3, <1>6
<1> HIDE DEF t
<1>8. CASE r + (h - 1) + e < u
  <2>1. r + (h - 1) + e \in 0 .. u - 1
    BY <1>1, <1>2, <1>3, <1>8
  <2>2. t \div u = k
    BY <1>1, <1>2, <1>4, <1>7, <2>1, Quotient
  <2>3. r <= h /\ (r = h => k % 2 = 0)
    BY <1>1, <1>2, <1>3, <1>8
  <2>4. q = k /\ k * u = u * k
    BY <1>1, <1>2, <1>4, <2>2
  <2>5. x - q * u = r /\ q * u - x = -r
    BY <1>2, <1>6, <2>4
  <2> QED
    BY <1>1, <1>2, <2>3, <2>4, <2>5 DEF u, k
<1>9. CASE r + (h - 1) + e >= u
  <2>1. r + (h - 1) + e - u \in 0 .. u - 1
    BY <1>1, <1>2, <1>3, <1>9
  <2>2. t = u * (k + 1) + (r + (h - 1) + e - u)
    BY <1>1, <1>2, <1>3, <1>6, <1>7
  <2>3. t \div u = k + 1
    BY <1>1, <1>2, <1>4, <2>1, <2>2, Quotient
  <2>4. r >= h /\ (r = h => (k + 1) % 2 = 0)
    BY <1>1, <1>2, <1>3, <1>9
  <2>5. q = k + 1 /\ (k + 1) * u = u * (k + 1)
    BY <1>1, <1>2, <1>4, <2>3
  <2>6. q * u - x = u - r /\ x - q * u = r - u
    BY <1>1, <1>2, <1>6, <2>5
  <2> QED
    BY <1>1, <1>2, <2>4, <2>5, <2>6 DEF u, k
<1> QED
  BY <1>1, <1>2, <1>3, <1>8, <1>9

\* The fields fit into their words.
LEMMA Fields ==
    /\ Ulp \in Nat /\ Ulp >= 2 /\ Ulp = Half + Half
    /\ Infinity \in Nat /\ Fraction \in Nat /\ Fraction = Quiet + Quiet
    /\ Sign \in Nat /\ Sign = Infinity + Fraction /\ Infinity > 0
    /\ Sign * Ulp \in Nat /\ Infinity * Ulp \in Nat
    /\ Sign * Ulp >= Infinity * Ulp + Ulp
    /\ 2 * Sign * Ulp = Sign * Ulp + Sign * Ulp
    /\ Sign * Ulp > 0
<1>1. Half \in Nat \ {0} /\ Quiet \in Nat \ {0, 1} /\ ExpMax \in Nat \ {0}
  BY FormatAssumption
<1>2. Ulp \in Nat /\ Ulp >= 2 /\ Ulp = Half + Half
  BY <1>1 DEF Ulp
<1>3. Fraction \in Nat /\ Fraction = Quiet + Quiet /\ Fraction >= 4
  BY <1>1 DEF Fraction
<1>4. Infinity \in Nat /\ Infinity > 0 /\ Sign = Infinity + Fraction
  BY <1>1, <1>3 DEF Infinity, Sign
<1>5. Sign * Ulp = Infinity * Ulp + Fraction * Ulp
  BY <1>2, <1>3, <1>4
<1>6. Infinity * Ulp \in Nat /\ Fraction * Ulp >= Ulp
  BY <1>2, <1>3, <1>4
<1>7. 2 * Sign * Ulp = Sign * Ulp + Sign * Ulp
  BY <1>2, <1>3, <1>4
<1> QED
  BY <1>2, <1>3, <1>4, <1>5, <1>6, <1>7

\* A binary32 pattern is its sign and its magnitude.
LEMMA Parts ==
    ASSUME NEW x \in Float
    PROVE  \E s \in {0, 1} :
             /\ x = s * (Sign * Ulp) + FloatMagnitude(x)
             /\ FloatMagnitude(x) \in 0 .. (Sign * Ulp) - 1
             /\ s = x \div (Sign * Ulp)
<1> DEFINE n == Sign * Ulp
<1>1. n \in Nat \ {0} /\ x \in Nat /\ x < n + n
  BY Fields DEF Float
<1> HIDE DEF n
<1>2. x = n * (x \div n) + (x % n) /\ x % n \in 0 .. n - 1 /\ x \div n \in Nat
  BY <1>1, Euclid
<1>3. x \div n <= 1
  <2> SUFFICES ASSUME x \div n >= 2 PROVE FALSE
    BY <1>2
  <2>1. n * (x \div n) >= n * 2
    BY <1>1, <1>2
  <2> QED
    BY <1>1, <1>2, <2>1
<1>4. x \div n \in {0, 1} /\ x = (x \div n) * n + (x % n)
  BY <1>1, <1>2, <1>3
<1> QED
  BY <1>2, <1>4 DEF n, FloatMagnitude

\* A number is rounded without a carry out of the word, so that the two ways of
\* cutting the sum to 16 bits agree.
LEMMA NoWrap ==
    ASSUME NEW x \in Float, ~FloatNaN(x)
    PROVE  /\ FloatToBf16(x) = (x + (Half - 1) + (Upper(x) % 2)) \div Ulp
           /\ ExpectedBits(x) = FloatToBf16(x)
           /\ FloatToBf16(x) \in Word
<1> DEFINE t == x + (Half - 1) + (Upper(x) % 2)
           q == t \div Ulp
<1>1. PICK s \in {0, 1} : x = s * (Sign * Ulp) + FloatMagnitude(x)
                          /\ FloatMagnitude(x) \in 0 .. (Sign * Ulp) - 1
  BY Parts
<1>2. x \in Nat /\ Half \in Nat \ {0} /\ Ulp \in Nat \ {0}
  BY Fields, FormatAssumption DEF Float
<1>3. Upper(x) \in Nat /\ Upper(x) % 2 \in 0 .. 1
  <2>1. Upper(x) \in Nat
    BY <1>2, Euclid DEF Upper
  <2> QED
    BY <2>1
<1>4. FloatMagnitude(x) <= Infinity * Ulp
  BY <1>1, Fields DEF FloatNaN
<1>5. t \in Nat /\ t < 2 * Sign * Ulp
  <2>1. t \in Nat /\ t <= x + Half
    BY <1>2, <1>3
  <2>2. s * (Sign * Ulp) <= Sign * Ulp /\ s * (Sign * Ulp) \in Nat
    BY Fields
  <2> QED
    BY <1>1, <1>2, <1>4, <2>1, <2>2, Fields
<1> HIDE DEF t
<1>6. t % (2 * Sign * Ulp) = t
  BY <1>5, Fields
<1>7. q \in Nat /\ t = Ulp * q + (t % Ulp) /\ t % Ulp \in 0 .. Ulp - 1
  BY <1>2, <1>5, Euclid
<1> HIDE DEF q
<1> DEFINE range == 2 * Sign
<1>8. range \in Nat \ {0} /\ Ulp * range = 2 * Sign * Ulp
  BY <1>2, Fields
<1>9. q < range
  <2> SUFFICES ASSUME q >= range PROVE FALSE
    BY <1>7, <1>8
  <2> HIDE DEF range
  <2>0. q \in Nat /\ range \in Nat /\ Ulp \in Nat
    BY <1>2, <1>7, <1>8
  <2>1. Ulp * q >= Ulp * range
    BY <2>0
  <2>2. t >= Ulp * q /\ t < Ulp * range
    <3>1. Ulp * q \in Nat
      BY <2>0
    <3> QED
      BY <1>5, <1>7, <1>8, <3>1
  <2>3. Ulp * q \in Nat /\ Ulp * range \in Nat
    BY <2>0
  <2> QED
    BY <1>5, <2>1, <2>2, <2>3
<1>10. q % range = q
  <2> HIDE DEF range
  <2> QED
    BY <1>7, <1>8, <1>9
<1>11. FloatToBf16(x) = q
  BY <1>6 DEF FloatToBf16, Rounded, t, q
<1>12. ExpectedBits(x) = q
  BY <1>10 DEF ExpectedBits, t, q
<1>13. q \in Word
  BY <1>7, <1>8, <1>9 DEF Word
<1> QED
  BY <1>11, <1>12, <1>13 DEF t, q

\* Rounding to the nearest word: no number is further from its word than half
\* the distance of two range, and a tie has the even one.
LEMMA NearestPattern ==
    ASSUME NEW x \in Float, ~FloatNaN(x)
    PROVE  LET q == FloatToBf16(x) IN
           /\ q \in Word
           /\ x - q * Ulp <= Half /\ q * Ulp - x <= Half
           /\ x - q * Ulp = Half \/ q * Ulp - x = Half => q % 2 = 0
<1>1. x \in Nat /\ Half \in Nat \ {0}
  BY Fields, FormatAssumption DEF Float
<1>2. FloatToBf16(x) \in Word
      /\ FloatToBf16(x) = (x + (Half - 1) + ((x \div (2 * Half)) % 2)) \div (2 * Half)
  BY NoWrap DEF Upper, Ulp
<1> QED
  BY <1>1, <1>2, RoundNearest DEF Ulp

\* A NaN stays a NaN: the quiet bit, if it was not set, makes the word one
\* without leaving the exponent.
LEMMA NanWord ==
    ASSUME NEW x \in Float, FloatNaN(x)
    PROVE  FloatToBf16(x) \in Word /\ IsNaN(FloatToBf16(x))
<1> DEFINE w == Upper(x)
           m == FloatMagnitude(x)
           g == m \div Ulp
<1>1. PICK s \in {0, 1} : x = s * (Sign * Ulp) + m /\ m \in 0 .. (Sign * Ulp) - 1
  BY Parts
<1>2. m > Infinity * Ulp
  BY DEF FloatNaN
<1>sizes. Ulp \in Nat \ {0} /\ Sign \in Nat \ {0} /\ Infinity \in Nat
  BY Fields
<1>3. g \in Nat /\ m = Ulp * g + (m % Ulp) /\ m % Ulp \in 0 .. Ulp - 1
  <2>1. Ulp \in Nat \ {0} /\ m \in Nat
    BY <1>1, Fields
  <2> HIDE DEF m
  <2> QED
    BY <2>1, Euclid
<1>4. x \in Nat /\ w \in Nat /\ w = x \div Ulp
  <2>1. Ulp \in Nat \ {0} /\ x \in Nat
    BY Fields DEF Float
  <2> QED
    BY <2>1, Euclid DEF Upper
<1> HIDE DEF w, m, g
<1>5. g < Sign
  <2> SUFFICES ASSUME g >= Sign PROVE FALSE
    BY <1>3, Fields
  <2>1. Ulp * g >= Sign * Ulp
    BY <1>3, Fields
  <2> QED
    BY <1>1, <1>3, <2>1, Fields
<1>6. g >= Infinity
  <2> SUFFICES ASSUME g + 1 <= Infinity PROVE FALSE
    BY <1>3, Fields
  <2>1. Ulp * (g + 1) <= Ulp * Infinity
    BY <1>3, Fields
  <2>2. Ulp * (g + 1) = Ulp * g + Ulp /\ Ulp * Infinity = Infinity * Ulp
    BY <1>3, <1>sizes
  <2>3. Ulp * g \in Nat
    BY <1>3, <1>sizes
  <2> QED
    BY <1>1, <1>2, <1>3, <2>1, <2>2, <2>3, Fields
<1>7. w = s * Sign + g
  <2>1. s * Sign \in Nat /\ Ulp * (s * Sign) = s * (Sign * Ulp)
    BY Fields
  <2>2. Ulp * (s * Sign + g) = Ulp * (s * Sign) + Ulp * g
    BY <1>3, <2>1, Fields
  <2> DEFINE v == s * Sign + g
  <2>3. v \in Int
    BY <1>3, <2>1
  <2>4. Ulp * g \in Nat /\ Ulp * v = s * (Sign * Ulp) + Ulp * g
    <3>1. Ulp * g \in Nat
      BY <1>3, <1>sizes
    <3> QED
      BY <2>1, <2>2, <3>1
  <2> HIDE DEF v
  <2>5. x = Ulp * v + (m % Ulp)
    BY <1>1, <1>3, <2>1, <2>3, <2>4, Fields
  <2>6. w = v
    BY <1>3, <1>4, <1>sizes, <2>3, <2>5, Quotient
  <2> QED
    BY <2>6 DEF v
<1>8. ASSUME NEW a \in 0 .. Sign - 1
      PROVE  Magnitude(s * Sign + a) = a /\ s * Sign + a \in Word
  <2>1. s * Sign + a \in Nat /\ s * Sign + a = Sign * s + a /\ Sign \in Nat \ {0}
    BY Fields
  <2>2. (s * Sign + a) % Sign = a
    BY <2>1, Quotient
  <2>3. s * Sign + a < 2 * Sign
    BY Fields
  <2> QED
    BY <2>1, <2>2, <2>3 DEF Magnitude, Word
<1> DEFINE f == g - Infinity
           k == 2 * (s * (ExpMax + 1) + ExpMax)
<1>9. f \in 0 .. Fraction - 1 /\ Quiet \in Nat \ {0} /\ k \in Nat
  BY <1>3, <1>5, <1>6, Fields, FormatAssumption
<1>10. w = Quiet * k + f
  <2>1. Fraction * (s * (ExpMax + 1) + ExpMax) = s * Sign + Infinity
    BY FormatAssumption, Fields DEF Sign, Infinity
  <2>2. Quiet * k = Fraction * (s * (ExpMax + 1) + ExpMax)
    BY FormatAssumption, Fields
  <2> QED
    BY <1>3, <1>7, <2>1, <2>2, Fields
<1>11. k % 2 = 0
  BY FormatAssumption
<1> HIDE DEF f, k
<1>12. FloatToBf16(x) = IF (w \div Quiet) % 2 = 1 THEN w ELSE w + Quiet
  BY DEF FloatToBf16, WithQuiet, w
<1>13. CASE f < Quiet
  <2>1. w \div Quiet = k
    BY <1>4, <1>9, <1>10, <1>13, Quotient
  <2>2. g + Quiet \in 0 .. Sign - 1 /\ g + Quiet > Infinity
    BY <1>3, <1>6, <1>9, <1>13, Fields DEF f
  <2>3. FloatToBf16(x) = s * Sign + (g + Quiet)
    BY <1>3, <1>7, <1>9, <1>11, <1>12, <2>1, Fields
  <2> QED
    BY <1>8, <2>2, <2>3 DEF IsNaN
<1>14. CASE f >= Quiet
  <2>1. Quiet * (k + 1) = Quiet * k + Quiet /\ f - Quiet \in 0 .. Quiet - 1
    BY <1>9, <1>14, Fields
  <2>2. w \div Quiet = k + 1
    <3>1. w = Quiet * (k + 1) + (f - Quiet) /\ k + 1 \in Int
      BY <1>9, <1>10, <2>1
    <3> QED
      BY <1>4, <1>9, <2>1, <3>1, Quotient
  <2>3. (k + 1) % 2 = 1
    BY <1>9, <1>11
  <2>4. g \in 0 .. Sign - 1 /\ g > Infinity
    BY <1>3, <1>5, <1>9, <1>14, Fields DEF f
  <2>5. FloatToBf16(x) = s * Sign + g
    BY <1>7, <1>12, <2>2, <2>3
  <2> QED
    BY <1>8, <2>4, <2>5 DEF IsNaN
<1> QED
  BY <1>9, <1>13, <1>14

-----------------------------------------------------------------------------
\* What every stage knows of the element: how it was rounded, that only an
\* accepted one goes on, and what was judged.
ElementInv ==
    /\ TypeOK
    /\ stage = "converted" => bf16 = FloatToBf16(value)
    /\ stage \in {"upload", "judge", "judged"} =>
         Accepted(value) /\ bf16 = FloatToBf16(value)
    /\ stage = "refused" => ~Accepted(value)
    /\ stage = "judged" => verdict = [host |-> HostVerdict, runner |-> RunnerVerdict]

\* Numbers and NaNs alike become words.
LEMMA RoundedWord ==
    ASSUME NEW x \in Float
    PROVE  FloatToBf16(x) \in Word
BY NoWrap, NanWord

\* The invariant of one element holds in every reachable state.
THEOREM ElementInvariance == ElementSpec => []ElementInv
<1>1. ElementInit => ElementInv
  <2> SUFFICES ASSUME ElementInit PROVE ElementInv
    OBVIOUS
  <2>1. 0 \in Word
    BY Fields DEF Word
  <2> QED
    BY <2>1 DEF ElementInit, ElementInv, TypeOK, Unread, Unjudged
<1>2. ElementInv /\ [ElementNext]_elementVars => ElementInv'
  <2> SUFFICES ASSUME ElementInv, [ElementNext]_elementVars PROVE ElementInv'
    OBVIOUS
  <2> USE DEF ElementInv, TypeOK
  <2>1. CASE Convert
    <3>1. bf16' \in Word
      BY <2>1, RoundedWord DEF Convert
    <3> QED
      BY <2>1, <3>1 DEF Convert
  <2>2. CASE PrepareInput
    <3>1. CASE Accepted(value)
      <4>1. bf16' \in Word
        BY <2>2, <3>1, RoundedWord DEF PrepareInput
      <4> QED
        BY <2>2, <3>1, <4>1 DEF PrepareInput
    <3>2. CASE ~Accepted(value)
      BY <2>2, <3>2 DEF PrepareInput
    <3> QED
      BY <3>1, <3>2
  <2>3. CASE Execute
    <3>1. readback' \in [row : Word, padding : Word]
      <4>1. 0 \in Word
        BY Fields DEF Word
      <4> QED
        BY <2>3, <4>1 DEF Execute
    <3> QED
      BY <2>3, <3>1 DEF Execute
  <2>4. CASE Judge
    <3>1. /\ HostVerdict \in {"none", "fail", "thrown", "pass"}
          /\ RunnerVerdict \in {"none", "refused", "fail", "pass"}
      BY DEF HostVerdict, RunnerVerdict
    <3>2. HostVerdict' = HostVerdict /\ RunnerVerdict' = RunnerVerdict
      BY <2>4 DEF Judge, HostVerdict, RunnerVerdict, RowPasses, DecoderThrows,
                  PaddingZero, Same, Finite, Magnitude
    <3> QED
      BY <2>4, <3>1, <3>2 DEF Judge
  <2>5. CASE ElementDone \/ UNCHANGED elementVars
    <3>1. UNCHANGED elementVars
      BY <2>5 DEF ElementDone
    <3>2. HostVerdict' = HostVerdict /\ RunnerVerdict' = RunnerVerdict
      BY <3>1 DEF elementVars, HostVerdict, RunnerVerdict, RowPasses, DecoderThrows,
                  PaddingZero, Same, Finite, Magnitude
    <3> QED
      BY <3>1, <3>2 DEF elementVars
  <2> QED
    BY <2>1, <2>2, <2>3, <2>4, <2>5 DEF ElementNext
<1> QED
  BY <1>1, <1>2, PTL DEF ElementSpec

\* Type correctness: a rounded word has 16 bits.
THEOREM ElementType == ElementSpec => []TypeOK
<1>1. ElementInv => TypeOK
  BY DEF ElementInv
<1> QED
  BY <1>1, ElementInvariance, PTL

\* float_to_bf16 never turns a NaN into an infinity or a zero.
THEOREM NansStay == ElementSpec => []NanStaysNan
<1>1. ElementInv => NanStaysNan
  BY NanWord DEF ElementInv, TypeOK, NanStaysNan
<1> QED
  BY <1>1, ElementInvariance, PTL

\* A finite element is not a NaN, so that both programs round it alike.
LEMMA FiniteAlike ==
    ASSUME NEW x \in Float, FloatFinite(x)
    PROVE  ExpectedBits(x) = FloatToBf16(x)
<1>1. ~FloatNaN(x)
  <2>1. FloatMagnitude(x) \in Int /\ Infinity * Ulp \in Int
    BY Parts, Fields
  <2> QED
    BY <2>1 DEF FloatFinite, FloatNaN
<1> QED
  BY <1>1, NoWrap

\* The host and the evidence runner accept the same elements, with the same
\* words.
THEOREM ContractAlike == ElementSpec => []ContractShared
<1>1. ElementInv => ContractShared
  BY FiniteAlike DEF ElementInv, TypeOK, ContractShared, Accepted
<1> QED
  BY <1>1, ElementInvariance, PTL

\* The poison is a word of its own magnitude, above infinity.
LEMMA PoisonIsNan == Magnitude(0) = 0 /\ Magnitude(Poison) > Infinity
<1>1. Poison \in Nat /\ Poison > Infinity /\ Poison < Sign
  BY Fields, FormatAssumption DEF Poison
<1>2. Sign \in Nat \ {0}
  BY Fields
<1> HIDE DEF Poison
<1>3. Poison % Sign = Poison /\ 0 % Sign = 0
  BY <1>1, <1>2
<1> QED
  BY <1>1, <1>3 DEF Magnitude

\* The host and the evidence runner come to the same verdict on every word, the
\* two decoders of the host never disagree, and poison never passes.
THEOREM JudgesAlike == ElementSpec => []JudgesAgree
<1>1. ElementInv => JudgesAgree
  <2> SUFFICES ASSUME ElementInv, stage = "judged" PROVE JudgesAgree
    BY DEF JudgesAgree
  <2>1. verdict.host = HostVerdict /\ verdict.runner = RunnerVerdict
    BY DEF ElementInv
  <2>2. ExpectedBits(value) = bf16
    BY FiniteAlike DEF ElementInv, TypeOK, Accepted
  <2>3. PaddingZero(readback.padding) => ~DecoderThrows(readback.padding)
    BY PoisonIsNan, Fields DEF PaddingZero, DecoderThrows, Finite, Same
  <2>4. HostVerdict # "thrown"
        /\ (HostVerdict = "pass" <=>
              RowPasses(readback.row) /\ PaddingZero(readback.padding))
    BY <2>3 DEF HostVerdict
  <2>5. RunnerVerdict = "pass" <=>
          RowPasses(readback.row) /\ PaddingZero(readback.padding)
    BY <2>2 DEF RunnerVerdict, RowPasses, PaddingZero
  <2>6. ~RowPasses(Poison) /\ ~PaddingZero(Poison)
    <3>1. Magnitude(Poison) \in Int
      BY Fields, FormatAssumption DEF Magnitude, Poison
    <3> QED
      BY <3>1, PoisonIsNan, Fields DEF RowPasses, PaddingZero, Finite
  <2> QED
    BY <2>1, <2>4, <2>5, <2>6 DEF JudgesAgree
<1> QED
  BY <1>1, ElementInvariance, PTL

-----------------------------------------------------------------------------
\* Powers of two, counted as subsets.

\* A set of n elements has 2^n subsets, the empty one among them.
LEMMA PowerIsCount ==
    ASSUME NEW n \in Nat
    PROVE  /\ IsFiniteSet(SUBSET (1 .. n)) /\ Cardinality(SUBSET (1 .. n)) = 2 ^ n
           /\ 2 ^ n \in Nat \ {0}
<1>1. IsFiniteSet(1 .. n) /\ Cardinality(1 .. n) = n
  <2>1. IsFiniteSet(1 .. n) /\ Cardinality(1 .. n) = IF 1 > n THEN 0 ELSE n - 1 + 1
    BY FS_Interval
  <2> QED
    BY <2>1
<1>2. IsFiniteSet(SUBSET (1 .. n)) /\ Cardinality(SUBSET (1 .. n)) = 2 ^ n
  BY <1>1, FS_SUBSET
<1>3. Cardinality(SUBSET (1 .. n)) \in Nat /\ Cardinality(SUBSET (1 .. n)) # 0
  <2>1. {} \in SUBSET (1 .. n)
    OBVIOUS
  <2> QED
    BY <1>2, <2>1, FS_CardinalityType, FS_EmptySet
<1> QED
  BY <1>2, <1>3

\* A larger set has no fewer of them.
LEMMA PowerGrows ==
    ASSUME NEW m \in Nat, NEW n \in Nat, m <= n
    PROVE  2 ^ m <= 2 ^ n
<1> DEFINE S == SUBSET (1 .. m)
           T == SUBSET (1 .. n)
<1>1. IsFiniteSet(T) /\ Cardinality(T) = 2 ^ n /\ Cardinality(S) = 2 ^ m
  BY PowerIsCount
<1>2. S \subseteq T
  OBVIOUS
<1> HIDE DEF S, T
<1> QED
  BY <1>1, <1>2, FS_Subset

\* One more element: the subsets without it and, as many, those with it.
LEMMA PowerDoubles ==
    ASSUME NEW n \in Nat
    PROVE  2 ^ (n + 1) = 2 ^ n + 2 ^ n
<1> DEFINE S == SUBSET (1 .. n)
           G(s) == s \cup {n + 1}
           T == {G(s) : s \in S}
<1>1. IsFiniteSet(S) /\ Cardinality(S) = 2 ^ n /\ 2 ^ n \in Nat
  BY PowerIsCount
<1>2. Cardinality(SUBSET (1 .. n + 1)) = 2 ^ (n + 1)
  BY PowerIsCount
<1>3. SUBSET (1 .. n + 1) = S \cup T
  <2>1. ASSUME NEW s \in SUBSET (1 .. n + 1), n + 1 \in s PROVE s \in T
    <3>1. s \ {n + 1} \in S /\ s = G(s \ {n + 1})
      BY <2>1
    <3> QED
      BY <3>1
  <2>2. ASSUME NEW s \in SUBSET (1 .. n + 1), n + 1 \notin s PROVE s \in S
    BY <2>2
  <2>3. \A s \in S : s \in SUBSET (1 .. n + 1) /\ G(s) \in SUBSET (1 .. n + 1)
    OBVIOUS
  <2>4. S \subseteq SUBSET (1 .. n + 1) /\ T \subseteq SUBSET (1 .. n + 1)
    <3>1. S \subseteq SUBSET (1 .. n + 1)
      OBVIOUS
    <3>2. \A t \in T : \E s \in S : t = G(s)
      OBVIOUS
    <3> HIDE DEF S, T, G
    <3> QED
      BY <2>3, <3>1, <3>2
  <2> HIDE DEF S, T
  <2>5. SUBSET (1 .. n + 1) \subseteq S \cup T
    BY <2>1, <2>2
  <2> QED
    BY <2>4, <2>5
<1>4. S \cap T = {}
  BY SMT
<1>5. IsFiniteSet(T) /\ Cardinality(T) = Cardinality(S)
  <2> DEFINE f == [s \in S |-> G(s)]
  <2>1. f \in [S -> T] /\ \A t \in T : \E s \in S : f[s] = t
    OBVIOUS
  <2>2. ASSUME NEW a \in S, NEW b \in S, f[a] = f[b] PROVE a = b
    <3>1. n + 1 \notin a /\ n + 1 \notin b /\ a \cup {n + 1} = b \cup {n + 1}
      BY <2>2
    <3> QED
      BY <3>1
  <2>3. f \in Bijection(S, T)
    BY <2>1, <2>2 DEF Bijection, Injection, Surjection, IsInjective
  <2> QED
    BY <1>1, <2>3, FS_Bijection DEF ExistsBijection
<1> HIDE DEF S, T
<1>6. Cardinality(S \cup T) = Cardinality(S) + Cardinality(T)
  <2>1. Cardinality(S \cup T) = Cardinality(S) + Cardinality(T) - Cardinality(S \cap T)
    BY <1>1, <1>5, FS_Union
  <2>2. Cardinality(S \cap T) = 0
    BY <1>4, FS_EmptySet
  <2>3. Cardinality(S) \in Nat /\ Cardinality(T) \in Nat
    BY <1>1, <1>5
  <2> QED
    BY <2>1, <2>2, <2>3
<1> QED
  BY <1>1, <1>2, <1>3, <1>5, <1>6

-----------------------------------------------------------------------------
\* Patterns as numbers

\* The value of one step of the pattern at an exponent, and of the exponent's
\* first pattern, in units of the smallest binary32 subnormal.
Step(exponent) == IF exponent = 0 THEN 1 ELSE 2 ^ (exponent - 1)
Base(exponent) == IF exponent = 0 THEN 0 ELSE (Fraction * Ulp) * Step(exponent)

\* Each exponent but the first has steps twice as long as the one before; the
\* subnormals have those of the first exponent.
LEMMA StepFacts ==
    ASSUME NEW e \in Nat
    PROVE  /\ Step(e) \in Nat \ {0} /\ Base(e) \in Nat
           /\ Base(e + 1) = Base(e) + (Fraction * Ulp) * Step(e)
<1> DEFINE size == Fraction * Ulp
<1>1. size \in Nat
  BY Fields
<1> HIDE DEF size
<1>2. CASE e = 0
  <2>1. Step(0) = 1 /\ Step(1) = 1 /\ Base(0) = 0 /\ Base(1) = size
    <3>1. 2 ^ 0 = 1
      OBVIOUS
    <3> QED
      BY <1>1, <3>1 DEF Step, Base, size
  <2> QED
    BY <1>1, <1>2, <2>1 DEF size
<1>3. CASE e # 0
  <2>1. e - 1 \in Nat /\ (e - 1) + 1 = e
    BY <1>3
  <2>2. 2 ^ (e - 1) \in Nat \ {0} /\ 2 ^ e = 2 ^ (e - 1) + 2 ^ (e - 1)
    BY <2>1, PowerIsCount, PowerDoubles
  <2>3. Step(e) = 2 ^ (e - 1) /\ Step(e + 1) = 2 ^ e
    BY <1>3 DEF Step
  <2>4. Base(e) = size * Step(e) /\ Base(e + 1) = size * Step(e + 1)
    BY <1>3 DEF Base, size
  <2>5. Step(e) \in Nat \ {0} /\ Step(e + 1) = Step(e) + Step(e)
    BY <2>2, <2>3
  <2> HIDE DEF Step, Base
  <2> QED
    BY <1>1, <2>4, <2>5 DEF size
<1> QED
  BY <1>2, <1>3

\* Within an exponent, its end included, a number grows with its pattern.
LEMMA NumberIsLinear ==
    ASSUME NEW e \in Nat, NEW f \in 0 .. Fraction * Ulp
    PROVE  Number((Fraction * Ulp) * e + f) = Base(e) + Step(e) * f
<1> DEFINE size == Fraction * Ulp
<1>1. size \in Nat \ {0}
  <2>1. Fraction \in Nat \ {0} /\ Ulp \in Nat \ {0}
    BY Fields, FormatAssumption
  <2> QED
    BY <2>1
<1>2. ASSUME NEW i \in Nat, NEW g \in 0 .. size - 1
      PROVE  Number(size * i + g) = Base(i) + Step(i) * g
  <2> HIDE DEF size
  <2>1. (size * i + g) \div size = i /\ (size * i + g) % size = g
    <3>1. size * i + g \in Nat
      BY <1>1
    <3> QED
      BY <1>1, <3>1, Quotient
  <2>2. Number(size * i + g) = IF i = 0 THEN g ELSE (size + g) * 2 ^ (i - 1)
    BY <2>1 DEF Number, size
  <2>3. CASE i = 0
    BY <2>2, <2>3 DEF Base, Step
  <2>4. CASE i # 0
    <3>1. Step(i) = 2 ^ (i - 1) /\ Base(i) = size * Step(i) /\ Step(i) \in Nat
      <4>1. Step(i) = 2 ^ (i - 1) /\ Base(i) = size * Step(i)
        BY <2>4 DEF Step, Base, size
      <4> QED
        BY <4>1, StepFacts
    <3>2. (size + g) * Step(i) = size * Step(i) + Step(i) * g
      BY <1>1, <3>1
    <3> QED
      BY <2>2, <2>4, <3>1, <3>2
  <2> QED
    BY <2>3, <2>4
<1>3. CASE f < Fraction * Ulp
  BY <1>1, <1>2, <1>3 DEF size
<1>4. CASE f = Fraction * Ulp
  <2>1. Number(size * (e + 1) + 0) = Base(e + 1) + Step(e + 1) * 0
    BY <1>1, <1>2
  <2> DEFINE b == Base(e)
             s == Step(e)
             t == Step(e + 1)
             c == Base(e + 1)
  <2>2. c \in Nat /\ t \in Nat /\ b \in Nat /\ s \in Nat /\ c = b + size * s
    BY StepFacts DEF size
  <2> HIDE DEF size, b, s, t, c
  <2>3. size * (e + 1) + 0 = size * e + size /\ c + t * 0 = c /\ size * s = s * size
    BY <1>1, <2>2
  <2> QED
    BY <1>4, <2>1, <2>2, <2>3 DEF size, b, s, t, c
<1> QED
  BY <1>1, <1>3, <1>4 DEF size

\* The exponent and the fraction of a pattern.
LEMMA Exponent ==
    ASSUME NEW p \in Nat
    PROVE  \E e \in Nat, f \in 0 .. (Fraction * Ulp) - 1 : p = (Fraction * Ulp) * e + f
<1>1. Fraction \in Nat \ {0} /\ Ulp \in Nat \ {0}
  BY Fields, FormatAssumption
<1> DEFINE size == Fraction * Ulp
<1>2. size \in Nat \ {0}
  BY <1>1
<1> HIDE DEF size
<1>3. p = size * (p \div size) + (p % size) /\ p % size \in 0 .. size - 1 /\ p \div size \in Nat
  BY <1>2, Euclid
<1> QED
  BY <1>3 DEF size

\* Of two patterns the larger one is the larger number.
LEMMA NumberGrows ==
    ASSUME NEW a \in Nat, NEW b \in Nat, a < b
    PROVE  Number(a) \in Nat /\ Number(b) \in Nat /\ Number(a) < Number(b)
<1> DEFINE size == Fraction * Ulp
<1>1. size \in Nat \ {0}
  <2>1. Fraction \in Nat \ {0} /\ Ulp \in Nat \ {0}
    BY Fields, FormatAssumption
  <2> QED
    BY <2>1
<1>2. PICK ea \in Nat, fa \in 0 .. size - 1 : a = size * ea + fa
  BY Exponent
<1>3. PICK eb \in Nat, fb \in 0 .. size - 1 : b = size * eb + fb
  BY Exponent
<1>4. Number(a) = Base(ea) + Step(ea) * fa /\ Number(b) = Base(eb) + Step(eb) * fb
  BY <1>1, <1>2, <1>3, NumberIsLinear
<1>5. /\ Base(ea) \in Nat /\ Base(eb) \in Nat
      /\ Step(ea) \in Nat \ {0} /\ Step(eb) \in Nat \ {0}
      /\ Base(ea + 1) = Base(ea) + size * Step(ea)
  BY StepFacts
<1> HIDE DEF size
<1>6. Step(ea) * fa \in Nat /\ Step(eb) * fb \in Nat
  BY <1>1, <1>5
<1>7. CASE ea = eb
  <2>1. fa < fb
    BY <1>1, <1>2, <1>3, <1>7
  <2>2. Step(ea) * fa < Step(ea) * fb
    BY <1>1, <1>5, <2>1
  <2> QED
    BY <1>4, <1>5, <1>6, <1>7, <2>2
<1>8. CASE ea < eb
  <2>1. Step(ea) * fa < size * Step(ea)
    BY <1>1, <1>5
  <2>2. Base(ea + 1) <= Base(eb)
    <3>1. ea + 1 # 0 /\ eb # 0 /\ Step(ea + 1) = 2 ^ ea /\ Step(eb) = 2 ^ (eb - 1)
      BY <1>8 DEF Step
    <3>2. 2 ^ ea <= 2 ^ (eb - 1) /\ 2 ^ ea \in Nat /\ 2 ^ (eb - 1) \in Nat
      <4>1. eb - 1 \in Nat /\ ea <= eb - 1
        BY <1>8
      <4> QED
        BY <4>1, PowerGrows, PowerIsCount
    <3>3. Base(ea + 1) = size * 2 ^ ea /\ Base(eb) = size * 2 ^ (eb - 1)
      BY <3>1 DEF Base, size
    <3> DEFINE x == 2 ^ ea
               y == 2 ^ (eb - 1)
    <3>4. x \in Nat /\ y \in Nat /\ x <= y
      BY <3>2
    <3> HIDE DEF x, y
    <3>5. size * x <= size * y
      BY <1>1, <3>4
    <3> QED
      BY <3>3, <3>5 DEF x, y
  <2>3. size * Step(ea) \in Nat
    BY <1>1, <1>5
  <2> QED
    BY <1>4, <1>5, <1>6, <2>1, <2>2, <2>3
<1>9. ~(eb < ea)
  <2> SUFFICES ASSUME eb + 1 <= ea PROVE FALSE
    OBVIOUS
  <2>1. size * (eb + 1) <= size * ea
    BY <1>1
  <2>2. size * (eb + 1) = size * eb + size /\ size * eb \in Nat /\ size * ea \in Nat
    BY <1>1
  <2> QED
    BY <1>1, <1>2, <1>3, <2>1, <2>2
<1> QED
  BY <1>4, <1>5, <1>6, <1>7, <1>8, <1>9

\* How far a number is from another one.
Gap(a, b) == IF a < b THEN b - a ELSE a - b

\* On the line of numbers a pattern has two words next to it.  Every other word
\* is further away than the one of these two on its side.
LEMMA WordsAround ==
    ASSUME NEW F \in Nat, NEW k \in Nat, NEW r \in 0 .. Ulp - 1, F = Ulp * k + r
    PROVE  \E s \in Nat \ {0} :
             /\ Gap(Number(k * Ulp), Number(F)) = s * r
             /\ Gap(Number((k + 1) * Ulp), Number(F)) = s * (Ulp - r)
             /\ \A w \in Nat : w < k => Gap(Number(w * Ulp), Number(F)) > s * r
             /\ \A w \in Nat : w > k + 1 => Gap(Number(w * Ulp), Number(F)) > s * (Ulp - r)
<1>1. Fraction \in Nat \ {0} /\ Ulp \in Nat \ {0}
  BY Fields, FormatAssumption
<1> DEFINE e == k \div Fraction
           j == k % Fraction
           low == j * Ulp
           size == Fraction * Ulp
<1>2. e \in Nat /\ j \in 0 .. Fraction - 1 /\ k = Fraction * e + j
  BY <1>1, Euclid
<1> HIDE DEF e, j
<1>3. low \in Nat /\ low + Ulp <= size /\ size \in Nat
  <2>1. (j + 1) * Ulp <= Fraction * Ulp
    BY <1>1, <1>2
  <2> QED
    BY <1>1, <1>2, <2>1
<1>4. k * Ulp = size * e + low /\ (k + 1) * Ulp = size * e + (low + Ulp)
  BY <1>1, <1>2
<1>5. F = size * e + (low + r)
  <2>1. Ulp * k = k * Ulp
    BY <1>1
  <2>2. size * e \in Nat
    BY <1>2, <1>3
  <2> HIDE DEF size, low
  <2> QED
    BY <1>1, <1>3, <1>4, <2>1, <2>2
<1> DEFINE s == Step(e)
           b == Base(e)
<1>6. s \in Nat \ {0} /\ b \in Nat
  BY <1>2, StepFacts
<1>7. /\ Number(k * Ulp) = b + s * low
      /\ Number((k + 1) * Ulp) = b + s * (low + Ulp)
      /\ Number(F) = b + s * (low + r)
  <2>1. low \in 0 .. size /\ low + Ulp \in 0 .. size /\ low + r \in 0 .. size
    BY <1>1, <1>3
  <2> HIDE DEF low
  <2> QED
    BY <1>2, <1>4, <1>5, <2>1, NumberIsLinear
<1> HIDE DEF low, size, s, b
<1>8. /\ s * (low + Ulp) = s * low + s * r + s * (Ulp - r)
      /\ s * (low + r) = s * low + s * r
      /\ s * low \in Nat /\ s * r \in Nat /\ s * (Ulp - r) \in Nat
  <2> DEFINE v == Ulp - r
  <2>1. v \in Nat /\ r \in Nat /\ low + Ulp = (low + r) + v
    BY <1>1, <1>3
  <2> HIDE DEF v
  <2>2. s * ((low + r) + v) = s * low + s * r + s * v
    BY <1>3, <1>6, <2>1
  <2>3. s * (low + r) = s * low + s * r
    BY <1>3, <1>6, <2>1
  <2>4. s * low \in Nat /\ s * r \in Nat /\ s * v \in Nat
    BY <1>3, <1>6, <2>1
  <2> QED
    BY <2>1, <2>2, <2>3, <2>4 DEF v
<1> DEFINE low1 == s * low
           up == s * (Ulp - r)
           down == s * r
<1>9. /\ Number(k * Ulp) = b + low1 /\ Number(F) = b + low1 + down
      /\ Number((k + 1) * Ulp) = b + low1 + down + up
      /\ low1 \in Nat /\ down \in Nat /\ up \in Nat
  <2>1. low1 \in Nat /\ down \in Nat /\ up \in Nat
    BY <1>8
  <2> QED
    BY <1>6, <1>7, <1>8, <2>1
<1> HIDE DEF low1, up, down
<1>10. Gap(Number(k * Ulp), Number(F)) = down
  BY <1>6, <1>9 DEF Gap
<1>11. Gap(Number((k + 1) * Ulp), Number(F)) = up
  BY <1>6, <1>9 DEF Gap
<1>12. ASSUME NEW w \in Nat, w < k PROVE Gap(Number(w * Ulp), Number(F)) > down
  <2>1. w * Ulp \in Nat /\ k * Ulp \in Nat /\ w * Ulp < k * Ulp
    BY <1>1, <1>12
  <2>2. Number(w * Ulp) \in Nat /\ Number(w * Ulp) < Number(k * Ulp)
    BY <2>1, NumberGrows
  <2> QED
    BY <1>6, <1>9, <2>2 DEF Gap
<1>13. ASSUME NEW w \in Nat, w > k + 1 PROVE Gap(Number(w * Ulp), Number(F)) > up
  <2>1. w * Ulp \in Nat /\ (k + 1) * Ulp \in Nat /\ (k + 1) * Ulp < w * Ulp
    BY <1>1, <1>13
  <2>2. Number(w * Ulp) \in Nat /\ Number((k + 1) * Ulp) < Number(w * Ulp)
    BY <2>1, NumberGrows
  <2> QED
    BY <1>6, <1>9, <2>2 DEF Gap
<1> QED
  BY <1>6, <1>10, <1>11, <1>12, <1>13 DEF down, up

\* The word next to a pattern that is at most half a word away is nearer than
\* every other one, or as near as the other one of the two.
LEMMA NearestNumber ==
    ASSUME NEW F \in Nat, NEW g \in Nat, NEW w \in Nat, w # g,
           g * Ulp - F <= Half, F - g * Ulp <= Half,
           g \in {F \div Ulp, (F \div Ulp) + 1}
    PROVE  \/ Gap(Number(g * Ulp), Number(F)) < Gap(Number(w * Ulp), Number(F))
           \/ /\ Gap(Number(g * Ulp), Number(F)) = Gap(Number(w * Ulp), Number(F))
              /\ g * Ulp - F = Half \/ F - g * Ulp = Half
<1> DEFINE k == F \div Ulp
           r == F % Ulp
<1>1. Ulp \in Nat \ {0} /\ Half \in Nat \ {0} /\ Ulp = Half + Half
  BY Fields, FormatAssumption
<1>2. k \in Nat /\ r \in 0 .. Ulp - 1 /\ F = Ulp * k + r
  BY <1>1, Euclid
<1> HIDE DEF k, r
<1>3. PICK s \in Nat \ {0} :
        /\ Gap(Number(k * Ulp), Number(F)) = s * r
        /\ Gap(Number((k + 1) * Ulp), Number(F)) = s * (Ulp - r)
        /\ \A v \in Nat : v < k => Gap(Number(v * Ulp), Number(F)) > s * r
        /\ \A v \in Nat : v > k + 1 => Gap(Number(v * Ulp), Number(F)) > s * (Ulp - r)
  BY <1>2, WordsAround
<1>4. k * Ulp = Ulp * k /\ (k + 1) * Ulp = Ulp * k + Ulp /\ Ulp * k \in Nat
  BY <1>1, <1>2
<1> DEFINE v == Ulp - r
<1>5. v \in Nat /\ v = Ulp - r
  BY <1>1, <1>2
<1> HIDE DEF v
<1>6. s * r \in Nat /\ s * v \in Nat
  BY <1>2, <1>3, <1>5
<1>7. /\ r < v => s * r < s * v
      /\ v < r => s * v < s * r
  BY <1>2, <1>3, <1>5
<1>8. CASE g = k
  <2>1. r <= Half /\ r <= v /\ (r = v => F - g * Ulp = Half)
    BY <1>1, <1>2, <1>4, <1>5, <1>8
  <2>2. s * r <= s * v /\ (s * r = s * v => r = v)
    BY <1>2, <1>5, <1>6, <1>7, <2>1
  <2>3. CASE w < k
    BY <1>3, <1>8, <2>3
  <2>4. CASE w = k + 1
    BY <1>3, <1>5, <1>6, <1>8, <2>1, <2>2, <2>4
  <2>5. CASE w > k + 1
    <3>1. Gap(Number(w * Ulp), Number(F)) > s * v
      BY <1>3, <1>5, <2>5
    <3>2. Gap(Number(w * Ulp), Number(F)) \in Int
      <4>1. w * Ulp \in Nat /\ F < w * Ulp
        <5>1. w * Ulp >= (k + 2) * Ulp /\ (k + 2) * Ulp = Ulp * k + Ulp + Ulp
          BY <1>1, <1>2, <2>5
        <5> QED
          BY <1>1, <1>2, <1>4, <5>1
      <4>2. Number(w * Ulp) \in Nat /\ Number(F) \in Nat
        BY <4>1, NumberGrows
      <4> QED
        BY <4>2 DEF Gap
    <3> QED
      BY <1>3, <1>6, <1>8, <2>2, <3>1, <3>2
  <2> QED
    BY <1>2, <1>8, <2>3, <2>4, <2>5
<1>9. CASE g = k + 1
  <2>1. v <= Half /\ v <= r /\ (r = v => g * Ulp - F = Half)
    BY <1>1, <1>2, <1>4, <1>5, <1>9
  <2>2. s * v <= s * r /\ (s * r = s * v => r = v)
    BY <1>2, <1>5, <1>6, <1>7, <2>1
  <2>3. CASE w > k + 1
    BY <1>3, <1>5, <1>9, <2>3
  <2>4. CASE w = k
    BY <1>3, <1>5, <1>6, <1>9, <2>1, <2>2, <2>4
  <2>5. CASE w < k
    <3>1. Gap(Number(w * Ulp), Number(F)) > s * r
      BY <1>3, <2>5
    <3>2. Gap(Number(w * Ulp), Number(F)) \in Int
      <4>1. w * Ulp \in Nat /\ w * Ulp < F
        <5>1. (w + 1) * Ulp <= k * Ulp /\ (w + 1) * Ulp = w * Ulp + Ulp /\ w * Ulp \in Nat
          BY <1>1, <1>2, <2>5
        <5> QED
          BY <1>1, <1>2, <1>4, <5>1
      <4>2. Number(w * Ulp) \in Nat /\ Number(F) \in Nat
        BY <4>1, NumberGrows
      <4> QED
        BY <4>2 DEF Gap
    <3> QED
      BY <1>3, <1>5, <1>6, <1>9, <2>2, <3>1, <3>2
  <2> QED
    BY <1>2, <1>9, <2>3, <2>4, <2>5
<1> QED
  BY <1>8, <1>9 DEF k

\* A rounded number has the sign of the number, and a magnitude next to its own,
\* infinity at most.
LEMMA RoundedMagnitude ==
    ASSUME NEW x \in Float, ~FloatNaN(x)
    PROVE  LET q == FloatToBf16(x)
               g == Magnitude(q)
               F == FloatMagnitude(x) IN
           /\ q \div Sign = x \div (Sign * Ulp)
           /\ F \in Nat /\ g \in 0 .. Infinity /\ g \in {F \div Ulp, (F \div Ulp) + 1}
           /\ g * Ulp - F = q * Ulp - x
<1> DEFINE q == FloatToBf16(x)
           F == FloatMagnitude(x)
           k == F \div Ulp
           r == F % Ulp
<1>1. PICK s \in {0, 1} : /\ x = s * (Sign * Ulp) + F
                          /\ F \in 0 .. (Sign * Ulp) - 1
                          /\ s = x \div (Sign * Ulp)
  BY Parts
<1>2. /\ Ulp \in Nat \ {0} /\ Sign \in Nat \ {0} /\ Infinity \in Nat /\ Infinity < Sign
      /\ Half \in Nat \ {0} /\ Ulp = Half + Half
  BY Fields, FormatAssumption
<1>3. F \in Nat /\ x \in Nat /\ F <= Infinity * Ulp
  BY <1>1, Fields DEF FloatNaN, Float
<1> HIDE DEF F
<1>4. k \in Nat /\ r \in 0 .. Ulp - 1 /\ F = Ulp * k + r
  BY <1>2, <1>3, Euclid
<1> HIDE DEF k, r
<1>5. x \div Ulp = s * Sign + k
  <2> DEFINE v == s * Sign + k
  <2>1. v \in Nat /\ Ulp * v = s * (Sign * Ulp) + Ulp * k
    <3>1. Ulp * (s * Sign) = s * (Sign * Ulp) /\ s * Sign \in Nat
      BY <1>2
    <3> DEFINE m == s * Sign
    <3>2. m \in Nat
      BY <3>1
    <3> HIDE DEF m
    <3>3. Ulp * (m + k) = Ulp * m + Ulp * k
      BY <1>2, <1>4, <3>2
    <3> QED
      BY <1>4, <3>1, <3>2, <3>3 DEF m
  <2>2. x = Ulp * v + r
    <3>1. s * (Sign * Ulp) \in Nat /\ Ulp * k \in Nat
      BY <1>2, <1>4
    <3> HIDE DEF v
    <3> QED
      BY <1>1, <1>4, <2>1, <3>1
  <2> HIDE DEF v
  <2>3. x \div Ulp = v
    BY <1>2, <1>3, <1>4, <2>1, <2>2, Quotient
  <2> QED
    BY <2>3 DEF v
<1>6. /\ q \in {x \div Ulp, (x \div Ulp) + 1}
      /\ x - q * Ulp <= Half /\ q * Ulp - x <= Half
  <2>1. q = (x + (Half - 1) + ((x \div (2 * Half)) % 2)) \div (2 * Half)
    BY NoWrap DEF Upper, Ulp
  <2> HIDE DEF q
  <2> QED
    BY <1>2, <1>3, <2>1, RoundNearest DEF Ulp
<1> HIDE DEF q
<1>7. PICK g \in {k, k + 1} : q = s * Sign + g
  BY <1>2, <1>4, <1>5, <1>6
<1>8. g \in Nat /\ g * Ulp - F = q * Ulp - x
  <2>1. g \in Nat
    BY <1>4, <1>7
  <2>2. q * Ulp = s * (Sign * Ulp) + g * Ulp
    BY <1>2, <1>7, <2>1
  <2>3. s * (Sign * Ulp) \in Nat /\ g * Ulp \in Nat
    BY <1>2, <2>1
  <2> QED
    BY <1>1, <1>3, <2>1, <2>2, <2>3
<1>9. g <= Infinity
  <2> SUFFICES ASSUME g >= Infinity + 1 PROVE FALSE
    BY <1>2, <1>8
  <2>1. g * Ulp >= (Infinity + 1) * Ulp /\ (Infinity + 1) * Ulp = Infinity * Ulp + Ulp
    BY <1>2, <1>8
  <2>2. g * Ulp - F <= Half
    BY <1>6, <1>8
  <2>3. Infinity * Ulp \in Nat /\ g * Ulp \in Nat
    BY <1>2, <1>8
  <2> QED
    BY <1>2, <1>3, <2>1, <2>2, <2>3
<1>10. Magnitude(q) = g /\ q \div Sign = s
  <2>1. q = Sign * s + g /\ q \in Nat /\ g \in 0 .. Sign - 1
    BY <1>2, <1>7, <1>8, <1>9
  <2>2. q \div Sign = s /\ q % Sign = g
    BY <1>2, <2>1, Quotient
  <2> QED
    BY <2>2 DEF Magnitude
<1> QED
  BY <1>1, <1>3, <1>7, <1>8, <1>9, <1>10 DEF q, F, k

\* docs/design.md, "BF16 round-to-nearest-even quantization": of the numbers that
\* are words, float_to_bf16 takes the nearest to the number it is given, and of
\* two that are equally near the even one; subnormals, the steps from one
\* exponent to the next and the one to infinity included.
THEOREM NearestEven == ElementSpec => []RoundsToNearestEven
<1>1. ASSUME ElementInv PROVE RoundsToNearestEven
  <2> SUFFICES ASSUME stage \in {"converted", "upload"}, ~FloatNaN(value)
               PROVE  /\ bf16 \div Sign = value \div (Sign * Ulp)
                      /\ \A word \in 0 .. Infinity \ {Magnitude(bf16)} :
                           \/ Distance(bf16, value) < Distance(word, value)
                           \/ /\ Distance(bf16, value) = Distance(word, value)
                              /\ bf16 % 2 = 0
    BY DEF RoundsToNearestEven
  <2> DEFINE g == Magnitude(bf16)
             F == FloatMagnitude(value)
  <2>1. value \in Float /\ bf16 = FloatToBf16(value)
    BY <1>1 DEF ElementInv, TypeOK
  <2>2. /\ bf16 \div Sign = value \div (Sign * Ulp)
        /\ F \in Nat /\ g \in 0 .. Infinity /\ g \in {F \div Ulp, (F \div Ulp) + 1}
        /\ g * Ulp - F = bf16 * Ulp - value
    BY <2>1, RoundedMagnitude
  <2>3. /\ value - bf16 * Ulp <= Half /\ bf16 * Ulp - value <= Half
        /\ value - bf16 * Ulp = Half \/ bf16 * Ulp - value = Half
             => bf16 % 2 = 0
    BY <2>1, NearestPattern
  <2>4. ASSUME NEW word \in 0 .. Infinity \ {g}
        PROVE  \/ Distance(bf16, value) < Distance(word, value)
               \/ /\ Distance(bf16, value) = Distance(word, value)
                  /\ bf16 % 2 = 0
    <3>1. Infinity \in Nat /\ Sign \in Nat \ {0} /\ Infinity < Sign /\ Ulp \in Nat \ {0}
      BY Fields, FormatAssumption
    <3>2. Magnitude(word) = word /\ word \in Nat /\ g \in Nat /\ word # g
      BY <2>2, <3>1 DEF Magnitude
    <3>3. value \in Nat /\ bf16 * Ulp \in Int /\ g * Ulp \in Int
      <4>1. bf16 \in Nat /\ value \in Nat
        BY <1>1, Fields DEF ElementInv, TypeOK, Word, Float
      <4> QED
        BY <3>1, <3>2, <4>1
    <3> HIDE DEF g, F
    <3>4. /\ g * Ulp - F <= Half /\ F - g * Ulp <= Half
          /\ g * Ulp - F = Half \/ F - g * Ulp = Half => bf16 % 2 = 0
      BY <2>2, <2>3, <3>3
    <3>5. \/ Gap(Number(g * Ulp), Number(F)) < Gap(Number(word * Ulp), Number(F))
          \/ /\ Gap(Number(g * Ulp), Number(F)) = Gap(Number(word * Ulp), Number(F))
             /\ g * Ulp - F = Half \/ F - g * Ulp = Half
      BY <2>2, <3>2, <3>4, NearestNumber
    <3>6. ASSUME NEW v \in Nat
          PROVE  Number(v * Ulp) \in Nat /\ Number(F) \in Nat
      <4>1. v * Ulp \in Nat /\ v * Ulp < v * Ulp + 1 /\ F < F + 1
        BY <2>2, <3>1
      <4> QED
        BY <2>2, <4>1, NumberGrows
    <3>7. /\ Distance(bf16, value) = Gap(Number(g * Ulp), Number(F))
          /\ Distance(word, value) = Gap(Number(word * Ulp), Number(F))
      <4>1. /\ Number(g * Ulp) \in Nat /\ Number(word * Ulp) \in Nat /\ Number(F) \in Nat
        BY <3>2, <3>6
      <4>2. /\ Magnitude(bf16) = g /\ FloatMagnitude(value) = F
        BY DEF g, F
      <4> QED
        BY <3>2, <4>1, <4>2 DEF Distance, Gap
    <3> QED
      BY <3>4, <3>5, <3>7
  <2> QED
    BY <2>2, <2>4
<1> QED
  BY <1>1, ElementInvariance, PTL

-----------------------------------------------------------------------------
\* The tile-face layout

\* The sides and the sizes, as numbers.
LEMMA Sides ==
    /\ FaceSide \in Nat \ {0} /\ TileSide = FaceSide + FaceSide /\ TileSide \in Nat \ {0}
    /\ FaceElems \in Nat \ {0} /\ FaceElems = FaceSide * FaceSide
    /\ TileElems = 4 * FaceElems /\ TileElems \in Nat \ {0}
    /\ TileSide * TileSide = TileElems
<1>1. FaceSide \in Nat \ {0} /\ FaceSide * FaceSide \in Nat \ {0}
  BY FaceAssumption
<1> QED
  BY <1>1 DEF TileSide, FaceElems, TileElems

\* The tile, the face in it and the place in the face, of a row or a column.
FaceHalf(x) == (x % TileSide) \div FaceSide

\* A number in its parts.
LEMMA Split ==
    ASSUME NEW x \in Nat
    PROVE  /\ x \div TileSide \in Nat /\ FaceHalf(x) \in 0 .. 1 /\ x % FaceSide \in 0 .. FaceSide - 1
           /\ x = (TileSide * (x \div TileSide)) + (FaceSide * FaceHalf(x)) + (x % FaceSide)
           /\ x % TileSide = (FaceSide * FaceHalf(x)) + (x % FaceSide)
           /\ x % TileSide \in 0 .. TileSide - 1
<1> DEFINE F == FaceSide
           T == TileSide
           t == x \div T
           y == x % T
           h == y \div F
           l == y % F
<1>1. F \in Nat \ {0} /\ T \in Nat \ {0} /\ T = F + F
  BY Sides
<1>2. x = T * t + y /\ y \in 0 .. T - 1 /\ t \in Nat
  BY <1>1, Euclid
<1>3. y = F * h + l /\ l \in 0 .. F - 1 /\ h \in Nat
  <2> y \in Nat
    BY <1>1, <1>2
  <2> HIDE DEF F, y
  <2> QED
    BY <1>1, Euclid
<1> HIDE DEF F, T, t, y, h, l
<1>4. h \in 0 .. 1
  <2>1. CASE h >= 2
    <3>1. F * h >= F * 2
      BY <1>1, <1>3, <2>1
    <3> QED
      BY <1>1, <1>2, <1>3, <3>1
  <2> QED
    BY <1>3, <2>1
<1>5. x % F = l
  <2>1. x = F * (2 * t + h) + l
    BY <1>1, <1>2, <1>3
  <2>2. 2 * t + h \in Int
    BY <1>2, <1>3
  <2> QED
    BY <1>1, <1>3, <2>1, <2>2, Quotient
<1> QED
  BY <1>1, <1>2, <1>3, <1>4, <1>5 DEF F, T, t, y, h, l, FaceHalf

\* A number from its parts.
LEMMA Join ==
    ASSUME NEW t \in Nat, NEW h \in 0 .. 1, NEW l \in 0 .. FaceSide - 1, NEW x,
           x = (TileSide * t) + (FaceSide * h) + l
    PROVE  /\ x \in Nat /\ x \div TileSide = t /\ FaceHalf(x) = h /\ x % FaceSide = l
           /\ x % TileSide = (FaceSide * h) + l
<1> DEFINE F == FaceSide
           T == TileSide
           y == F * h + l
<1>1. F \in Nat \ {0} /\ T \in Nat \ {0} /\ T = F + F
  BY Sides
<1>2. y \in 0 .. T - 1 /\ T * t \in Nat /\ x = T * t + y /\ x \in Nat
  <2>1. h = 0 \/ h = 1
    OBVIOUS
  <2>2. F * h \in {0, F}
    BY <1>1, <2>1
  <2>3. T * t \in Nat
    BY <1>1
  <2> HIDE DEF F, T
  <2>4. l \in 0 .. F - 1
    BY DEF F
  <2> QED
    BY <1>1, <2>2, <2>3, <2>4 DEF F, T
<1>3. x \div T = t /\ x % T = y
  <2> HIDE DEF T, y
  <2> QED
    BY <1>1, <1>2, Quotient
<1>4. y \div F = h
  <2>1. y \in Nat /\ h \in Int /\ l \in 0 .. F - 1 /\ y = F * h + l
    BY <1>2
  <2>2. F \in Nat \ {0}
    BY <1>1
  <2> HIDE DEF F, y
  <2> QED
    BY <2>1, <2>2, Quotient
<1>5. x % F = l
  <2>1. x = F * (2 * t + h) + l
    BY <1>1, <1>2
  <2>2. 2 * t + h \in Int /\ l \in 0 .. F - 1
    OBVIOUS
  <2>3. F \in Nat \ {0} /\ x \in Nat
    BY <1>1, <1>2
  <2> HIDE DEF F
  <2> QED
    BY <2>1, <2>2, <2>3, Quotient
<1> QED
  BY <1>2, <1>3, <1>4, <1>5 DEF FaceHalf

\* Where an element is, from the parts of its row and of its column.
Offset(row, col) ==
    (((2 * FaceHalf(row)) + FaceHalf(col)) * FaceElems) + ((row % FaceSide) * FaceSide) + (col % FaceSide)

\* The parts of the place in a tile.
LEMMA OffsetParts ==
    ASSUME NEW row \in Nat, NEW col \in Nat
    PROVE  /\ Offset(row, col) \in 0 .. TileElems - 1
           /\ Offset(row, col) \div FaceElems = (2 * FaceHalf(row)) + FaceHalf(col)
           /\ (Offset(row, col) % FaceElems) \div FaceSide = row % FaceSide
           /\ Offset(row, col) % FaceSide = col % FaceSide
           /\ Offset(row, col) % FaceElems = ((row % FaceSide) * FaceSide) + (col % FaceSide)
<1> DEFINE F == FaceSide
           E == FaceElems
           a == row % F
           b == col % F
           w == a * F + b
           f == (2 * FaceHalf(row)) + FaceHalf(col)
           o == (f * E) + w
<1>1. F \in Nat \ {0} /\ E \in Nat \ {0} /\ E = F * F /\ TileElems = 4 * E
  BY Sides
<1>2. a \in 0 .. F - 1 /\ b \in 0 .. F - 1 /\ f \in 0 .. 3
  <2>1. a \in 0 .. F - 1 /\ FaceHalf(row) \in 0 .. 1
    BY Split
  <2>2. b \in 0 .. F - 1 /\ FaceHalf(col) \in 0 .. 1
    BY Split
  <2> QED
    BY <2>1, <2>2
<1>3. Offset(row, col) = o
  <2>1. f * E \in Int /\ a * F \in Int
    BY <1>1, <1>2
  <2> QED
    BY <1>2, <2>1 DEF Offset
<1> HIDE DEF F, E, a, b, f
<1>4. w \in 0 .. E - 1
  <2>1. a * F + F <= F * F
    <3>1. (F - 1 - a) * F >= 0
      BY <1>1, <1>2
    <3>2. (F - 1 - a) * F = F * F - F - a * F
      BY <1>1, <1>2
    <3> QED
      BY <1>1, <1>2, <3>1, <3>2
  <2>2. a * F \in Nat
    BY <1>1, <1>2
  <2> QED
    BY <1>1, <1>2, <2>1, <2>2
<1>5. w \div F = a
  <2>1. w \in Nat /\ a \in Int /\ w = F * a + b
    BY <1>1, <1>2, <1>4
  <2> HIDE DEF w
  <2> QED
    BY <1>1, <1>2, <2>1, Quotient
<1>6. o = E * f + w /\ o \in Nat
  <2>1. f * E \in Nat /\ f * E = E * f
    BY <1>1, <1>2
  <2> HIDE DEF w
  <2> QED
    BY <1>1, <1>4, <2>1
<1>7. o \in 0 .. (4 * E) - 1
  <2>1. f * E <= 3 * E
    BY <1>1, <1>2
  <2>2. f * E \in Nat
    BY <1>1, <1>2
  <2> HIDE DEF w
  <2> QED
    BY <1>1, <1>4, <2>1, <2>2
<1>8. o \div E = f /\ o % E = w
  <2> HIDE DEF w, o
  <2>1. f \in Int
    BY <1>2
  <2> QED
    BY <1>1, <1>4, <1>6, <2>1, Quotient
<1>9. o % F = b
  <2>1. o = F * (F * f + a) + b
    BY <1>1, <1>2
  <2>2. F * f + a \in Int
    BY <1>1, <1>2
  <2> HIDE DEF o
  <2> QED
    BY <1>1, <1>2, <1>6, <2>1, <2>2, Quotient
<1> HIDE DEF w, o
<1> QED
  BY <1>1, <1>3, <1>5, <1>7, <1>8, <1>9 DEF F, E, a, b, f, w

\* The same place in one tile and in another.
LEMMA SameOffset ==
    ASSUME NEW row \in Nat, NEW col \in Nat, NEW r \in Nat, NEW c \in Nat,
           Offset(row, col) = Offset(r, c)
    PROVE  row % TileSide = r % TileSide /\ col % TileSide = c % TileSide
<1>1. /\ (2 * FaceHalf(row)) + FaceHalf(col) = (2 * FaceHalf(r)) + FaceHalf(c)
      /\ row % FaceSide = r % FaceSide /\ col % FaceSide = c % FaceSide
  BY OffsetParts
<1>2. FaceHalf(row) \in 0 .. 1 /\ FaceHalf(col) \in 0 .. 1 /\ FaceHalf(r) \in 0 .. 1 /\ FaceHalf(c) \in 0 .. 1
  BY Split
<1>3. FaceHalf(row) = FaceHalf(r) /\ FaceHalf(col) = FaceHalf(c)
  BY <1>1, <1>2
<1> QED
  BY <1>1, <1>3, Split

\* Every place in a tile is that of an element.
LEMMA EveryOffset ==
    ASSUME NEW o \in 0 .. TileElems - 1
    PROVE  \E i \in 0 .. TileSide - 1, j \in 0 .. TileSide - 1 : Offset(i, j) = o
<1> DEFINE F == FaceSide
           E == FaceElems
           f == o \div E
           w == o % E
           a == w \div F
           b == w % F
           h == f \div 2
           g == f % 2
           i == (F * h) + a
           j == (F * g) + b
<1>1. F \in Nat \ {0} /\ E \in Nat \ {0} /\ E = F * F /\ TileElems = 4 * E /\ TileSide = F + F
  BY Sides
<1>2. o \in Nat /\ o < 4 * E
  BY <1>1
<1>3. o = E * f + w /\ w \in 0 .. E - 1 /\ f \in Nat
  BY <1>1, <1>2, Euclid
<1>4. w = F * a + b /\ b \in 0 .. F - 1 /\ a \in Nat
  <2> w \in Nat
    BY <1>1, <1>3
  <2> HIDE DEF F, w
  <2> QED
    BY <1>1, Euclid
<1>5. f = 2 * h + g /\ g \in 0 .. 1 /\ h \in Nat
  <2> HIDE DEF f
  <2>1. f = 2 * (f \div 2) + (f % 2) /\ f % 2 \in 0 .. 2 - 1 /\ f \div 2 \in Nat
    BY <1>3, Euclid
  <2> QED
    BY <2>1
<1> HIDE DEF F, E, f, w, a, b, h, g
<1>6. a \in 0 .. F - 1
  <2>1. CASE a >= F
    <3>1. F * a >= F * F
      BY <1>1, <1>4, <2>1
    <3> QED
      BY <1>1, <1>3, <1>4, <3>1
  <2> QED
    BY <1>1, <1>4, <2>1
<1>7. f \in 0 .. 3 /\ h \in 0 .. 1
  <2>1. CASE f >= 4
    <3>1. E * f >= E * 4
      BY <1>1, <1>3, <2>1
    <3> QED
      BY <1>1, <1>2, <1>3, <3>1
  <2> QED
    BY <1>3, <1>5, <2>1
<1>8. /\ i \in Nat /\ FaceHalf(i) = h /\ i % FaceSide = a /\ i % TileSide = (F * h) + a
      /\ j \in Nat /\ FaceHalf(j) = g /\ j % FaceSide = b /\ j % TileSide = (F * g) + b
  <2>1. i = TileSide * 0 + FaceSide * h + a /\ j = TileSide * 0 + FaceSide * g + b
    <3>1. F * h \in Int /\ F * g \in Int
      BY <1>1, <1>5
    <3> QED
      BY <1>1, <1>4, <3>1 DEF F
  <2>2. a \in 0 .. FaceSide - 1 /\ b \in 0 .. FaceSide - 1
    BY <1>4, <1>6 DEF F
  <2> HIDE DEF i, j
  <2>3. i \in Nat /\ FaceHalf(i) = h /\ i % FaceSide = a /\ i % TileSide = (FaceSide * h) + a
    BY <1>7, <2>1, <2>2, Join
  <2>4. j \in Nat /\ FaceHalf(j) = g /\ j % FaceSide = b /\ j % TileSide = (FaceSide * g) + b
    <3>1. j = TileSide * 0 + FaceSide * g + b /\ b \in 0 .. FaceSide - 1 /\ g \in 0 .. 1
      BY <1>5, <2>1, <2>2
    <3> QED
      BY <3>1, Join
  <2> QED
    BY <2>3, <2>4 DEF F
<1>9. i \in 0 .. TileSide - 1 /\ j \in 0 .. TileSide - 1
  <2>1. i % TileSide = i /\ j % TileSide = j
    BY <1>8
  <2> HIDE DEF i, j
  <2> QED
    BY <1>8, <2>1, Split
<1>10. Offset(i, j) = o
  <2>1. Offset(i, j) = (((2 * h) + g) * E) + (a * F) + b
    BY <1>8 DEF Offset, E, F
  <2>2. f * E = E * f /\ a * F = F * a
    BY <1>1, <1>3, <1>4
  <2>3. E * f \in Int /\ F * a \in Int
    BY <1>1, <1>3, <1>4
  <2>4. o = (f * E) + (a * F) + b
    BY <1>3, <1>4, <2>2, <2>3
  <2> HIDE DEF i, j
  <2> QED
    BY <1>5, <2>1, <2>4
<1> QED
  BY <1>9, <1>10

-----------------------------------------------------------------------------
\* Matrices: the place of an element among the rows, or among the tiles

\* The place of an element among rows of a length.
LEMMA Place ==
    ASSUME NEW h \in Nat, NEW w \in Nat \ {0}, NEW p \in 0 .. h - 1, NEW q \in 0 .. w - 1
    PROVE  /\ p * w + q \in 0 .. (h * w) - 1
           /\ (p * w + q) \div w = p /\ (p * w + q) % w = q
<1>1. (h - 1 - p) * w >= 0 /\ (h - 1 - p) * w = h * w - w - p * w /\ p * w \in Nat
  OBVIOUS
<1>2. h * w \in Nat /\ p * w + q \in Nat
  BY <1>1
<1>3. p * w + q \in 0 .. (h * w) - 1
  BY <1>1, <1>2
<1> DEFINE x == p * w + q
<1>4. x = w * p + q /\ x \in Nat /\ p \in Int
  BY <1>1
<1> HIDE DEF x
<1>5. x \div w = p /\ x % w = q
  BY <1>4, Quotient
<1> QED
  BY <1>3, <1>5 DEF x

\* And back.
LEMMA Located ==
    ASSUME NEW h \in Nat, NEW w \in Nat \ {0}, NEW e \in 0 .. (h * w) - 1
    PROVE  /\ e \div w \in 0 .. h - 1 /\ e % w \in 0 .. w - 1
           /\ e = (e \div w) * w + (e % w)
<1> DEFINE p == e \div w
           q == e % w
<1>1. e = w * p + q /\ q \in 0 .. w - 1 /\ p \in Nat /\ e \in Nat
  <2>1. h * w \in Nat
    OBVIOUS
  <2>2. e \in Nat
    BY <2>1
  <2> QED
    BY <2>2, Euclid
<1> HIDE DEF p, q
<1>2. w * p = p * w /\ p * w \in Nat
  BY <1>1
<1>3. p <= h - 1
  <2>1. CASE p >= h
    <3>1. (p - h) * w >= 0 /\ (p - h) * w = p * w - h * w
      BY <1>1, <2>1
    <3> QED
      BY <1>1, <1>2, <3>1
  <2> QED
    BY <1>1, <2>1
<1> QED
  BY <1>1, <1>2, <1>3 DEF p, q

\* A row or a column is a tile and the place in the tile.
LEMMA InSide ==
    ASSUME NEW x \in Nat
    PROVE  /\ x % TileSide \in 0 .. TileSide - 1 /\ x \div TileSide \in Nat
           /\ x = (TileSide * (x \div TileSide)) + (x % TileSide)
           /\ FaceHalf(x % TileSide) = FaceHalf(x)
           /\ (x % TileSide) % FaceSide = x % FaceSide
           /\ (x % TileSide) % TileSide = x % TileSide
<1> DEFINE y == x % TileSide
           h == FaceHalf(x)
           l == x % FaceSide
<1>1. /\ y = (TileSide * 0) + (FaceSide * h) + l /\ h \in 0 .. 1 /\ l \in 0 .. FaceSide - 1
      /\ y = (FaceSide * h) + l
  <2>1. h \in 0 .. 1 /\ l \in 0 .. FaceSide - 1 /\ y = (FaceSide * h) + l
    BY Split
  <2> HIDE DEF y, h, l
  <2>2. TileSide * 0 = 0 /\ FaceSide * h \in Int
    BY <2>1, Sides
  <2> QED
    BY <2>1, <2>2
<1> HIDE DEF y, h, l
<1>2. FaceHalf(y) = h /\ y % FaceSide = l /\ y % TileSide = (FaceSide * h) + l
  BY <1>1, Join
<1>3. y \in 0 .. TileSide - 1 /\ x \div TileSide \in Nat /\ x = TileSide * (x \div TileSide) + y
  <2>1. TileSide \in Nat \ {0}
    BY Sides
  <2> QED
    BY <2>1, Euclid DEF y
<1> QED
  BY <1>1, <1>2, <1>3 DEF y, h, l

\* A tile and a place in it are a row or a column.
LEMMA Shift ==
    ASSUME NEW t \in Nat, NEW i \in 0 .. TileSide - 1, NEW x, x = (TileSide * t) + i
    PROVE  /\ x \in Nat /\ x \div TileSide = t /\ x % TileSide = i
           /\ FaceHalf(x) = FaceHalf(i) /\ x % FaceSide = i % FaceSide
<1>1. TileSide \in Nat \ {0} /\ TileSide * t \in Nat
  BY Sides
<1>2. x \in Nat
  BY <1>1
<1>3. x \div TileSide = t /\ x % TileSide = i
  BY <1>1, <1>2, Quotient
<1> QED
  BY <1>2, <1>3, InSide

\* Inside the first tile.
LEMMA Inside ==
    ASSUME NEW x \in 0 .. TileSide - 1
    PROVE  x \in Nat /\ x \div TileSide = 0 /\ x % TileSide = x
<1>1. x = (TileSide * 0) + x
  BY Sides
<1> QED
  BY <1>1, Shift

\* The device's way to a place in a tile is the host's.
LEMMA InTileOffset ==
    ASSUME NEW row \in Nat, NEW col \in Nat
    PROVE  InTile(row % TileSide, col % TileSide) = Offset(row, col)
<1>1. /\ (row % TileSide) \div FaceSide = FaceHalf(row)
      /\ (col % TileSide) \div FaceSide = FaceHalf(col)
  BY DEF FaceHalf
<1>2. /\ (row % TileSide) % FaceSide = row % FaceSide
      /\ (col % TileSide) % FaceSide = col % FaceSide
  BY InSide
<1> QED
  BY <1>1, <1>2 DEF InTile, Offset

\* Index of row_reduce.hpp: the tile, then the place in it.
LEMMA IndexParts ==
    ASSUME NEW row \in Nat, NEW col \in Nat, NEW w \in Nat \ {0}
    PROVE  Index(row, col, TileSide * w) =
             (((row \div TileSide) * w + col \div TileSide) * TileElems) + Offset(row, col)
<1>1. (TileSide * w) \div TileSide = w
  <2>1. TileSide \in Nat \ {0} /\ TileSide * w \in Nat /\ TileSide * w = TileSide * w + 0
        /\ 0 \in 0 .. TileSide - 1
    BY Sides
  <2> QED
    BY <2>1, Quotient
<1> DEFINE tile == (row \div TileSide) * w + col \div TileSide
           a == tile * TileElems
           f == (2 * FaceHalf(row)) + FaceHalf(col)
           b == f * FaceElems
           c == (row % FaceSide) * FaceSide
           d == col % FaceSide
<1>2. FaceOf(row, col) = f
  <2>1. FaceHalf(row) \in Int
    BY Split
  <2> QED
    BY <2>1 DEF FaceOf, FaceHalf
<1>3. Index(row, col, TileSide * w) = a + b + c + d
  BY <1>1, <1>2 DEF Index, TileOf
<1>4. Offset(row, col) = b + c + d
  BY DEF Offset
<1>5. a \in Int /\ b \in Int /\ c \in Int /\ d \in Int
  <2>1. row \div TileSide \in Nat /\ FaceHalf(row) \in Nat /\ row % FaceSide \in Nat
    BY Split
  <2>2. col \div TileSide \in Nat /\ FaceHalf(col) \in Nat /\ col % FaceSide \in Nat
    BY Split
  <2>3. (row \div TileSide) * w \in Int
    BY <2>1
  <2>4. tile \in Int /\ f \in Int
    BY <2>1, <2>2, <2>3
  <2> HIDE DEF tile, f
  <2> QED
    BY <2>1, <2>2, <2>4, Sides
<1> HIDE DEF a, b, c, d
<1>6. a + b + c + d = a + (b + c + d)
  BY <1>5
<1> QED
  BY <1>3, <1>4, <1>6 DEF a

\* In a column of tiles there is nothing beside a tile.
LEMMA ColumnIndex ==
    ASSUME NEW row \in Nat, NEW col \in 0 .. TileSide - 1
    PROVE  Index(row, col, TileSide) = ((row \div TileSide) * TileElems) + Offset(row, col)
<1>1. col \in Nat /\ col \div TileSide = 0 /\ TileSide * 1 = TileSide
  BY Inside, Sides
<1>2. Index(row, col, TileSide * 1) = (((row \div TileSide) * 1 + 0) * TileElems) + Offset(row, col)
  BY <1>1, IndexParts
<1>3. (row \div TileSide) * 1 + 0 = row \div TileSide
  BY InSide
<1> QED
  BY <1>1, <1>2, <1>3

\* No two elements have one place.
LEMMA IndexInjective ==
    ASSUME NEW w \in Nat \ {0},
           NEW row \in Nat, NEW col \in 0 .. (TileSide * w) - 1,
           NEW r \in Nat, NEW c \in 0 .. (TileSide * w) - 1,
           Index(row, col, TileSide * w) = Index(r, c, TileSide * w)
    PROVE  row = r /\ col = c
<1> DEFINE p == (row \div TileSide) * w + col \div TileSide
           q == (r \div TileSide) * w + c \div TileSide
<1>1. TileSide * w = w * TileSide /\ TileSide \in Nat \ {0} /\ TileElems \in Nat \ {0}
  BY Sides
<1>2. /\ col \in Nat /\ col \div TileSide \in 0 .. w - 1
      /\ c \in Nat /\ c \div TileSide \in 0 .. w - 1
  <2>1. w \in Nat /\ w * TileSide \in Nat
    BY <1>1
  <2>2. col \in 0 .. (w * TileSide) - 1 /\ c \in 0 .. (w * TileSide) - 1
    BY <1>1
  <2>3. col \div TileSide \in 0 .. w - 1
    BY <1>1, <2>1, <2>2, Located
  <2>4. c \div TileSide \in 0 .. w - 1
    BY <1>1, <2>1, <2>2, Located
  <2> QED
    BY <2>1, <2>2, <2>3, <2>4
<1>3. row \div TileSide \in Nat /\ r \div TileSide \in Nat
  BY InSide
<1>4. p = q /\ Offset(row, col) = Offset(r, c)
  <2>1. p \in Int /\ q \in Int
    <3>1. (row \div TileSide) * w \in Int /\ (r \div TileSide) * w \in Int
      BY <1>3
    <3> QED
      BY <1>2, <3>1
  <2>2. Offset(row, col) \in 0 .. TileElems - 1 /\ Offset(r, c) \in 0 .. TileElems - 1
    BY <1>2, OffsetParts
  <2>3. p * TileElems + Offset(row, col) = q * TileElems + Offset(r, c)
    BY <1>2, IndexParts
  <2> HIDE DEF p, q
  <2>4. TileElems * p + Offset(row, col) = TileElems * q + Offset(r, c)
    BY <1>1, <2>1, <2>3
  <2> QED
    BY <1>1, <2>1, <2>2, <2>4, UniqueQuotient
<1>5. row \div TileSide = r \div TileSide /\ col \div TileSide = c \div TileSide
  <2> DEFINE a == row \div TileSide
             b == r \div TileSide
             x == col \div TileSide
             y == c \div TileSide
  <2>1. a \in Int /\ b \in Int /\ x \in 0 .. w - 1 /\ y \in 0 .. w - 1 /\ a * w + x = b * w + y
    BY <1>2, <1>3, <1>4
  <2> HIDE DEF a, b, x, y
  <2>2. w * a + x = w * b + y
    BY <2>1
  <2>3. a = b /\ x = y
    BY <2>1, <2>2, UniqueQuotient
  <2> QED
    BY <2>3 DEF a, b, x, y
<1>6. row % TileSide = r % TileSide /\ col % TileSide = c % TileSide
  BY <1>2, <1>4, SameOffset
<1>7. row = (TileSide * (row \div TileSide)) + (row % TileSide)
      /\ r = (TileSide * (r \div TileSide)) + (r % TileSide)
  BY InSide
<1>8. col = (TileSide * (col \div TileSide)) + (col % TileSide)
      /\ c = (TileSide * (c \div TileSide)) + (c % TileSide)
  BY <1>2, InSide
<1> QED
  BY <1>5, <1>6, <1>7, <1>8

\* Every place is one in the vector.
LEMMA IndexRange ==
    ASSUME NEW h \in Nat, NEW w \in Nat \ {0},
           NEW row \in 0 .. (TileSide * h) - 1, NEW col \in 0 .. (TileSide * w) - 1
    PROVE  Index(row, col, TileSide * w) \in Elements(TileSide * h, TileSide * w)
<1>1. /\ TileSide * w = w * TileSide /\ TileSide * h = h * TileSide
      /\ TileSide \in Nat \ {0} /\ TileElems \in Nat \ {0}
  BY Sides
<1>2. row \in Nat /\ col \in Nat /\ row \div TileSide \in 0 .. h - 1 /\ col \div TileSide \in 0 .. w - 1
  <2>1. w \in Nat /\ w * TileSide \in Nat /\ h * TileSide \in Nat
    BY <1>1
  <2>2. row \in 0 .. (h * TileSide) - 1 /\ col \in 0 .. (w * TileSide) - 1
    BY <1>1
  <2>3. row \div TileSide \in 0 .. h - 1
    BY <1>1, <2>2, Located
  <2>4. col \div TileSide \in 0 .. w - 1
    BY <1>1, <2>1, <2>2, Located
  <2> QED
    BY <2>1, <2>2, <2>3, <2>4
<1> DEFINE tile == (row \div TileSide) * w + col \div TileSide
<1>3. tile \in 0 .. (h * w) - 1 /\ h * w \in Nat
  BY <1>2, Place
<1>4. Offset(row, col) \in 0 .. TileElems - 1
  BY <1>2, OffsetParts
<1> HIDE DEF tile
<1>5. tile * TileElems + Offset(row, col) \in 0 .. ((h * w) * TileElems) - 1
  BY <1>1, <1>3, <1>4, Place
<1>6. (h * w) * TileElems = (TileSide * h) * (TileSide * w)
  <2>1. (h * w) * (TileSide * TileSide) = (TileSide * h) * (TileSide * w)
    BY <1>1
  <2> QED
    BY <2>1, Sides
<1>7. Index(row, col, TileSide * w) = tile * TileElems + Offset(row, col)
  BY <1>2, IndexParts DEF tile
<1> QED
  BY <1>5, <1>6, <1>7 DEF Elements

\* In a column of tiles, every place is that of an element.
LEMMA IndexOnto ==
    ASSUME NEW h \in Nat, NEW n \in 0 .. (h * TileElems) - 1
    PROVE  \E row \in 0 .. (TileSide * h) - 1, col \in 0 .. TileSide - 1 :
               Index(row, col, TileSide) = n
<1> DEFINE t == n \div TileElems
           o == n % TileElems
<1>1. TileElems \in Nat \ {0} /\ TileSide \in Nat \ {0}
  BY Sides
<1>2. t \in 0 .. h - 1 /\ o \in 0 .. TileElems - 1 /\ n = t * TileElems + o
  BY <1>1, Located
<1>3. PICK i \in 0 .. TileSide - 1, j \in 0 .. TileSide - 1 : Offset(i, j) = o
  BY <1>2, EveryOffset
<1> HIDE DEF t, o
<1> DEFINE row == (TileSide * t) + i
<1>4. /\ row \in Nat /\ row \div TileSide = t
      /\ FaceHalf(row) = FaceHalf(i) /\ row % FaceSide = i % FaceSide
  BY <1>2, Shift
<1>5. row \in 0 .. (TileSide * h) - 1
  <2>1. t * TileSide + i \in 0 .. (h * TileSide) - 1
    BY <1>1, <1>2, Place
  <2>2. t * TileSide = TileSide * t /\ h * TileSide = TileSide * h
    BY <1>1, <1>2
  <2> QED
    BY <2>1, <2>2
<1>6. Offset(row, j) = o
  BY <1>3, <1>4 DEF Offset
<1>7. Index(row, j, TileSide) = n
  <2> HIDE DEF row
  <2> QED
    BY <1>2, <1>4, <1>6, ColumnIndex
<1> QED
  BY <1>5, <1>7

-----------------------------------------------------------------------------
\* The host's vectors and the device's sums

Shaped == Rows \in Nat \ {0} /\ Cols \in Nat \ {0}

\* The smallest number of tiles that holds the dimension.
LEMMA Dimension ==
    ASSUME NEW d \in Nat \ {0}
    PROVE  LET w == PaddedDimension(d) \div TileSide IN
           w \in Nat \ {0} /\ PaddedDimension(d) = TileSide * w /\ d <= TileSide * w
<1> DEFINE x == d + TileSide - 1
           q == x \div TileSide
           y == x % TileSide
<1>1. TileSide \in Nat \ {0}
  BY Sides
<1>2. x \in Nat /\ x >= TileSide
  BY <1>1
<1>3. x = TileSide * q + y /\ y \in 0 .. TileSide - 1 /\ q \in Nat
  <2> HIDE DEF x
  <2> QED
    BY <1>1, <1>2, Euclid
<1>4. PaddedDimension(d) = q * TileSide
  BY DEF PaddedDimension
<1> HIDE DEF q, y
<1>5. q # 0
  <2>1. CASE q = 0
    <3>1. TileSide * q = 0
      BY <1>1, <2>1
    <3> HIDE DEF x
    <3> QED
      BY <1>1, <1>2, <1>3, <3>1
  <2> QED
    BY <2>1
<1>6. q * TileSide = TileSide * q /\ TileSide * q \in Nat
  BY <1>1, <1>3
<1>7. d <= TileSide * q
  BY <1>1, <1>3, <1>6
<1>8. PaddedDimension(d) \div TileSide = q
  <2>1. PaddedDimension(d) = TileSide * q + 0 /\ 0 \in 0 .. TileSide - 1
        /\ PaddedDimension(d) \in Nat
    BY <1>1, <1>4, <1>6
  <2> QED
    BY <1>1, <1>3, <2>1, Quotient
<1> QED
  BY <1>3, <1>4, <1>5, <1>6, <1>7, <1>8

\* The padded matrix holds whole tiles, and the logical one.
LEMMA Padded ==
    ASSUME Shaped
    PROVE  /\ Ht \in Nat \ {0} /\ PaddedRows = TileSide * Ht /\ Rows <= PaddedRows
           /\ Wt \in Nat \ {0} /\ PaddedCols = TileSide * Wt /\ Cols <= PaddedCols
           /\ PaddedRows \in Nat \ {0} /\ PaddedCols \in Nat \ {0}
           /\ PaddedRows * TileSide = Ht * TileElems
<1>1. Ht \in Nat \ {0} /\ PaddedRows = TileSide * Ht /\ Rows <= PaddedRows
  BY Dimension DEF Shaped, Ht, PaddedRows
<1>2. Wt \in Nat \ {0} /\ PaddedCols = TileSide * Wt /\ Cols <= PaddedCols
  BY Dimension DEF Shaped, Wt, PaddedCols
<1>3. TileSide \in Nat \ {0} /\ TileSide * TileSide = TileElems
  BY Sides
<1>4. TileSide * Ht \in Nat \ {0} /\ TileSide * Wt \in Nat \ {0}
  BY <1>1, <1>2, <1>3
<1>5. (TileSide * Ht) * TileSide = Ht * (TileSide * TileSide)
  BY <1>1, <1>3
<1> QED
  BY <1>1, <1>2, <1>3, <1>4, <1>5

\* Tilizing moves an element from its row and column to its place.
LEMMA TilizeAt ==
    ASSUME NEW h \in Nat, NEW w \in Nat \ {0}, NEW rowMajor,
           NEW row \in 0 .. (TileSide * h) - 1, NEW col \in 0 .. (TileSide * w) - 1
    PROVE  Tilize(rowMajor, TileSide * h, TileSide * w)[Index(row, col, TileSide * w)]
             = rowMajor[row * (TileSide * w) + col]
<1> DEFINE e == Index(row, col, TileSide * w)
           C == Coordinate(TileSide * h, TileSide * w)
           at == CHOOSE rc \in C : Index(rc[1], rc[2], TileSide * w) = e
<1>1. e \in Elements(TileSide * h, TileSide * w)
  BY IndexRange
<1>2. <<row, col>> \in C
  BY DEF Coordinate
<1>3. at \in C /\ Index(at[1], at[2], TileSide * w) = e
  <2>1. \E rc \in C : Index(rc[1], rc[2], TileSide * w) = e
    <3>1. Index(<<row, col>>[1], <<row, col>>[2], TileSide * w) = e
      OBVIOUS
    <3> HIDE DEF e, C
    <3> QED
      BY <1>2, <3>1
  <2> HIDE DEF e, C
  <2> QED
    BY <2>1
<1>4. at[1] \in 0 .. (TileSide * h) - 1 /\ at[2] \in 0 .. (TileSide * w) - 1
  <2> HIDE DEF at
  <2> QED
    BY <1>3 DEF Coordinate
<1>5. at[1] = row /\ at[2] = col
  <2> HIDE DEF at
  <2>1. TileSide * h \in Nat
    BY Sides
  <2>2. at[1] \in Nat /\ row \in Nat
    BY <1>4, <2>1
  <2> QED
    BY <1>3, <1>4, <2>2, IndexInjective
<1>6. Tilize(rowMajor, TileSide * h, TileSide * w)[e]
        = rowMajor[at[1] * (TileSide * w) + at[2]]
  <2> HIDE DEF e
  <2> QED
    BY <1>1 DEF Tilize
<1> HIDE DEF at
<1> QED
  BY <1>5, <1>6

\* What the host has at a row and a column.
Logical(row, col) == IF row < Rows /\ col < Cols THEN Label(row, col) ELSE Zero

\* Padding puts an element at its row and column.
LEMMA PadAt ==
    ASSUME Shaped, NEW row \in 0 .. PaddedRows - 1, NEW col \in 0 .. PaddedCols - 1
    PROVE  Pad(Rows, Cols)[row * PaddedCols + col] = Logical(row, col)
<1> DEFINE e == row * PaddedCols + col
<1>1. PaddedRows \in Nat /\ PaddedCols \in Nat \ {0}
  BY Padded
<1>2. e \in 0 .. (PaddedRows * PaddedCols) - 1 /\ e \div PaddedCols = row /\ e % PaddedCols = col
  BY <1>1, Place
<1> HIDE DEF e
<1>3. Pad(Rows, Cols)[e] = Logical(row, col)
  BY <1>2 DEF Pad, Elements, Logical
<1> QED
  BY <1>3 DEF e

\* An even number of elements survives the words.
LEMMA WordsBack ==
    ASSUME NEW n \in Nat, NEW f, NEW e \in 0 .. (2 * n) - 1
    PROVE  ResultBits(TransferWords(f, 2 * n), 2 * n)[e] = f[e]
<1>1. (2 * n) \div 2 = n
  OBVIOUS
<1>2. e \div 2 \in 0 .. n - 1
  OBVIOUS
<1>3. TransferWords(f, 2 * n)[e \div 2] = Packed(f[2 * (e \div 2)], f[2 * (e \div 2) + 1])
  BY <1>1, <1>2 DEF TransferWords
<1>4. CASE e % 2 = 0
  <2>1. 2 * (e \div 2) = e
    BY <1>4
  <2>2. ResultBits(TransferWords(f, 2 * n), 2 * n)[e] = TransferWords(f, 2 * n)[e \div 2].low
    BY <1>4 DEF ResultBits
  <2> QED
    BY <1>3, <2>1, <2>2 DEF Packed
<1>5. CASE e % 2 # 0
  <2>1. 2 * (e \div 2) + 1 = e
    BY <1>5
  <2>2. ResultBits(TransferWords(f, 2 * n), 2 * n)[e] = TransferWords(f, 2 * n)[e \div 2].high
    BY <1>5 DEF ResultBits
  <2> QED
    BY <1>3, <2>1, <2>2 DEF Packed
<1> QED
  BY <1>4, <1>5

\* The number of elements is even.
LEMMA Even ==
    ASSUME Shaped
    PROVE  /\ \E n \in Nat : PaddedRows * PaddedCols = 2 * n
           /\ \E n \in Nat : Ht * TileElems = 2 * n
<1>1. FaceSide \in Nat /\ TileSide = FaceSide + FaceSide /\ FaceElems \in Nat /\ TileElems = 4 * FaceElems
  BY Sides
<1>2. /\ Ht \in Nat /\ PaddedRows = TileSide * Ht /\ PaddedCols \in Nat
  BY Padded
<1>3. PaddedRows = 2 * (FaceSide * Ht) /\ FaceSide * Ht \in Nat
  BY <1>1, <1>2
<1> DEFINE a == FaceSide * Ht
<1> HIDE DEF a
<1>4. PaddedRows = 2 * a /\ a \in Nat
  BY <1>3 DEF a
<1>5. PaddedRows * PaddedCols = 2 * (a * PaddedCols) /\ a * PaddedCols \in Nat
  <2> DEFINE c == PaddedCols
  <2>1. c \in Nat
    BY <1>2
  <2> HIDE DEF c
  <2>2. (2 * a) * c = 2 * (a * c) /\ a * c \in Nat
    BY <1>4, <2>1
  <2> QED
    BY <1>4, <2>2 DEF c
<1>6. Ht * TileElems = 2 * (Ht * (2 * FaceElems)) /\ Ht * (2 * FaceElems) \in Nat
  BY <1>1, <1>2
<1> QED
  BY <1>5, <1>6

-----------------------------------------------------------------------------
\* The scaler tile is one wherever the reduction reads it.
LEMMA ScaleOne ==
    ASSUME NEW i \in 0 .. TileSide - 1, NEW j \in 0 .. TileSide - 1
    PROVE  Scale(i, j) = 1
<1> DEFINE F == FaceSide
           k == i - (i % F)
           h == FaceHalf(i)
           g == FaceHalf(j)
           b == j % F
<1>1. i \in Nat /\ j \in Nat /\ i % TileSide = i /\ j % TileSide = j
      /\ i \div TileSide = 0 /\ TileSide \in Nat \ {0} /\ F \in Nat \ {0}
  <2>1. TileSide \in Nat \ {0} /\ FaceSide \in Nat \ {0}
    BY Sides
  <2> QED
    BY <2>1, Inside
<1>2. h \in 0 .. 1 /\ g \in 0 .. 1 /\ b \in 0 .. F - 1
  <2>1. h \in 0 .. 1
    BY <1>1, Split
  <2> QED
    BY <1>1, <2>1, Split
<1>3. k = F * h
  <2>1. i = F * h + (i % F)
    BY <1>1, Split
  <2>2. F * h \in Int /\ i % F \in Int
    BY <1>1, <1>2
  <2> QED
    BY <1>1, <2>1, <2>2
<1>4. k \div F = h /\ k % F = 0
  <2>1. k = F * h + 0 /\ 0 \in 0 .. F - 1 /\ h \in Int /\ F * h \in Nat
    BY <1>1, <1>2, <1>3
  <2>2. k \in Nat
    BY <1>3, <2>1
  <2> HIDE DEF F, k, h
  <2> QED
    BY <1>1, <2>1, <2>2, Quotient
<1>5. j \div F = g
  BY <1>1 DEF FaceHalf
<1>6. InTile(k, j) = ((2 * h + g) * FaceElems) + b
  <2>1. InTile(k, j) = ((2 * h + g) * FaceElems) + (0 * F) + b
    BY <1>4, <1>5 DEF InTile
  <2>2. 0 * F = 0 /\ (2 * h + g) * FaceElems \in Int
    BY <1>1, <1>2, Sides
  <2> HIDE DEF h, g, b, F
  <2> QED
    BY <1>2, <2>1, <2>2
<1>7. 2 * h + g \in 0 .. 3
  BY <1>2
<1>8. FaceElems \in Nat \ {0} /\ TileElems = 4 * FaceElems /\ b \in 0 .. FaceElems - 1
  <2>1. FaceElems \in Nat \ {0} /\ TileElems = 4 * FaceElems /\ FaceElems = FaceSide * FaceSide
    BY Sides
  <2>2. FaceSide <= FaceSide * FaceSide
    BY <1>1
  <2> QED
    BY <1>1, <1>2, <2>1, <2>2
<1>9. InTile(k, j) \in 0 .. TileElems - 1
  <2> DEFINE f == 2 * h + g
  <2> HIDE DEF h, g, b, k
  <2>1. f * FaceElems + b \in 0 .. (4 * FaceElems) - 1
    <3> HIDE DEF f
    <3>1. f \in 0 .. 4 - 1
      BY <1>7 DEF f
    <3> QED
      BY <1>8, <3>1, Place
  <2> QED
    BY <1>6, <1>8, <2>1
<1>10. Scaler[InTile(k, j)] = 1
  <2>1. \E face \in 0 .. 3, col \in 0 .. FaceSide - 1 : InTile(k, j) = (face * FaceElems) + col
    <3> HIDE DEF h, g, b, k
    <3> QED
      BY <1>2, <1>6, <1>7
  <2> HIDE DEF k
  <2> QED
    BY <1>9, <2>1 DEF Scaler
<1> QED
  BY <1>10 DEF Scale

\* A row of the device's tiles, read through the faces, is a row of the matrix.
LEMMA TermAt ==
    ASSUME Shaped, NEW tiles,
           NEW r \in 0 .. Ht - 1, NEW i \in 0 .. TileSide - 1, NEW n \in 0 .. PaddedCols - 1
    PROVE  Term(tiles, r, i, n) = tiles[Index((TileSide * r) + i, n, PaddedCols)]
<1> DEFINE row == (TileSide * r) + i
<1>1. /\ Ht \in Nat /\ Wt \in Nat \ {0} /\ PaddedCols = TileSide * Wt
      /\ PaddedCols \in Nat /\ r \in Nat /\ n \in Nat
  BY Padded
<1>2. row \in Nat /\ row \div TileSide = r /\ row % TileSide = i
  BY <1>1, Shift
<1> HIDE DEF row
<1>3. n % TileSide \in 0 .. TileSide - 1
  BY <1>1, InSide
<1>4. Scale(i, n % TileSide) = 1
  BY <1>3, ScaleOne
<1>5. InTile(i, n % TileSide) = Offset(row, n)
  BY <1>1, <1>2, InTileOffset
<1>6. Index(row, n, PaddedCols) = ((r * Wt + n \div TileSide) * TileElems) + Offset(row, n)
  BY <1>1, <1>2, IndexParts
<1>7. Term(tiles, r, i, n) = tiles[Index(row, n, PaddedCols)]
  BY <1>4, <1>5, <1>6 DEF Term
<1> QED
  BY <1>7 DEF row

\* An element, a sum, zero and junk are all different.
LEMMA LabelsDiffer ==
    /\ \A row, col : Label(row, col) # Zero
    /\ \A r \in Nat : Shaped => Reference(r) # Zero /\ Reference(r) # Junk
    /\ Junk # Zero
<1>1. DOMAIN Zero = {}
  BY DEF Zero
<1>2. \A row, col : DOMAIN Label(row, col) = 1 .. 2
  BY DEF Label
<1>3. DOMAIN Junk = 1 .. 2
  BY DEF Junk
<1>4. ASSUME Shaped, NEW r \in Nat
      PROVE  0 \in DOMAIN Reference(r)
  BY <1>4 DEF Shaped, Reference
<1>5. 1 \in 1 .. 2 /\ 0 \notin 1 .. 2
  OBVIOUS
<1> QED
  BY <1>1, <1>2, <1>3, <1>4, <1>5

\* What the host has uploaded, as the device sees it.
Uploaded(tiles) ==
    \A row \in 0 .. PaddedRows - 1, col \in 0 .. PaddedCols - 1 :
        tiles[Index(row, col, PaddedCols)] = Logical(row, col)

\* The sum of a row of the matrix, or nothing.
RowSum(row) == IF row < Rows THEN Reference(row) ELSE Zero

\* So the terms of a row of the tiles are the elements of a row of the matrix.
LEMMA RowTermsAt ==
    ASSUME Shaped, NEW tiles, Uploaded(tiles),
           NEW r \in 0 .. Ht - 1, NEW i \in 0 .. TileSide - 1
    PROVE  RowTerms(tiles, r, i) = RowSum((TileSide * r) + i)
<1> DEFINE row == (TileSide * r) + i
           S == {k \in 0 .. (Wt * TileSide) - 1 : Term(tiles, r, i, k) # Zero}
<1>1. /\ Ht \in Nat /\ PaddedRows = TileSide * Ht /\ TileSide \in Nat \ {0}
      /\ Wt * TileSide = PaddedCols /\ PaddedCols \in Nat /\ Cols <= PaddedCols
  <2>1. Wt \in Nat /\ Wt * TileSide = TileSide * Wt
    BY Padded, Sides
  <2> QED
    BY <2>1, Padded, Sides
<1>2. row \in 0 .. PaddedRows - 1
  <2>1. r * TileSide + i \in 0 .. (Ht * TileSide) - 1
    BY <1>1, Place
  <2>2. r * TileSide = TileSide * r /\ Ht * TileSide = TileSide * Ht
    BY <1>1
  <2> QED
    BY <1>1, <2>1, <2>2
<1>3. \A n \in 0 .. PaddedCols - 1 : Term(tiles, r, i, n) = Logical(row, n)
  <2> TAKE n \in 0 .. PaddedCols - 1
  <2>1. Term(tiles, r, i, n) = tiles[Index(row, n, PaddedCols)]
    BY TermAt
  <2> HIDE DEF row
  <2> QED
    BY <1>2, <2>1 DEF Uploaded
<1>4. RowTerms(tiles, r, i) = [n \in S |-> Term(tiles, r, i, n)]
  BY DEF RowTerms
<1> HIDE DEF row
<1>5. CASE row < Rows
  <2>1. \A n \in 0 .. PaddedCols - 1 : Term(tiles, r, i, n) # Zero <=> n < Cols
    BY <1>3, <1>5, LabelsDiffer DEF Logical
  <2>2. S = 0 .. Cols - 1
    BY <1>1, <2>1 DEF Shaped
  <2>3. \A n \in 0 .. Cols - 1 : Term(tiles, r, i, n) = Label(row, n)
    BY <1>1, <1>3, <1>5 DEF Logical, Shaped
  <2> HIDE DEF S
  <2>4. [n \in S |-> Term(tiles, r, i, n)] = [n \in 0 .. Cols - 1 |-> Label(row, n)]
    BY <2>2, <2>3
  <2> QED
    BY <1>4, <1>5, <2>4 DEF RowSum, Reference, row
<1>6. CASE ~(row < Rows)
  <2>1. S = {}
    BY <1>1, <1>3, <1>6 DEF Logical
  <2> HIDE DEF S
  <2>2. [n \in S |-> Term(tiles, r, i, n)] = Zero
    BY <2>1 DEF Zero
  <2> QED
    BY <1>4, <1>6, <2>2 DEF RowSum, row
<1> QED
  BY <1>5, <1>6

\* The reduction finds the row of a place again, and fills column zero.
LEMMA ReduceAt ==
    ASSUME Shaped, NEW tiles,
           NEW row \in 0 .. PaddedRows - 1, NEW col \in 0 .. TileSide - 1
    PROVE  Reduce(tiles)[Index(row, col, TileSide)] =
             IF col = 0 THEN RowTerms(tiles, row \div TileSide, row % TileSide) ELSE Zero
<1> DEFINE e == Index(row, col, TileSide)
           o == Offset(row, col)
           x == row % TileSide
           i == CHOOSE k \in 0 .. TileSide - 1 :
                  \E j \in 0 .. TileSide - 1 : InTile(k, j) = e % TileElems
<1>1. /\ Ht \in Nat \ {0} /\ PaddedRows = TileSide * Ht /\ PaddedRows * TileSide = Ht * TileElems
      /\ TileSide \in Nat \ {0} /\ TileElems \in Nat \ {0} /\ PaddedRows \in Nat
      /\ TileSide * 1 = TileSide
  BY Padded, Sides
<1>2. row \in Nat /\ col \in Nat /\ row \div TileSide \in 0 .. Ht - 1 /\ row \div TileSide \in Nat
  <2>1. row \in 0 .. (Ht * TileSide) - 1 /\ Ht * TileSide \in Nat /\ row \in Nat
    BY <1>1
  <2>2. row \div TileSide \in 0 .. Ht - 1
    BY <1>1, <2>1, Located
  <2> QED
    BY <1>1, <2>1, <2>2
<1>3. col \div TileSide = 0 /\ col % TileSide = col
  <2>1. col = TileSide * 0 + col
    BY <1>1, <1>2
  <2> QED
    BY <1>1, <2>1, Shift
<1>4. o \in 0 .. TileElems - 1
  BY <1>2, OffsetParts
<1>5. e = ((row \div TileSide) * TileElems) + o
  BY <1>2, ColumnIndex
<1>6. e \in 0 .. (Ht * TileElems) - 1 /\ e \div TileElems = row \div TileSide /\ e % TileElems = o
  <2> DEFINE p == row \div TileSide
  <2>1. p \in 0 .. Ht - 1 /\ e = p * TileElems + o /\ Ht \in Nat
    BY <1>1, <1>2, <1>5
  <2> HIDE DEF e, o, p
  <2>2. e \in 0 .. (Ht * TileElems) - 1 /\ e \div TileElems = p /\ e % TileElems = o
    BY <1>1, <1>4, <2>1, Place
  <2> QED
    BY <2>2 DEF p
<1> HIDE DEF e, o
<1>7. x \in 0 .. TileSide - 1 /\ InTile(x, col) = o
  <2>1. InTile(x, col % TileSide) = o
    BY <1>2, InTileOffset DEF o
  <2> QED
    BY <1>2, <1>3, <2>1, InSide
<1>8. \A k \in 0 .. TileSide - 1, j \in 0 .. TileSide - 1 :
        InTile(k, j) = o => k = x /\ j = col
  <2> TAKE k \in 0 .. TileSide - 1, j \in 0 .. TileSide - 1
  <2> HAVE InTile(k, j) = o
  <2>1. \A y \in 0 .. TileSide - 1 : y \in Nat /\ y % TileSide = y
    BY <1>1, Inside
  <2>2. k \in Nat /\ k % TileSide = k
    BY <2>1
  <2>3. j \in Nat /\ j % TileSide = j
    BY <2>1
  <2>4. InTile(k, j) = Offset(k, j)
    BY <2>2, <2>3, InTileOffset
  <2>5. Offset(k, j) = Offset(row, col)
    BY <2>4 DEF o
  <2>6. k % TileSide = row % TileSide /\ j % TileSide = col % TileSide
    BY <1>2, <2>2, <2>3, <2>5, SameOffset
  <2> QED
    BY <1>3, <2>2, <2>3, <2>6
<1> HIDE DEF x
<1>9. i = x
  <2>1. \E k \in 0 .. TileSide - 1 :
          \E j \in 0 .. TileSide - 1 : InTile(k, j) = e % TileElems
    BY <1>6, <1>7
  <2>2. i \in 0 .. TileSide - 1 /\ \E j \in 0 .. TileSide - 1 : InTile(i, j) = e % TileElems
    BY <2>1
  <2> HIDE DEF i
  <2> QED
    BY <1>6, <1>8, <2>2
<1>10. InTile(x, 0) = o <=> col = 0
  BY <1>1, <1>7, <1>8
<1>11. Reduce(tiles)[e] = IF InTile(i, 0) = e % TileElems
                            THEN RowTerms(tiles, e \div TileElems, i) ELSE Zero
  BY <1>6 DEF Reduce
<1> HIDE DEF i
<1> QED
  BY <1>6, <1>9, <1>10, <1>11 DEF e, x

-----------------------------------------------------------------------------
\* What is read back

\* The element of the output tiles that the host finds at a row and a column.
Out(row, col) == OutputBits[Index(row, col, TileSide)]

\* What a device that is right has there.
Expected(row, col) == IF row < Rows /\ col = 0 THEN Reference(row) ELSE Zero

\* The output tiles, cut into words and put together, hold the sums.
LEMMA SumsBack ==
    ASSUME Shaped, NEW tiles, Uploaded(tiles),
           NEW row \in 0 .. PaddedRows - 1, NEW col \in 0 .. TileSide - 1
    PROVE  ResultBits(TransferWords(Reduce(tiles), Ht * TileElems), Ht * TileElems)
             [Index(row, col, TileSide)] = Expected(row, col)
<1> DEFINE e == Index(row, col, TileSide)
<1>1. /\ Ht \in Nat \ {0} /\ PaddedRows = TileSide * Ht /\ PaddedRows * TileSide = Ht * TileElems
      /\ TileSide \in Nat \ {0} /\ TileSide * 1 = TileSide /\ Rows \in Nat
  BY Padded, Sides DEF Shaped
<1>2. e \in 0 .. (Ht * TileElems) - 1
  <2>1. row \in 0 .. (TileSide * Ht) - 1 /\ col \in 0 .. (TileSide * 1) - 1 /\ Ht \in Nat
    BY <1>1
  <2>2. Index(row, col, TileSide * 1) \in Elements(TileSide * Ht, TileSide * 1)
    BY <2>1, IndexRange
  <2> QED
    BY <1>1, <2>2 DEF Elements
<1>3. PICK n \in Nat : Ht * TileElems = 2 * n
  BY Even
<1>4. ResultBits(TransferWords(Reduce(tiles), Ht * TileElems), Ht * TileElems)[e] = Reduce(tiles)[e]
  <2> HIDE DEF e
  <2> QED
    BY <1>2, <1>3, WordsBack
<1>5. CASE col = 0
  <2>1. /\ row \div TileSide \in 0 .. Ht - 1 /\ row % TileSide \in 0 .. TileSide - 1
        /\ row = TileSide * (row \div TileSide) + (row % TileSide)
    <3>1. row \in 0 .. (Ht * TileSide) - 1 /\ Ht * TileSide \in Nat /\ row \in Nat
      BY <1>1
    <3>2. row \div TileSide \in 0 .. Ht - 1
      BY <1>1, <3>1, Located
    <3> QED
      BY <3>1, <3>2, InSide
  <2>2. RowTerms(tiles, row \div TileSide, row % TileSide) = RowSum(row)
    <3> DEFINE r == row \div TileSide
               i == row % TileSide
    <3>1. r \in 0 .. Ht - 1 /\ i \in 0 .. TileSide - 1 /\ row = TileSide * r + i
      BY <2>1
    <3> HIDE DEF r, i
    <3>2. RowTerms(tiles, r, i) = RowSum(TileSide * r + i)
      BY <3>1, RowTermsAt
    <3> QED
      BY <3>1, <3>2 DEF r, i
  <2>3. Reduce(tiles)[e] = RowSum(row)
    BY <1>5, <2>2, ReduceAt
  <2> QED
    BY <1>4, <1>5, <2>3 DEF RowSum, Expected
<1>6. CASE col # 0
  <2>1. Reduce(tiles)[e] = Zero
    BY <1>6, ReduceAt
  <2> QED
    BY <1>4, <1>6, <2>1 DEF Expected
<1> QED
  BY <1>5, <1>6

-----------------------------------------------------------------------------
\* The inductive invariant of the data path

ShapeInv ==
    /\ shape \in (0 .. MaxDimension + 1) \X (0 .. MaxDimension + 1)
    /\ phase \in {"validate", "rejected", "prepare", "transfer", "device", "read",
                  "compare", "done"}
    /\ phase \notin {"validate", "rejected"} => Shaped
    /\ corrupt \in BOOLEAN
    /\ corrupt => phase \in {"read", "compare", "done"}

\* Every logical element is at its row and column, and then in its tile.
UploadInv ==
    /\ phase = "transfer" =>
         \A row \in 0 .. PaddedRows - 1, col \in 0 .. PaddedCols - 1 :
             padded[row * PaddedCols + col] = Logical(row, col)
    /\ phase = "device" => Uploaded(ResultBits(words, PaddedRows * PaddedCols))

\* The output tiles hold the sums, or one element of them is junk.
OutputInv ==
    /\ phase = "read" /\ ~corrupt =>
         /\ DOMAIN output = 0 .. ((Ht * TileElems) \div 2) - 1
         /\ \A i \in DOMAIN output : DOMAIN output[i] = {"low", "high"}
    /\ phase \in {"read", "compare", "done"} =>
         /\ corrupt => \E row \in 0 .. PaddedRows - 1, col \in 0 .. TileSide - 1 :
                           Out(row, col) = Junk
         /\ ~corrupt => \A row \in 0 .. PaddedRows - 1, col \in 0 .. TileSide - 1 :
                           Out(row, col) = Expected(row, col)

\* No element of the padding is other than zero.
PaddingIsZero ==
    \A row \in 0 .. PaddedRows - 1, col \in 0 .. TileSide - 1 :
        IsPadding(row, col) => Out(row, col) = Zero

\* What was read back is what is in the tiles.
ReadInv ==
    /\ Read => /\ actual = [r \in 0 .. Rows - 1 |-> Out(r, 0)]
               /\ padding_zero \in BOOLEAN
               /\ padding_zero <=> PaddingIsZero
    /\ phase = "done" => decoded = IF padding_zero THEN actual ELSE Empty

DataInv == ShapeInv /\ UploadInv /\ OutputInv /\ ReadInv

-----------------------------------------------------------------------------
\* The steps of the data path keep it

\* What depends on the shape alone stays with it.
LEMMA SameShape ==
    ASSUME shape' = shape
    PROVE  /\ Rows' = Rows /\ Cols' = Cols /\ PaddedRows' = PaddedRows /\ PaddedCols' = PaddedCols
           /\ Ht' = Ht /\ Wt' = Wt /\ Shaped' = Shaped
<1>1. Rows' = Rows /\ Cols' = Cols
  BY DEF Rows, Cols
<1>2. PaddedRows' = PaddedRows /\ PaddedCols' = PaddedCols
  BY <1>1 DEF PaddedRows, PaddedCols
<1>3. Ht' = Ht /\ Wt' = Wt
  BY <1>2 DEF Ht, Wt
<1>4. Shaped' = Shaped
  BY <1>1 DEF Shaped
<1> QED
  BY <1>1, <1>2, <1>3, <1>4

\* So do the sums that the host expects,
LEMMA SameReference ==
    ASSUME shape' = shape
    PROVE  \A r : Reference(r)' = Reference(r)
BY SameShape DEF Reference

\* and, where the words are left alone, what it finds
LEMMA SameOut ==
    ASSUME shape' = shape, output' = output
    PROVE  /\ OutputBits' = OutputBits
           /\ \A row, col : Out(row, col)' = Out(row, col)
<1>1. OutputBits' = OutputBits
  BY SameShape DEF OutputBits
<1> QED
  BY <1>1 DEF Out

\* and expects to find.
LEMMA SameExpected ==
    ASSUME shape' = shape
    PROVE  \A row, col : Expected(row, col)' = Expected(row, col)
BY SameShape, SameReference DEF Expected

\* The padding stays what it was.
LEMMA SamePadding ==
    ASSUME shape' = shape, output' = output
    PROVE  PaddingIsZero' <=> PaddingIsZero
<1>1. \A row, col : IsPadding(row, col)' <=> IsPadding(row, col)
  BY SameShape DEF IsPadding
<1> QED
  BY <1>1, SameShape, SameOut DEF PaddingIsZero

\* Output that is not touched stays as it was.
LEMMA SameOutput ==
    ASSUME OutputInv, shape' = shape, output' = output, corrupt' = corrupt,
           phase' \in {"compare", "done"}, phase \in {"read", "compare", "done"}
    PROVE  OutputInv'
<1>1. phase' # "read"
  OBVIOUS
<1>2. CASE corrupt
  <2>1. PICK row \in 0 .. PaddedRows - 1, col \in 0 .. TileSide - 1 : Out(row, col) = Junk
    BY <1>2 DEF OutputInv
  <2>2. \E x \in 0 .. PaddedRows' - 1, y \in 0 .. TileSide - 1 : Out(x, y)' = Junk
    BY <2>1, SameShape, SameOut
  <2> QED
    BY <1>1, <1>2, <2>2 DEF OutputInv
<1>3. CASE ~corrupt
  <2>1. \A row \in 0 .. PaddedRows - 1, col \in 0 .. TileSide - 1 :
            Out(row, col) = Expected(row, col)
    BY <1>3 DEF OutputInv
  <2>2. \A row \in 0 .. PaddedRows' - 1, col \in 0 .. TileSide - 1 :
            Out(row, col)' = Expected(row, col)'
    BY <2>1, SameShape, SameOut, SameExpected
  <2> QED
    BY <1>1, <1>3, <2>2 DEF OutputInv
<1> QED
  BY <1>2, <1>3

\* A shape that is not refused has rows and columns.
LEMMA ValidateKeeps ==
    ASSUME DataInv, Validate
    PROVE  DataInv'
<1>1. shape' = shape /\ corrupt' = corrupt /\ phase = "validate"
      /\ phase' = IF Refused THEN "rejected" ELSE "prepare"
  BY DEF Validate
<1>2. phase' \in {"rejected", "prepare"} /\ (phase' # "rejected" => ~Refused)
  BY <1>1
<1>3. ~Refused => Shaped
  <2>1. Rows \in Nat /\ Cols \in Nat
    BY DimensionAssumption DEF DataInv, ShapeInv, Rows, Cols
  <2> QED
    BY <2>1 DEF Refused, Shaped
<1>4. ShapeInv'
  <2>1. phase' \notin {"validate", "rejected"} => Shaped'
    BY <1>1, <1>2, <1>3, SameShape
  <2>2. ~corrupt
    BY <1>1 DEF DataInv, ShapeInv
  <2> QED
    BY <1>1, <1>2, <2>1, <2>2 DEF DataInv, ShapeInv
<1>5. UploadInv' /\ OutputInv' /\ ReadInv'
  BY <1>2 DEF UploadInv, OutputInv, ReadInv, Read
<1> QED
  BY <1>4, <1>5 DEF DataInv

\* Padding.
LEMMA PrepareKeeps ==
    ASSUME DataInv, Prepare
    PROVE  DataInv'
<1>1. shape' = shape /\ corrupt' = corrupt /\ phase = "prepare" /\ phase' = "transfer"
      /\ padded' = Pad(Rows, Cols)
  BY DEF Prepare
<1>2. Shaped /\ ~corrupt
  BY <1>1 DEF DataInv, ShapeInv
<1>3. ShapeInv'
  BY <1>1, <1>2, SameShape DEF DataInv, ShapeInv
<1>4. UploadInv'
  <2>1. \A row \in 0 .. PaddedRows - 1, col \in 0 .. PaddedCols - 1 :
            padded'[row * PaddedCols + col] = Logical(row, col)
    BY <1>1, <1>2, PadAt
  <2>2. \A row, col : Logical(row, col)' = Logical(row, col)
    BY <1>1, SameShape DEF Logical
  <2>3. \A row \in 0 .. PaddedRows' - 1, col \in 0 .. PaddedCols' - 1 :
            padded'[row * PaddedCols' + col] = Logical(row, col)'
    BY <1>1, <2>1, <2>2, SameShape
  <2> QED
    BY <1>1, <2>3 DEF UploadInv
<1>5. OutputInv' /\ ReadInv'
  BY <1>1 DEF OutputInv, ReadInv, Read
<1> QED
  BY <1>3, <1>4, <1>5 DEF DataInv

\* Tilizing and packing.
LEMMA UploadKeeps ==
    ASSUME DataInv, Upload
    PROVE  DataInv'
<1> DEFINE N == PaddedRows * PaddedCols
           tiled == Tilize(padded, PaddedRows, PaddedCols)
           tiles == ResultBits(TransferWords(tiled, N), N)
<1>1. shape' = shape /\ corrupt' = corrupt /\ phase = "transfer" /\ phase' = "device"
      /\ words' = TransferWords(tiled, N)
  BY DEF Upload
<1>2. Shaped /\ ~corrupt
  BY <1>1 DEF DataInv, ShapeInv
<1>3. ShapeInv'
  BY <1>1, <1>2, SameShape DEF DataInv, ShapeInv
<1>4. UploadInv'
  <2>1. ASSUME NEW row \in 0 .. PaddedRows - 1, NEW col \in 0 .. PaddedCols - 1
        PROVE  tiles[Index(row, col, PaddedCols)] = Logical(row, col)
    <3> DEFINE e == Index(row, col, PaddedCols)
    <3>1. /\ Ht \in Nat /\ PaddedRows = TileSide * Ht
          /\ Wt \in Nat \ {0} /\ PaddedCols = TileSide * Wt
      BY <1>2, Padded
    <3>2. e \in 0 .. N - 1
      <4>1. Index(row, col, TileSide * Wt) \in Elements(TileSide * Ht, TileSide * Wt)
        BY <3>1, IndexRange
      <4> QED
        BY <3>1, <4>1 DEF Elements
    <3>3. tiled[e] = padded[row * PaddedCols + col]
      BY <3>1, TilizeAt
    <3>4. PICK n \in Nat : N = 2 * n
      BY <1>2, Even
    <3> HIDE DEF e, N, tiled
    <3>5. tiles[e] = tiled[e]
      BY <3>2, <3>4, WordsBack
    <3>6. padded[row * PaddedCols + col] = Logical(row, col)
      BY <1>1 DEF DataInv, UploadInv
    <3> QED
      BY <3>3, <3>5, <3>6 DEF e
  <2>2. \A row, col : Logical(row, col)' = Logical(row, col)
    BY <1>1, SameShape DEF Logical
  <2>3. ResultBits(words, N)' = tiles
    BY <1>1, SameShape
  <2>4. Uploaded(ResultBits(words, N))'
    <3> HIDE DEF tiles
    <3>1. ResultBits(words', PaddedRows' * PaddedCols') = tiles
      BY <2>3
    <3>2. \A row \in 0 .. PaddedRows' - 1, col \in 0 .. PaddedCols' - 1 :
              tiles[Index(row, col, PaddedCols')] = Logical(row, col)'
      BY <1>1, <2>1, <2>2, SameShape DEF tiles
    <3> QED
      BY <3>1, <3>2 DEF Uploaded
  <2> QED
    BY <1>1, <2>4 DEF UploadInv
<1>5. OutputInv' /\ ReadInv'
  BY <1>1 DEF OutputInv, ReadInv, Read
<1> QED
  BY <1>3, <1>4, <1>5 DEF DataInv

\* The reduction.
LEMMA LaunchKeeps ==
    ASSUME DataInv, Launch
    PROVE  DataInv'
<1> DEFINE N == Ht * TileElems
           tiles == ResultBits(words, PaddedRows * PaddedCols)
           sums == Reduce(tiles)
<1>1. shape' = shape /\ corrupt' = corrupt /\ phase = "device" /\ phase' = "read"
      /\ output' = TransferWords(sums, N)
  BY DEF Launch
<1>2. Shaped /\ ~corrupt
  BY <1>1 DEF DataInv, ShapeInv
<1>3. ShapeInv'
  BY <1>1, <1>2, SameShape DEF DataInv, ShapeInv
<1>4. UploadInv' /\ ReadInv'
  BY <1>1 DEF UploadInv, ReadInv, Read
<1>5. OutputInv'
  <2>1. Uploaded(tiles)
    BY <1>1 DEF DataInv, UploadInv
  <2>2. OutputBits' = ResultBits(TransferWords(sums, N), N)
    BY <1>1, SameShape DEF OutputBits
  <2>3. \A row \in 0 .. PaddedRows - 1, col \in 0 .. TileSide - 1 :
            OutputBits'[Index(row, col, TileSide)] = Expected(row, col)
    <3> HIDE DEF tiles
    <3> QED
      BY <1>2, <2>1, <2>2, SumsBack
  <2>4. \A row \in 0 .. PaddedRows' - 1, col \in 0 .. TileSide - 1 :
            Out(row, col)' = Expected(row, col)'
    BY <1>1, <2>3, SameShape, SameExpected DEF Out
  <2>5. /\ DOMAIN output' = 0 .. ((Ht' * TileElems) \div 2) - 1
        /\ \A i \in DOMAIN output' : DOMAIN output'[i] = {"low", "high"}
    <3> HIDE DEF sums
    <3>1. DOMAIN output' = 0 .. (N \div 2) - 1
      BY <1>1 DEF TransferWords
    <3>2. \A i \in 0 .. (N \div 2) - 1 : output'[i] = Packed(sums[2 * i], sums[2 * i + 1])
      BY <1>1 DEF TransferWords
    <3>3. \A a, b : DOMAIN Packed(a, b) = {"low", "high"}
      BY DEF Packed
    <3>4. \A i \in 0 .. (N \div 2) - 1 : DOMAIN output'[i] = {"low", "high"}
      BY <3>2, <3>3
    <3>5. 0 .. ((Ht' * TileElems) \div 2) - 1 = 0 .. (N \div 2) - 1
      BY <1>1, SameShape
    <3> QED
      BY <3>1, <3>4, <3>5
  <2> QED
    BY <1>1, <1>2, <2>4, <2>5 DEF OutputInv
<1> QED
  BY <1>3, <1>4, <1>5 DEF DataInv

\* Every position of the output is a row and a column, so junk shows there.
LEMMA CorruptKeeps ==
    ASSUME DataInv, Corrupt
    PROVE  DataInv'
<1>1. shape' = shape /\ ~corrupt /\ corrupt' = TRUE /\ phase = "read" /\ phase' = "read"
  BY DEF Corrupt
<1>2. Shaped
  BY <1>1 DEF DataInv, ShapeInv
<1>3. ShapeInv'
  BY <1>1, <1>2, SameShape DEF DataInv, ShapeInv
<1>4. UploadInv' /\ ReadInv'
  BY <1>1 DEF UploadInv, ReadInv, Read
<1>5. PICK i \in DOMAIN output, half \in {"low", "high"} :
          output' = [output EXCEPT ![i][half] = Junk]
  BY DEF Corrupt
<1> DEFINE N == Ht * TileElems
           e == 2 * i + (IF half = "low" THEN 0 ELSE 1)
<1>6. DOMAIN output = 0 .. (N \div 2) - 1 /\ DOMAIN output[i] = {"low", "high"}
  BY <1>1 DEF DataInv, OutputInv
<1>7. output'[i][half] = Junk
  BY <1>5, <1>6
<1>8. PICK n \in Nat : N = 2 * n
  BY <1>2, Even
<1>9. i \in 0 .. n - 1
  <2> HIDE DEF N
  <2> QED
    BY <1>6, <1>8
<1>10. e \in 0 .. N - 1 /\ e \div 2 = i /\ (e % 2 = 0 <=> half = "low")
  <2> HIDE DEF N
  <2>1. CASE half = "low"
    BY <1>8, <1>9, <2>1
  <2>2. CASE half # "low"
    BY <1>8, <1>9, <2>2
  <2> QED
    BY <2>1, <2>2
<1>11. OutputBits'[e] = Junk
  <2>1. OutputBits' = ResultBits(output', N)
    BY <1>1, SameShape DEF OutputBits
  <2> HIDE DEF N, e
  <2>2. CASE half = "low"
    BY <1>7, <1>10, <2>1, <2>2 DEF ResultBits
  <2>3. CASE half = "high"
    BY <1>7, <1>10, <2>1, <2>3 DEF ResultBits
  <2> QED
    BY <2>2, <2>3
<1>12. PICK row \in 0 .. PaddedRows - 1, col \in 0 .. TileSide - 1 : Index(row, col, TileSide) = e
  <2> HIDE DEF e
  <2>1. Ht \in Nat /\ PaddedRows = TileSide * Ht
    BY <1>2, Padded
  <2> QED
    BY <1>10, <2>1, IndexOnto
<1>13. Out(row, col)' = Junk
  BY <1>11, <1>12 DEF Out
<1>14. OutputInv'
  <2>1. \E x \in 0 .. PaddedRows' - 1, y \in 0 .. TileSide - 1 : Out(x, y)' = Junk
    BY <1>1, <1>13, SameShape
  <2> QED
    BY <1>1, <2>1 DEF OutputInv
<1> QED
  BY <1>3, <1>4, <1>14 DEF DataInv

\* The readback finds an element at its row and column.
LEMMA UntilizeAt ==
    ASSUME Shaped, NEW row \in 0 .. PaddedRows - 1, NEW col \in 0 .. TileSide - 1
    PROVE  Untilize(OutputBits, PaddedRows, TileSide)[row * TileSide + col] = Out(row, col)
<1> DEFINE e == row * TileSide + col
<1>1. PaddedRows \in Nat /\ TileSide \in Nat \ {0}
  BY Padded, Sides
<1>2. e \in 0 .. (PaddedRows * TileSide) - 1 /\ e \div TileSide = row /\ e % TileSide = col
  BY <1>1, Place
<1> HIDE DEF e
<1>3. Untilize(OutputBits, PaddedRows, TileSide)[e] = Out(row, col)
  BY <1>2 DEF Untilize, Elements, Out
<1> QED
  BY <1>3 DEF e

\* And the sum of a row in column zero.
LEMMA ColumnAt ==
    ASSUME Shaped, NEW r \in 0 .. Rows - 1
    PROVE  Column(Untilize(OutputBits, PaddedRows, TileSide), r) = Out(r, 0)
<1>1. r \in 0 .. PaddedRows - 1 /\ 0 \in 0 .. TileSide - 1 /\ r * TileSide + 0 = r * TileSide
  BY Padded, Sides DEF Shaped
<1>2. Untilize(OutputBits, PaddedRows, TileSide)[r * TileSide + 0] = Out(r, 0)
  BY <1>1, UntilizeAt
<1> QED
  BY <1>1, <1>2 DEF Column

\* The comparison of the host.
LEMMA ReadBackKeeps ==
    ASSUME DataInv, ReadBack
    PROVE  DataInv'
<1> DEFINE rowMajor == Untilize(OutputBits, PaddedRows, TileSide)
<1>1. /\ shape' = shape /\ corrupt' = corrupt /\ output' = output
      /\ phase = "read" /\ phase' = "compare"
      /\ actual' = [r \in 0 .. Rows - 1 |-> Column(rowMajor, r)]
      /\ padding_zero' = \A rc \in Coordinate(PaddedRows, TileSide) :
              IsPadding(rc[1], rc[2]) => rowMajor[rc[1] * TileSide + rc[2]] = Zero
  BY DEF ReadBack
<1>2. Shaped
  BY <1>1 DEF DataInv, ShapeInv
<1>3. ShapeInv'
  BY <1>1, <1>2, SameShape DEF DataInv, ShapeInv
<1>4. UploadInv'
  BY <1>1 DEF UploadInv
<1>5. OutputInv'
  BY <1>1, SameOutput DEF DataInv
<1>6. actual' = [r \in 0 .. Rows' - 1 |-> Out(r, 0)']
  <2>1. \A r \in 0 .. Rows - 1 : Column(rowMajor, r) = Out(r, 0)
    BY <1>2, ColumnAt
  <2> HIDE DEF rowMajor
  <2>2. \A r \in 0 .. Rows - 1 : Column(rowMajor, r) = Out(r, 0)'
    BY <1>1, <2>1, SameOut
  <2> QED
    BY <1>1, <2>2, SameShape
<1>7. padding_zero' \in BOOLEAN /\ (padding_zero' <=> PaddingIsZero')
  <2>1. \A row \in 0 .. PaddedRows - 1, col \in 0 .. TileSide - 1 :
            rowMajor[row * TileSide + col] = Out(row, col)
    BY <1>2, UntilizeAt
  <2> HIDE DEF rowMajor
  <2>2. (\A rc \in Coordinate(PaddedRows, TileSide) :
              IsPadding(rc[1], rc[2]) => rowMajor[rc[1] * TileSide + rc[2]] = Zero)
        <=> PaddingIsZero
    <3>1. ASSUME PaddingIsZero, NEW rc \in Coordinate(PaddedRows, TileSide), IsPadding(rc[1], rc[2])
          PROVE  rowMajor[rc[1] * TileSide + rc[2]] = Zero
      <4>1. rc[1] \in 0 .. PaddedRows - 1 /\ rc[2] \in 0 .. TileSide - 1
        BY DEF Coordinate
      <4> QED
        BY <2>1, <3>1, <4>1 DEF PaddingIsZero
    <3>2. ASSUME \A rc \in Coordinate(PaddedRows, TileSide) :
                     IsPadding(rc[1], rc[2]) => rowMajor[rc[1] * TileSide + rc[2]] = Zero,
                 NEW row \in 0 .. PaddedRows - 1, NEW col \in 0 .. TileSide - 1,
                 IsPadding(row, col)
          PROVE  Out(row, col) = Zero
      <4>1. <<row, col>> \in Coordinate(PaddedRows, TileSide)
        BY DEF Coordinate
      <4>2. IsPadding(<<row, col>>[1], <<row, col>>[2])
        BY <3>2
      <4>3. rowMajor[<<row, col>>[1] * TileSide + <<row, col>>[2]] = Zero
        BY <3>2, <4>1, <4>2
      <4> QED
        BY <2>1, <4>3
    <3> QED
      BY <3>1, <3>2 DEF PaddingIsZero
  <2>3. PaddingIsZero' <=> PaddingIsZero
    BY <1>1, SamePadding
  <2> QED
    BY <1>1, <2>2, <2>3
<1>8. ReadInv'
  BY <1>1, <1>6, <1>7 DEF ReadInv
<1> QED
  BY <1>3, <1>4, <1>5, <1>8 DEF DataInv

\* The decoder.
LEMMA DecodeKeeps ==
    ASSUME DataInv, Decode
    PROVE  DataInv'
<1> DEFINE rowMajor == Untilize(OutputBits, PaddedRows, TileSide)
           stray == \E rc \in Coordinate(PaddedRows, TileSide) :
                      /\ ~(rc[1] < Rows /\ rc[2] = 0)
                      /\ rowMajor[rc[1] * TileSide + rc[2]] # Zero
<1>1. /\ shape' = shape /\ corrupt' = corrupt /\ output' = output
      /\ actual' = actual /\ padding_zero' = padding_zero
      /\ phase = "compare" /\ phase' = "done"
      /\ decoded' = IF stray THEN Empty ELSE [r \in 0 .. Rows - 1 |-> Column(rowMajor, r)]
  BY DEF Decode
<1>2. Shaped
  BY <1>1 DEF DataInv, ShapeInv
<1>3. ShapeInv'
  BY <1>1, <1>2, SameShape DEF DataInv, ShapeInv
<1>4. UploadInv'
  BY <1>1 DEF UploadInv
<1>5. OutputInv'
  BY <1>1, SameOutput DEF DataInv
<1>6. /\ actual = [r \in 0 .. Rows - 1 |-> Out(r, 0)]
      /\ padding_zero \in BOOLEAN /\ (padding_zero <=> PaddingIsZero)
  BY <1>1 DEF DataInv, ReadInv, Read
<1>7. [r \in 0 .. Rows - 1 |-> Column(rowMajor, r)] = actual
  <2>1. \A r \in 0 .. Rows - 1 : Column(rowMajor, r) = Out(r, 0)
    BY <1>2, ColumnAt
  <2> HIDE DEF rowMajor
  <2> QED
    BY <1>6, <2>1
<1>8. stray <=> ~padding_zero
  <2>1. \A row \in 0 .. PaddedRows - 1, col \in 0 .. TileSide - 1 :
            rowMajor[row * TileSide + col] = Out(row, col)
    BY <1>2, UntilizeAt
  <2>2. \A row \in 0 .. PaddedRows - 1, col \in 0 .. TileSide - 1 :
            ~(row < Rows /\ col = 0) <=> IsPadding(row, col)
    <3>1. PaddedRows \in Nat /\ Rows \in Nat
      BY <1>2, Padded DEF Shaped
    <3> QED
      BY <3>1 DEF IsPadding
  <2> HIDE DEF rowMajor
  <2>3. stray <=> \E row \in 0 .. PaddedRows - 1, col \in 0 .. TileSide - 1 :
                      IsPadding(row, col) /\ Out(row, col) # Zero
    <3>1. ASSUME NEW rc \in Coordinate(PaddedRows, TileSide),
                 ~(rc[1] < Rows /\ rc[2] = 0), rowMajor[rc[1] * TileSide + rc[2]] # Zero
          PROVE  \E row \in 0 .. PaddedRows - 1, col \in 0 .. TileSide - 1 :
                     IsPadding(row, col) /\ Out(row, col) # Zero
      <4>1. rc[1] \in 0 .. PaddedRows - 1 /\ rc[2] \in 0 .. TileSide - 1
        BY DEF Coordinate
      <4> QED
        BY <2>1, <2>2, <3>1, <4>1
    <3>2. ASSUME NEW row \in 0 .. PaddedRows - 1, NEW col \in 0 .. TileSide - 1,
                 IsPadding(row, col), Out(row, col) # Zero
          PROVE  stray
      <4> DEFINE rc == <<row, col>>
      <4>1. rc \in Coordinate(PaddedRows, TileSide) /\ rc[1] = row /\ rc[2] = col
        BY DEF Coordinate
      <4> HIDE DEF rc
      <4> QED
        BY <2>1, <2>2, <3>2, <4>1
    <3> QED
      BY <3>1, <3>2
  <2> QED
    BY <1>6, <2>3 DEF PaddingIsZero
<1>9. decoded' = IF padding_zero THEN actual ELSE Empty
  <2> HIDE DEF rowMajor, stray
  <2> QED
    BY <1>1, <1>6, <1>7, <1>8
<1>10. actual' = [r \in 0 .. Rows' - 1 |-> Out(r, 0)']
  BY <1>1, <1>6, SameShape, SameOut
<1>11. padding_zero' \in BOOLEAN /\ (padding_zero' <=> PaddingIsZero')
  BY <1>1, <1>6, SamePadding
<1>12. ReadInv'
  BY <1>1, <1>9, <1>10, <1>11 DEF ReadInv
<1> QED
  BY <1>3, <1>4, <1>5, <1>12 DEF DataInv

\* A step of the judges leaves the path of the data alone.
LEMMA UnchangedKeeps ==
    ASSUME DataInv, phase' = phase, shape' = shape, padded' = padded, words' = words,
           output' = output, corrupt' = corrupt, actual' = actual,
           padding_zero' = padding_zero, decoded' = decoded
    PROVE  DataInv'
<1>1. ShapeInv'
  BY SameShape DEF DataInv, ShapeInv
<1>2. UploadInv'
  <2>1. \A row, col : Logical(row, col)' = Logical(row, col)
    BY SameShape DEF Logical
  <2>2. \A tiles : Uploaded(tiles)' <=> Uploaded(tiles)
    BY <2>1, SameShape DEF Uploaded
  <2> QED
    BY <2>1, <2>2, SameShape DEF DataInv, UploadInv, Uploaded
<1>3. OutputInv'
  <2>1. (\E row \in 0 .. PaddedRows - 1, col \in 0 .. TileSide - 1 : Out(row, col) = Junk)'
        <=> \E row \in 0 .. PaddedRows - 1, col \in 0 .. TileSide - 1 : Out(row, col) = Junk
    BY SameShape, SameOut
  <2>2. (\A row \in 0 .. PaddedRows - 1, col \in 0 .. TileSide - 1 :
             Out(row, col) = Expected(row, col))'
        <=> \A row \in 0 .. PaddedRows - 1, col \in 0 .. TileSide - 1 :
                Out(row, col) = Expected(row, col)
    BY SameShape, SameOut, SameExpected
  <2> QED
    BY <2>1, <2>2, SameShape DEF DataInv, OutputInv
<1>4. ReadInv'
  <2>1. [r \in 0 .. Rows - 1 |-> Out(r, 0)]' = [r \in 0 .. Rows - 1 |-> Out(r, 0)]
    BY SameShape, SameOut
  <2>2. PaddingIsZero' <=> PaddingIsZero
    BY SamePadding
  <2> QED
    BY <2>1, <2>2 DEF DataInv, ReadInv, Read, Empty
<1> QED
  BY <1>1, <1>2, <1>3, <1>4 DEF DataInv

-----------------------------------------------------------------------------
\* The input patterns

\* An element is at a row and a column, and there is one element at each.
LEMMA ElementAt ==
    ASSUME Shaped
    PROVE  /\ \A e \in Element : /\ e \div Cols \in 0 .. Rows - 1 /\ e % Cols \in 0 .. Cols - 1
                                 /\ e = (e \div Cols) * Cols + (e % Cols) /\ e \in Nat
           /\ \A row \in 0 .. Rows - 1, col \in 0 .. Cols - 1 :
                  /\ row * Cols + col \in Element
                  /\ (row * Cols + col) \div Cols = row /\ (row * Cols + col) % Cols = col
           /\ 0 \in Element
<1>1. Rows \in Nat \ {0} /\ Cols \in Nat \ {0}
  BY DEF Shaped
<1>2. Rows * Cols \in Nat \ {0}
  BY <1>1
<1>3. ASSUME NEW e \in Element
      PROVE  /\ e \div Cols \in 0 .. Rows - 1 /\ e % Cols \in 0 .. Cols - 1
             /\ e = (e \div Cols) * Cols + (e % Cols) /\ e \in Nat
  <2>1. e \in 0 .. (Rows * Cols) - 1
    BY DEF Element
  <2> QED
    <3>1. e \div Cols \in 0 .. Rows - 1
      BY <1>1, <2>1, Located
    <3>2. e % Cols \in 0 .. Cols - 1 /\ e = (e \div Cols) * Cols + (e % Cols)
      BY <1>1, <2>1, Located
    <3> QED
      BY <1>2, <2>1, <3>1, <3>2
<1>4. ASSUME NEW row \in 0 .. Rows - 1, NEW col \in 0 .. Cols - 1
      PROVE  /\ row * Cols + col \in Element
             /\ (row * Cols + col) \div Cols = row /\ (row * Cols + col) % Cols = col
  BY <1>1, Place DEF Element
<1>5. 0 \in Element
  BY <1>2 DEF Element
<1> QED
  BY <1>3, <1>4, <1>5

\* As many elements are before an element as its number says.
LEMMA CountBefore ==
    ASSUME Shaped, NEW e \in Element
    PROVE  Cardinality({k \in Element : k < e}) = e
<1>1. e \in Int /\ e >= 0 /\ {k \in Element : k < e} = 0 .. e - 1
  <2> DEFINE n == Rows * Cols
  <2>1. n \in Nat /\ Element = 0 .. n - 1
    BY DEF Shaped, Element
  <2> HIDE DEF n
  <2> QED
    BY <2>1
<1>2. Cardinality(0 .. e - 1) = e
  BY <1>1, FS_Interval
<1> QED
  BY <1>1, <1>2

\* The host and the runner make the same words.
LEMMA BytesAgree ==
    ASSUME Shaped, NEW p \in Pattern
    PROVE  expected_input_bytes(p) = make_input(p)
<1>1. ASSUME NEW e \in Element
      PROVE  ExpectedWord(p, e \div Cols, e % Cols, 2 * Cardinality({k \in Element : k < e}))
               = MadeWord(p, e \div Cols, e % Cols)
  <2> DEFINE row == e \div Cols
             col == e % Cols
             drawn == 2 * Cardinality({k \in Element : k < e})
  <2>1. /\ row \in 0 .. Rows - 1 /\ col \in 0 .. Cols - 1 /\ e = row * Cols + col
        /\ Rows \in Nat \ {0} /\ Cols \in Nat \ {0} /\ row \in Nat /\ col \in Nat
    BY ElementAt DEF Shaped
  <2>2. CASE p = "zero"
    BY <2>2 DEF ExpectedWord, MadeWord
  <2>3. CASE p = "one_hot"
    <3>1. ExpectedWord(p, row, col, drawn) = IF <<row, col>> = <<Rows - 1, Cols - 1>> THEN One ELSE Nil
      BY <2>3 DEF ExpectedWord
    <3>2. MadeWord(p, row, col) = IF row + 1 = Rows /\ col + 1 = Cols THEN One ELSE Nil
      BY <2>3 DEF MadeWord
    <3> HIDE DEF row, col
    <3>3. <<row, col>> = <<Rows - 1, Cols - 1>> <=> row + 1 = Rows /\ col + 1 = Cols
      BY <2>1
    <3>4. ExpectedWord(p, row, col, drawn) = MadeWord(p, row, col)
      BY <3>1, <3>2, <3>3
    <3> QED
      BY <3>4 DEF row, col
  <2>4. CASE p = "ones"
    BY <2>4 DEF ExpectedWord, MadeWord
  <2>5. CASE p = "cancellation"
    <3>1. ExpectedWord(p, row, col, drawn) =
            IF Cols % 2 = 1 /\ col = Cols - 1 THEN Nil ELSE <<One, MinusOne>>[1 + (col % 2)]
      BY <2>5 DEF ExpectedWord
    <3>2. MadeWord(p, row, col) =
            IF col + 1 = Cols /\ Cols % 2 # 0 THEN Nil
            ELSE IF col % 2 = 0 THEN One ELSE MinusOne
      BY <2>5 DEF MadeWord
    <3> HIDE DEF row, col
    <3>3. (Cols % 2 = 1 /\ col = Cols - 1) <=> (col + 1 = Cols /\ Cols % 2 # 0)
      BY <2>1
    <3>4. <<One, MinusOne>>[1 + (col % 2)] = IF col % 2 = 0 THEN One ELSE MinusOne
      <4>1. col % 2 \in {0, 1}
        BY <2>1
      <4>2. <<One, MinusOne>>[1] = One /\ <<One, MinusOne>>[2] = MinusOne
        OBVIOUS
      <4> QED
        BY <4>1, <4>2
    <3>5. ExpectedWord(p, row, col, drawn) = MadeWord(p, row, col)
      BY <3>1, <3>2, <3>3, <3>4
    <3> QED
      BY <3>5 DEF row, col
  <2>6. CASE p = "small_integers"
    <3>1. ExpectedWord(p, row, col, drawn) =
            IF \A bound \in {(row % Wave) + 1, Cols} : col < bound THEN One ELSE Nil
      BY <2>6 DEF ExpectedWord
    <3>2. MadeWord(p, row, col) =
            IF col < (IF (row % Wave) + 1 < Cols THEN (row % Wave) + 1 ELSE Cols) THEN One ELSE Nil
      BY <2>6 DEF MadeWord
    <3>3. row % Wave \in Nat
      BY <2>1, WaveAssumption, Euclid
    <3> HIDE DEF row, col
    <3> QED
      BY <2>1, <3>1, <3>2, <3>3
  <2>7. CASE p = "decimals"
    BY <2>7 DEF ExpectedWord, MadeWord
  <2>8. CASE p = "random"
    <3>1. ExpectedWord(p, row, col, drawn) = Random(2 * Cardinality({k \in Element : k < e}))
      BY <2>8 DEF ExpectedWord
    <3>2. MadeWord(p, row, col) = Random(2 * (row * Cols + col))
      BY <2>8 DEF MadeWord
    <3> HIDE DEF row, col
    <3> QED
      BY <2>1, <3>1, <3>2, CountBefore
  <2> QED
    BY <2>2, <2>3, <2>4, <2>5, <2>6, <2>7, <2>8 DEF Pattern
<1> QED
  BY <1>1 DEF expected_input_bytes, make_input

\* And the audit finds them right.
LEMMA PatternAccepted ==
    ASSUME Shaped, NEW p \in Pattern
    PROVE  check_pattern(p, make_input(p))
<1> SUFFICES ASSUME p # "random", NEW row \in 0 .. Rows - 1, NEW col \in 0 .. Cols - 1
             PROVE  make_input(p)[row * Cols + col] =
                      CASE p = "decimals" -> Decimal[1 + ((row + col) % 3)]
                        [] p = "ones" -> One
                        [] p = "one_hot" -> IF row = Rows - 1 /\ col = Cols - 1 THEN One ELSE Nil
                        [] p = "small_integers" ->
                             IF col <= row % Wave /\ col < Cols THEN One ELSE Nil
                        [] p = "cancellation" ->
                             IF Cols % 2 # 0 /\ col = Cols - 1 THEN Nil
                             ELSE IF col % 2 = 0 THEN One ELSE MinusOne
                        [] OTHER -> Nil
  BY DEF check_pattern
<1>1. /\ Rows \in Nat \ {0} /\ Cols \in Nat \ {0} /\ row \in Nat /\ col \in Nat
  BY DEF Shaped
<1>2. make_input(p)[row * Cols + col] = MadeWord(p, row, col)
  BY ElementAt DEF make_input
<1>3. row % Wave \in Nat
  BY <1>1, WaveAssumption, Euclid
<1>4. CASE p = "zero"
  BY <1>2, <1>4 DEF MadeWord
<1>5. CASE p = "one_hot"
  BY <1>1, <1>2, <1>5 DEF MadeWord
<1>6. CASE p = "ones"
  BY <1>2, <1>6 DEF MadeWord
<1>7. CASE p = "cancellation"
  BY <1>1, <1>2, <1>7 DEF MadeWord
<1>8. CASE p = "small_integers"
  BY <1>1, <1>2, <1>3, <1>8 DEF MadeWord
<1>9. CASE p = "decimals"
  BY <1>2, <1>9 DEF MadeWord
<1> QED
  BY <1>4, <1>5, <1>6, <1>7, <1>8, <1>9 DEF Pattern

\* A second launch has other words than the first.
LEMMA WordsDiffer ==
    ASSUME Shaped, NEW before, DOMAIN before = Element
    PROVE  \E e \in Element : make_input(Relabel(before))[e] # before[e]
<1>1. One # Nil
  BY DEF One, Nil
<1>2. \A e \in Element : /\ make_input("zero")[e] = Nil
                         /\ make_input("ones")[e] = One
  BY DEF make_input, MadeWord
<1>3. CASE \A e \in Element : before[e] = One
  <2>1. Relabel(before) = "zero"
    BY <1>3 DEF Relabel
  <2> QED
    BY <1>1, <1>2, <1>3, <2>1, ElementAt
<1>4. CASE ~ \A e \in Element : before[e] = One
  <2>1. Relabel(before) = "ones"
    BY <1>4 DEF Relabel
  <2> QED
    BY <1>2, <1>4, <2>1
<1> QED
  BY <1>3, <1>4

-----------------------------------------------------------------------------
\* The two other readers of the output tiles

\* decode_output_bits computes the host's place.
LEMMA PositionIsIndex ==
    ASSUME NEW row \in Nat, NEW col \in 0 .. TileSide - 1
    PROVE  Position(row, col) = Index(row, col, TileSide)
<1>1. Index(row, col, TileSide) = ((row \div TileSide) * TileElems) + Offset(row, col)
  BY ColumnIndex
<1> DEFINE t == (row \div TileSide) * TileElems
           f == (2 * FaceHalf(row)) + FaceHalf(col)
           a == f * FaceElems
           b == (row % FaceSide) * FaceSide
           c == col % FaceSide
<1>2. col \in Nat /\ FaceHalf(col) = col \div FaceSide
  BY Inside DEF FaceHalf
<1>3. Position(row, col) = t + a + b + c
  <2>1. FaceHalf(row) \in Int /\ FaceHalf(col) \in Int
    BY <1>2, Split
  <2>2. ((row % TileSide) \div FaceSide) * 2 + (col \div FaceSide) = f
    BY <1>2, <2>1 DEF FaceHalf
  <2> QED
    BY <2>2 DEF Position
<1>4. t \in Int /\ a \in Int /\ b \in Int /\ c \in Int
  <2>1. row \div TileSide \in Nat /\ FaceHalf(row) \in Nat /\ row % FaceSide \in Nat
    BY Split
  <2>2. FaceHalf(col) \in Nat /\ col % FaceSide \in Nat
    BY <1>2, Split
  <2>3. f \in Int
    BY <2>1, <2>2
  <2> HIDE DEF f
  <2> QED
    BY <2>1, <2>2, <2>3, Sides
<1>5. Offset(row, col) = a + b + c
  BY DEF Offset
<1> HIDE DEF a, b, c, t
<1> QED
  BY <1>1, <1>3, <1>4, <1>5 DEF t

\* output_matrix puts a word where the host has taken it from.
LEMMA CellAt ==
    ASSUME NEW row \in Nat, NEW col \in 0 .. TileSide - 1
    PROVE  Cell(Index(row, col, TileSide)) = <<row, col>>
<1> DEFINE n == Index(row, col, TileSide)
           E == FaceElems
           F == FaceSide
           t == row \div TileSide
           h == FaceHalf(row)
           g == FaceHalf(col)
           f == 2 * h + g
           o == Offset(row, col)
           w == o % E
<1>1. /\ E \in Nat \ {0} /\ F \in Nat \ {0} /\ TileElems = 4 * E /\ TileElems \in Nat \ {0}
      /\ E = F * F /\ TileSide \in Nat \ {0}
  BY Sides
<1>2. col \in Nat /\ col \div TileSide = 0
  BY Inside
<1>3. t \in Nat /\ h \in 0 .. 1 /\ row % F \in 0 .. F - 1
      /\ row = (TileSide * t) + (F * h) + (row % F)
  BY Split
<1>4. g \in 0 .. 1 /\ col % F \in 0 .. F - 1 /\ col = (F * g) + (col % F)
  <2>1. g \in 0 .. 1 /\ col % F \in 0 .. F - 1 /\ col % TileSide = (F * g) + (col % F)
    BY <1>2, Split
  <2> QED
    BY <2>1, Inside
<1>5. n = t * TileElems + o
  BY ColumnIndex
<1>6. /\ o \in 0 .. TileElems - 1 /\ o \div E = f /\ w \div F = row % F
      /\ o % F = col % F /\ w = ((row % F) * F) + (col % F)
  BY <1>2, OffsetParts
<1>7. w \in 0 .. E - 1 /\ o = E * f + w
  <2>1. o \in Nat
    BY <1>1, <1>6
  <2>2. o = E * (o \div E) + w /\ w \in 0 .. E - 1
    <3> HIDE DEF o, E
    <3> QED
      BY <1>1, <2>1, Euclid
  <2> QED
    BY <1>6, <2>2
<1> HIDE DEF n, E, F, t, h, g, o, w
<1>8. n \in Nat /\ n \div TileElems = t
  <2>1. n = TileElems * t + o /\ TileElems * t \in Nat
    BY <1>1, <1>3, <1>5
  <2>2. n \in Nat /\ TileElems \in Nat \ {0} /\ t \in Int /\ o \in 0 .. TileElems - 1
    BY <1>1, <1>3, <1>6, <2>1
  <2> QED
    BY <2>1, <2>2, Quotient
<1>9. f \in 0 .. 3
  BY <1>3, <1>4
<1> HIDE DEF f
<1>10. n \div E = 4 * t + f /\ n % E = w
  <2>1. n = E * (4 * t + f) + w
    <3>1. t * (4 * E) = E * (4 * t)
      BY <1>1, <1>3
    <3>2. E * (4 * t + f) = E * (4 * t) + E * f /\ E * (4 * t) \in Int /\ E * f \in Int
      BY <1>1, <1>3, <1>9
    <3> QED
      BY <1>1, <1>5, <1>7, <3>1, <3>2
  <2>2. 4 * t + f \in Int
    BY <1>3, <1>9
  <2> QED
    BY <1>1, <1>7, <1>8, <2>1, <2>2, Quotient
<1>11. (n \div E) % 4 = f
  BY <1>3, <1>9, <1>10
<1>12. n % F = col % F
  <2>1. n = F * (F * (4 * t + f) + (row % F)) + (col % F)
    <3> DEFINE a == row % F
               b == col % F
               m == 4 * t + f
    <3>1. m \in Int /\ a \in Int /\ b \in Int
      BY <1>3, <1>4, <1>9
    <3>2. n = E * m + w
      <4>1. n = E * (n \div E) + (n % E)
        BY <1>1, <1>8, Euclid
      <4> QED
        BY <1>10, <4>1
    <3>3. w = a * F + b
      BY <1>6
    <3> HIDE DEF a, b, m
    <3>4. (F * F) * m = F * (F * m) /\ a * F = F * a /\ F * (F * m + a) = F * (F * m) + F * a
      BY <1>1, <3>1
    <3>5. F * (F * m) \in Int /\ F * a \in Int
      BY <1>1, <3>1
    <3>6. n = F * (F * m + a) + b
      BY <1>1, <3>1, <3>2, <3>3, <3>4, <3>5
    <3> QED
      BY <3>6 DEF a, b, m
  <2>2. F * (4 * t + f) + (row % F) \in Int
    BY <1>1, <1>3, <1>9
  <2> QED
    BY <1>1, <1>4, <1>8, <2>1, <2>2, Quotient
<1>13. Corners[1 + f] = <<F * h, F * g>>
  <2>1. Corners[1] = <<0, 0>> /\ Corners[2] = <<0, F>> /\ Corners[3] = <<F, 0>> /\ Corners[4] = <<F, F>>
    BY DEF Corners, F
  <2>2. F * 0 = 0 /\ F * 1 = F
    BY <1>1
  <2>3. (h = 0 \/ h = 1) /\ (g = 0 \/ g = 1)
    BY <1>3, <1>4
  <2>4. CASE h = 0 /\ g = 0
    BY <2>1, <2>2, <2>4 DEF f
  <2>5. CASE h = 0 /\ g = 1
    BY <2>1, <2>2, <2>5 DEF f
  <2>6. CASE h = 1 /\ g = 0
    BY <2>1, <2>2, <2>6 DEF f
  <2>7. CASE h = 1 /\ g = 1
    BY <2>1, <2>2, <2>7 DEF f
  <2> QED
    BY <2>3, <2>4, <2>5, <2>6, <2>7
<1>14. (n % E) \div F = row % F
  BY <1>6, <1>10
<1>15. Cell(n) = <<(t * TileSide) + (F * h) + (row % F), (F * g) + (col % F)>>
  <2>1. Cell(n) = <<(n \div TileElems) * TileSide + Corners[1 + ((n \div E) % 4)][1] + ((n % E) \div F),
                    Corners[1 + ((n \div E) % 4)][2] + (n % F)>>
    BY DEF Cell, E, F
  <2>2. Corners[1 + f][1] = F * h /\ Corners[1 + f][2] = F * g
    BY <1>13
  <2> QED
    BY <1>8, <1>11, <1>12, <1>14, <2>1, <2>2
<1>16. t * TileSide = TileSide * t
  BY <1>1, <1>3
<1> QED
  BY <1>3, <1>4, <1>15, <1>16 DEF n

\* So the matrix of the audit holds what the host reads.
LEMMA MatrixAt ==
    ASSUME Shaped, NEW row \in 0 .. PaddedRows - 1, NEW col \in 0 .. TileSide - 1
    PROVE  output_matrix(OutputBits)[<<row, col>>] = Out(row, col)
<1> DEFINE N == Ht * TileElems
           at == CHOOSE n \in 0 .. N - 1 : Cell(n) = <<row, col>>
           e == Index(row, col, TileSide)
<1>1. /\ Ht \in Nat /\ PaddedRows = TileSide * Ht /\ PaddedRows * TileSide = N
      /\ TileSide \in Nat \ {0} /\ TileSide * 1 = TileSide /\ PaddedRows \in Nat
  BY Padded, Sides
<1>2. DOMAIN OutputBits = 0 .. N - 1
  BY DEF OutputBits, ResultBits
<1>3. e \in 0 .. N - 1
  <2>1. row \in 0 .. (TileSide * Ht) - 1 /\ col \in 0 .. (TileSide * 1) - 1 /\ Ht \in Nat
    BY <1>1
  <2>2. Index(row, col, TileSide * 1) \in Elements(TileSide * Ht, TileSide * 1)
    BY <2>1, IndexRange
  <2> QED
    BY <1>1, <2>2 DEF Elements
<1>4. row \in Nat /\ Cell(e) = <<row, col>>
  BY <1>1, CellAt
<1>5. \A n \in 0 .. N - 1 : Cell(n) = <<row, col>> => n = e
  <2> TAKE n \in 0 .. N - 1
  <2> HAVE Cell(n) = <<row, col>>
  <2>1. PICK r \in 0 .. (TileSide * Ht) - 1, c \in 0 .. TileSide - 1 : Index(r, c, TileSide) = n
    BY <1>1, IndexOnto
  <2>2. r \in Nat /\ Cell(n) = <<r, c>>
    BY <1>1, <2>1, CellAt
  <2>3. r = row /\ c = col
    BY <2>2
  <2> QED
    BY <2>1, <2>3
<1> HIDE DEF e, N
<1>6. at = e
  <2>1. at \in 0 .. N - 1 /\ Cell(at) = <<row, col>>
    BY <1>3, <1>4
  <2> HIDE DEF at
  <2> QED
    BY <1>5, <2>1
<1>7. output_matrix(OutputBits)[<<row, col>>] = OutputBits[at]
  <2>1. <<row, col>> \in Coordinate(PaddedRows, TileSide)
    BY DEF Coordinate
  <2> QED
    BY <1>2, <2>1 DEF output_matrix
<1> QED
  BY <1>6, <1>7 DEF Out, e

\* The words of a row, cut out, are the row.
LEMMA SliceIsRow ==
    ASSUME Shaped, NEW r \in 0 .. Rows - 1
    PROVE  Slice(r) = Reference(r)
<1>1. \A c \in 0 .. Cols - 1 : (r * Cols + c) \div Cols = r /\ (r * Cols + c) % Cols = c
  BY ElementAt
<1> QED
  BY <1>1 DEF Slice, Reference

-----------------------------------------------------------------------------
\* The invariant of the judges, and the theorems

Sound == RowsPass /\ padding_zero

PatternInv ==
    /\ pattern \in Pattern
    /\ iteration \in {0, 1}
    /\ phase \in {"validate", "rejected"} => iteration = 0
    /\ phase \notin {"validate", "rejected", "prepare"} => quantized = make_input(pattern)
    /\ iteration = 0 => previous = Empty
    /\ iteration = 1 => DOMAIN previous = Element /\ pattern = Relabel(previous)

JudgeInv ==
    /\ runner # "none" => phase = "done" /\ (runner = "pass" <=> Sound)
    /\ auditor # "none" => runner # "none" /\ (auditor = "pass" <=> Sound)

CheckInv == PatternInv /\ JudgeInv

PathInv == DataInv /\ CheckInv

\* A right device delivers, whatever the way of the data.
LEMMA Delivered ==
    ASSUME DataInv
    PROVE  RowsDelivered /\ FaultCaught /\ DecodersAgree
<1> SUFFICES ASSUME Read
             PROVE  /\ ~corrupt => RowsPass /\ padding_zero
                    /\ corrupt => ~(RowsPass /\ padding_zero)
                    /\ phase = "done" => decoded = IF padding_zero THEN actual ELSE Empty
  BY DEF RowsDelivered, FaultCaught, DecodersAgree, Read
<1>1. phase \in {"compare", "done"}
  BY DEF Read
<1>2. Shaped /\ Rows \in Nat /\ PaddedRows \in Nat /\ Rows <= PaddedRows
      /\ 0 \in 0 .. TileSide - 1
  <2>1. Shaped
    BY <1>1 DEF DataInv, ShapeInv
  <2> QED
    BY <2>1, Padded, Sides DEF Shaped
<1>3. /\ actual = [r \in 0 .. Rows - 1 |-> Out(r, 0)]
      /\ (padding_zero <=> PaddingIsZero)
      /\ phase = "done" => decoded = IF padding_zero THEN actual ELSE Empty
  BY DEF DataInv, ReadInv
<1>4. \A r \in 0 .. Rows - 1 : r \in 0 .. PaddedRows - 1 /\ actual[r] = Out(r, 0)
  BY <1>2, <1>3
<1>5. ASSUME ~corrupt
      PROVE  RowsPass /\ padding_zero
  <2>1. \A row \in 0 .. PaddedRows - 1, col \in 0 .. TileSide - 1 :
            Out(row, col) = Expected(row, col)
    BY <1>1, <1>5 DEF DataInv, OutputInv
  <2>2. RowsPass
    BY <1>2, <1>4, <2>1 DEF RowsPass, Expected
  <2>3. PaddingIsZero
    BY <1>2, <2>1 DEF PaddingIsZero, IsPadding, Expected
  <2> QED
    BY <1>3, <2>2, <2>3
<1>6. ASSUME corrupt, RowsPass, padding_zero
      PROVE  FALSE
  <2>1. PICK row \in 0 .. PaddedRows - 1, col \in 0 .. TileSide - 1 : Out(row, col) = Junk
    BY <1>1, <1>6 DEF DataInv, OutputInv
  <2>2. CASE IsPadding(row, col)
    <3>1. Out(row, col) = Zero
      BY <1>3, <1>6, <2>2 DEF PaddingIsZero
    <3> QED
      BY <2>1, <3>1, LabelsDiffer
  <2>3. CASE ~IsPadding(row, col)
    <3>1. row \in 0 .. Rows - 1 /\ col = 0 /\ row \in Nat
      BY <1>2, <2>3 DEF IsPadding
    <3>2. Out(row, col) = Reference(row)
      BY <1>4, <1>6, <3>1 DEF RowsPass
    <3> QED
      BY <1>2, <2>1, <3>1, <3>2, LabelsDiffer
  <2> QED
    BY <2>2, <2>3
<1> QED
  BY <1>3, <1>5, <1>6

\* All padding is zero for the runner and for the audit if it is for the host.
LEMMA PaddingShared ==
    ASSUME Shaped
    PROVE  /\ decode_output_bits(OutputBits) <=> PaddingIsZero
           /\ LET matrix == output_matrix(OutputBits) IN
              (\E rc \in DOMAIN matrix : (rc[1] >= Rows \/ rc[2] # 0) /\ matrix[rc] # Zero)
                <=> ~PaddingIsZero
<1>1. PaddedRows \in Nat /\ Rows \in Nat /\ Rows <= PaddedRows
  BY Padded DEF Shaped
<1>2. \A row \in 0 .. PaddedRows - 1, col \in 0 .. TileSide - 1 :
          /\ OutputBits[Position(row, col)] = Out(row, col)
          /\ ~(row < Rows /\ col = 0) <=> IsPadding(row, col)
          /\ (row >= Rows \/ col # 0) <=> IsPadding(row, col)
  <2> TAKE row \in 0 .. PaddedRows - 1, col \in 0 .. TileSide - 1
  <2>1. row \in Nat
    BY <1>1
  <2>2. Position(row, col) = Index(row, col, TileSide)
    BY <2>1, PositionIsIndex
  <2> QED
    BY <1>1, <2>1, <2>2 DEF Out, IsPadding
<1>3. decode_output_bits(OutputBits) <=> PaddingIsZero
  BY <1>2 DEF decode_output_bits, PaddingIsZero
<1> DEFINE matrix == output_matrix(OutputBits)
<1>4. DOMAIN matrix = Coordinate(PaddedRows, TileSide)
  BY DEF output_matrix
<1>5. \A row \in 0 .. PaddedRows - 1, col \in 0 .. TileSide - 1 :
          matrix[<<row, col>>] = Out(row, col)
  BY MatrixAt
<1> HIDE DEF matrix
<1>6. ASSUME NEW rc \in DOMAIN matrix, rc[1] >= Rows \/ rc[2] # 0, matrix[rc] # Zero
      PROVE  ~PaddingIsZero
  <2>1. /\ rc[1] \in 0 .. PaddedRows - 1 /\ rc[2] \in 0 .. TileSide - 1
        /\ rc = <<rc[1], rc[2]>>
    BY <1>4 DEF Coordinate
  <2>2. Out(rc[1], rc[2]) # Zero
    BY <1>5, <1>6, <2>1
  <2> QED
    BY <1>2, <1>6, <2>1, <2>2 DEF PaddingIsZero
<1>7. ASSUME ~PaddingIsZero
      PROVE  \E rc \in DOMAIN matrix : (rc[1] >= Rows \/ rc[2] # 0) /\ matrix[rc] # Zero
  <2>1. PICK row \in 0 .. PaddedRows - 1, col \in 0 .. TileSide - 1 :
            IsPadding(row, col) /\ Out(row, col) # Zero
    BY <1>7 DEF PaddingIsZero
  <2> DEFINE rc == <<row, col>>
  <2>2. rc \in DOMAIN matrix /\ rc[1] = row /\ rc[2] = col
    BY <1>4 DEF Coordinate
  <2>3. matrix[rc] # Zero
    BY <1>5, <2>1
  <2> HIDE DEF rc
  <2> QED
    BY <1>2, <2>1, <2>2, <2>3
<1> QED
  BY <1>3, <1>6, <1>7 DEF matrix

\* Of a record of a launch, the runner's verdict is the host's.
LEMMA RunnerAgrees ==
    ASSUME PathInv, RunnerValidates
    PROVE  runner' # "none" /\ (runner' = "pass" <=> Sound)
<1>1. phase = "done"
  BY DEF RunnerValidates
<1>2. Shaped /\ actual = [r \in 0 .. Rows - 1 |-> Out(r, 0)]
      /\ (padding_zero <=> PaddingIsZero) /\ padding_zero \in BOOLEAN
  BY <1>1 DEF PathInv, DataInv, ShapeInv, ReadInv, Read
<1>3. quantized = expected_input_bytes(pattern)
  <2>1. quantized = make_input(pattern) /\ pattern \in Pattern
    BY <1>1 DEF PathInv, CheckInv, PatternInv
  <2> QED
    BY <1>2, <2>1, BytesAgree
<1>4. \A r \in 0 .. Rows - 1 : OutputBits[Position(r, 0)] = actual[r]
  <2> TAKE r \in 0 .. Rows - 1
  <2>1. r \in Nat /\ 0 \in 0 .. TileSide - 1
    BY <1>2, Sides DEF Shaped
  <2>2. Position(r, 0) = Index(r, 0, TileSide)
    BY <2>1, PositionIsIndex
  <2> QED
    BY <1>2, <2>2 DEF Out
<1>5. decode_output_bits(OutputBits) <=> padding_zero
  BY <1>2, PaddingShared
<1>6. (\A r \in 0 .. Rows - 1 : actual[r] = Slice(r)) <=> RowsPass
  BY <1>2, SliceIsRow DEF RowsPass
<1>7. runner' = IF Sound THEN "pass" ELSE "numerical-fail"
  <2>1. runner' = IF decode_output_bits(OutputBits) /\ \A r \in 0 .. Rows - 1 : actual[r] = Slice(r)
                    THEN "pass" ELSE "numerical-fail"
    BY <1>3, <1>4 DEF RunnerValidates
  <2> QED
    BY <1>5, <1>6, <2>1 DEF Sound
<1> QED
  BY <1>7

\* And so is the audit's.
LEMMA AuditorAgrees ==
    ASSUME PathInv, AuditValidates
    PROVE  auditor' # "none" /\ (auditor' = "pass" <=> Sound)
<1>1. phase = "done"
  BY DEF AuditValidates
<1>2. Shaped /\ actual = [r \in 0 .. Rows - 1 |-> Out(r, 0)]
      /\ (padding_zero <=> PaddingIsZero) /\ padding_zero \in BOOLEAN
  BY <1>1 DEF PathInv, DataInv, ShapeInv, ReadInv, Read
<1>3. quantized = make_input(pattern) /\ pattern \in Pattern
  BY <1>1 DEF PathInv, CheckInv, PatternInv
<1>4. AuditPattern = pattern /\ check_pattern(AuditPattern, quantized)
  <2>1. AuditPattern = pattern
    BY DEF PathInv, CheckInv, PatternInv, AuditPattern
  <2> QED
    BY <1>2, <1>3, <2>1, PatternAccepted
<1> DEFINE matrix == output_matrix(OutputBits)
           stray == \E rc \in DOMAIN matrix : (rc[1] >= Rows \/ rc[2] # 0) /\ matrix[rc] # Zero
           right == \A r \in 0 .. Rows - 1 : matrix[<<r, 0>>] = actual[r] /\ actual[r] = Slice(r)
<1>5. stray <=> ~padding_zero
  BY <1>2, PaddingShared
<1>6. right <=> RowsPass
  <2>1. \A r \in 0 .. Rows - 1 : matrix[<<r, 0>>] = actual[r]
    <3> TAKE r \in 0 .. Rows - 1
    <3>1. r \in 0 .. PaddedRows - 1 /\ 0 \in 0 .. TileSide - 1
      BY <1>2, Padded, Sides DEF Shaped
    <3>2. matrix[<<r, 0>>] = Out(r, 0)
      BY <1>2, <3>1, MatrixAt
    <3> QED
      BY <1>2, <3>2
  <2> HIDE DEF matrix
  <2> QED
    BY <1>2, <2>1, SliceIsRow DEF RowsPass
<1>7. quantized # previous
  <2>1. DOMAIN quantized = Element /\ 0 \in Element
    BY <1>2, <1>3, ElementAt DEF make_input
  <2>2. CASE iteration = 0
    <3>1. DOMAIN previous = {}
      BY <2>2 DEF PathInv, CheckInv, PatternInv, Empty
    <3> QED
      BY <2>1, <3>1
  <2>3. CASE iteration = 1
    <3>1. DOMAIN previous = Element /\ pattern = Relabel(previous)
      BY <2>3 DEF PathInv, CheckInv, PatternInv
    <3>2. \E e \in Element : make_input(Relabel(previous))[e] # previous[e]
      BY <1>2, <3>1, WordsDiffer
    <3> QED
      BY <1>3, <3>1, <3>2
  <2> QED
    BY <2>2, <2>3 DEF PathInv, CheckInv, PatternInv
<1>8. auditor' = IF stray THEN "padding" ELSE IF right THEN "pass" ELSE "numerical"
  <2>1. auditor' =
          IF AuditPattern # pattern \/ ~check_pattern(AuditPattern, quantized) THEN "pattern"
          ELSE IF stray THEN "padding"
          ELSE IF right THEN IF quantized = previous THEN "unchanged" ELSE "pass"
          ELSE "numerical"
    BY DEF AuditValidates
  <2> HIDE DEF stray, right
  <2> QED
    BY <1>4, <1>7, <2>1
<1> HIDE DEF stray, right
<1>9. auditor' # "none" /\ (auditor' = "pass" <=> ~stray /\ right)
  BY <1>8
<1> QED
  BY <1>5, <1>6, <1>9 DEF Sound

\* What the patterns and the verdicts say stays with the shape and the words.
LEMMA SameInput ==
    ASSUME shape' = shape, lucky' = lucky
    PROVE  Element' = Element /\ \A p : make_input(p)' = make_input(p)
<1>1. Element' = Element
  BY SameShape DEF Element
<1>2. \A p, row, col : MadeWord(p, row, col)' = MadeWord(p, row, col)
  <2>1. \A first : Random(first)' = Random(first)
    BY DEF Random
  <2> QED
    BY <2>1, SameShape DEF MadeWord
<1> QED
  BY <1>1, <1>2, SameShape DEF make_input

\* So does the conclusion.
LEMMA SameSound ==
    ASSUME shape' = shape, actual' = actual, padding_zero' = padding_zero
    PROVE  Sound' <=> Sound
BY SameShape, SameReference DEF Sound, RowsPass

\* Nothing has been read or judged at the start.
LEMMA PathInit == ChecksInit => PathInv
<1> SUFFICES ASSUME ChecksInit PROVE PathInv
  OBVIOUS
<1>1. /\ phase = "validate" /\ corrupt = FALSE
      /\ shape \in (0 .. MaxDimension + 1) \X (0 .. MaxDimension + 1)
      /\ pattern \in Pattern /\ iteration = 0 /\ previous = Empty
      /\ runner = "none" /\ auditor = "none"
  BY DEF ChecksInit, Init
<1>2. ShapeInv
  BY <1>1 DEF ShapeInv
<1>3. UploadInv /\ OutputInv /\ ReadInv
  BY <1>1 DEF UploadInv, OutputInv, ReadInv, Read
<1>4. PatternInv /\ JudgeInv
  BY <1>1 DEF PatternInv, JudgeInv
<1> QED
  BY <1>2, <1>3, <1>4 DEF PathInv, DataInv, CheckInv

\* One case for the steps of the host, of the judges and for the second launch.
LEMMA PathStep == PathInv /\ [ChecksNext]_checkVars => PathInv'
<1> SUFFICES ASSUME PathInv, [ChecksNext]_checkVars PROVE PathInv'
  OBVIOUS
<1>1. DataInv /\ PatternInv /\ JudgeInv
  BY DEF PathInv, CheckInv
<1>2. CASE MakeInput
  <2>1. /\ Prepare /\ pattern' = pattern /\ lucky' = lucky /\ iteration' = iteration
        /\ previous' = previous /\ runner' = runner /\ auditor' = auditor
        /\ quantized' = make_input(pattern)
    BY <1>2 DEF MakeInput, Host, judges
  <2>2. shape' = shape /\ phase = "prepare" /\ phase' = "transfer"
    BY <2>1 DEF Prepare
  <2>3. DataInv'
    BY <1>1, <2>1, PrepareKeeps
  <2>4. make_input(pattern)' = make_input(pattern) /\ Element' = Element
    BY <2>1, <2>2, SameInput DEF make_input, MadeWord, Random
  <2>5. PatternInv'
    BY <1>1, <2>1, <2>2, <2>4 DEF PatternInv, Empty
  <2>6. JudgeInv'
    BY <1>1, <2>1, <2>2 DEF JudgeInv
  <2> QED
    BY <2>3, <2>5, <2>6 DEF PathInv, CheckInv
<1>3. CASE OtherStep
  <2>1. /\ pattern' = pattern /\ lucky' = lucky /\ iteration' = iteration
        /\ previous' = previous /\ runner' = runner /\ auditor' = auditor
        /\ quantized' = quantized
        /\ Validate \/ Upload \/ Launch \/ Corrupt \/ ReadBack \/ Decode
    BY <1>3 DEF OtherStep, Host, judges
  <2>2. DataInv'
    BY <1>1, <2>1, ValidateKeeps, UploadKeeps, LaunchKeeps, CorruptKeeps, ReadBackKeeps, DecodeKeeps
  <2>3. /\ shape' = shape /\ phase # "done"
        /\ \/ phase = "validate" /\ phase' \in {"rejected", "prepare"}
           \/ phase \notin {"validate", "rejected", "prepare"}
              /\ phase' \notin {"validate", "rejected"}
    <3>1. CASE Validate
      BY <3>1 DEF Validate
    <3>2. CASE Upload
      BY <3>2 DEF Upload
    <3>3. CASE Launch
      BY <3>3 DEF Launch
    <3>4. CASE Corrupt
      BY <3>4 DEF Corrupt
    <3>5. CASE ReadBack
      BY <3>5 DEF ReadBack
    <3>6. CASE Decode
      BY <3>6 DEF Decode
    <3> QED
      BY <2>1, <3>1, <3>2, <3>3, <3>4, <3>5, <3>6
  <2>4. make_input(pattern)' = make_input(pattern) /\ Element' = Element
    BY <2>1, <2>3, SameInput DEF make_input, MadeWord, Random
  <2>5. PatternInv'
    BY <1>1, <2>1, <2>3, <2>4 DEF PatternInv, Empty
  <2>6. JudgeInv'
    BY <1>1, <2>1, <2>3 DEF JudgeInv
  <2> QED
    BY <2>2, <2>5, <2>6 DEF PathInv, CheckInv
<1>4. CASE RunnerValidates \/ AuditValidates \/ UNCHANGED checkVars
  <2>1. /\ phase' = phase /\ shape' = shape /\ padded' = padded /\ words' = words
        /\ output' = output /\ corrupt' = corrupt /\ actual' = actual
        /\ padding_zero' = padding_zero /\ decoded' = decoded
        /\ pattern' = pattern /\ lucky' = lucky /\ iteration' = iteration
        /\ quantized' = quantized /\ previous' = previous
    BY <1>4 DEF RunnerValidates, AuditValidates, vars, checkVars, judges
  <2>2. DataInv'
    BY <1>1, <2>1, UnchangedKeeps
  <2>3. make_input(pattern)' = make_input(pattern) /\ Element' = Element
    BY <2>1, SameInput DEF make_input, MadeWord, Random
  <2>4. PatternInv'
    BY <1>1, <2>1, <2>3 DEF PatternInv, Empty
  <2>5. Sound' <=> Sound
    BY <2>1, SameSound
  <2>6. JudgeInv'
    <3>1. CASE RunnerValidates
      <4>1. runner' # "none" /\ (runner' = "pass" <=> Sound)
        BY <3>1, RunnerAgrees
      <4>2. phase' = "done" /\ auditor' = auditor /\ runner = "none"
        BY <2>1, <3>1 DEF RunnerValidates
      <4>3. auditor = "none"
        BY <1>1, <4>2 DEF JudgeInv
      <4> QED
        BY <2>5, <4>1, <4>2, <4>3 DEF JudgeInv
    <3>2. CASE AuditValidates
      <4>1. auditor' # "none" /\ (auditor' = "pass" <=> Sound)
        BY <3>2, AuditorAgrees
      <4>2. runner' = runner /\ runner # "none"
        BY <3>2 DEF AuditValidates
      <4> QED
        BY <1>1, <2>1, <2>5, <4>1, <4>2 DEF JudgeInv
    <3>3. CASE UNCHANGED checkVars
      <4>1. runner' = runner /\ auditor' = auditor
        BY <3>3 DEF checkVars, judges
      <4> QED
        BY <1>1, <2>1, <2>5, <4>1 DEF JudgeInv
    <3> QED
      BY <1>4, <3>1, <3>2, <3>3
  <2> QED
    BY <2>2, <2>4, <2>6 DEF PathInv, CheckInv
<1>5. CASE Relaunch
  <2>1. /\ auditor # "none" /\ iteration = 0 /\ iteration' = 1 /\ phase' = "prepare"
        /\ previous' = quantized /\ pattern' = Relabel(quantized)
        /\ runner' = "none" /\ auditor' = "none" /\ corrupt' = FALSE
        /\ shape' = shape /\ lucky' = lucky
    BY <1>5 DEF Relaunch
  <2>2. phase = "done"
    BY <1>1, <2>1 DEF JudgeInv
  <2>3. ShapeInv'
    BY <1>1, <2>1, <2>2, SameShape DEF DataInv, ShapeInv
  <2>4. UploadInv' /\ OutputInv' /\ ReadInv'
    BY <2>1 DEF UploadInv, OutputInv, ReadInv, Read
  <2>5. PatternInv'
    <3>1. DOMAIN quantized = Element
      BY <1>1, <2>2 DEF PatternInv, make_input
    <3>2. Element' = Element
      BY <2>1, SameInput
    <3>3. Relabel(quantized) \in {"zero", "ones"}
      BY DEF Relabel
    <3> QED
      BY <2>1, <3>1, <3>2, <3>3 DEF PatternInv, Pattern
  <2>6. JudgeInv'
    BY <2>1 DEF JudgeInv
  <2> QED
    BY <2>3, <2>4, <2>5, <2>6 DEF PathInv, DataInv, CheckInv
<1>6. CASE Concluded
  BY <1>4, <1>6 DEF Concluded
<1> QED
  BY <1>2, <1>3, <1>4, <1>5, <1>6 DEF ChecksNext

\* The inductive invariant of the data path and of its three judges.
THEOREM PathInvariance == ChecksSpec => []PathInv
BY PathInit, PathStep, PTL DEF ChecksSpec

\* For every side of the faces and every shape: the layouts of the host, the
\* device and the readback fit together, so a device that reduces its tiles
\* delivers every row, each element once, and zero padding.
THEOREM EveryRowDelivered == ChecksSpec => []RowsDelivered
<1>1. PathInv => RowsDelivered
  BY Delivered DEF PathInv
<1> QED
  BY <1>1, PathInvariance, PTL

\* One wrong element in the output tiles never passes, wherever it is.
THEOREM EveryFaultCaught == ChecksSpec => []FaultCaught
<1>1. PathInv => FaultCaught
  BY Delivered DEF PathInv
<1> QED
  BY <1>1, PathInvariance, PTL

\* The untilizer and the decoder never disagree.
THEOREM DecodersAlike == ChecksSpec => []DecodersAgree
<1>1. PathInv => DecodersAgree
  BY Delivered DEF PathInv
<1> QED
  BY <1>1, PathInvariance, PTL

\* The host, the runner and the audit come to one conclusion of every launch.
THEOREM VerdictsAlike == ChecksSpec => []VerdictsAgree
<1>1. PathInv => VerdictsAgree
  BY DEF PathInv, CheckInv, JudgeInv, VerdictsAgree, Sound
<1> QED
  BY <1>1, PathInvariance, PTL

\* The words of the second launch are not those of the first.
THEOREM SecondLaunchDiffers == ChecksSpec => []RelaunchDiffers
<1>1. PathInv => RelaunchDiffers
  <2> SUFFICES ASSUME PathInv, iteration = 1, phase \notin {"validate", "prepare"}
               PROVE  \E e \in Element : quantized[e] # previous[e]
    BY DEF RelaunchDiffers
  <2>1. phase \notin {"validate", "rejected", "prepare"}
    BY DEF PathInv, CheckInv, PatternInv
  <2>2. Shaped
    BY <2>1 DEF PathInv, DataInv, ShapeInv
  <2>3. /\ quantized = make_input(pattern) /\ pattern = Relabel(previous)
        /\ DOMAIN previous = Element
    BY <2>1 DEF PathInv, CheckInv, PatternInv
  <2> QED
    BY <2>2, <2>3, WordsDiffer
<1> QED
  BY <1>1, PathInvariance, PTL

=============================================================================
