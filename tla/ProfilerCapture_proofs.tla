----------------------- MODULE ProfilerCapture_proofs -----------------------
(***************************************************************************)
(* What a capture that passes is worth, for every file that the profiler   *)
(* may write, any keys and any zones asked for.                            *)
(*                                                                         *)
(* The height of a key after some rows is how many of its zones are open.  *)
(* An end closes the last begin that raised the height to where it is,     *)
(* and since then the height has not been lower: that begin is on top of   *)
(* the stack.                                                              *)
(***************************************************************************)
EXTENDS ProfilerCapture, FiniteSetTheorems, TLAPS

-----------------------------------------------------------------------------
\* The inductive invariant

Height(s, m) == Counted(s, "ZONE_START", 1, m) - Counted(s, "ZONE_END", 1, m)

Is(k, s, type) == Copied[k].site = s /\ Copied[k].type = type

\* The begin that raised the height of a key to k, for good until row n.
Raised(s, i, k, n) ==
    /\ i \in 1 .. n
    /\ Is(i, s, "ZONE_START")
    /\ Height(s, i) = k
    /\ \A m \in i .. n : Height(s, m) >= k

EndsUntil(n) == {j \in Ends : j <= n}

File == [by : {"nobody", "this"}, header : {"none", "pinned", "other"},
         rows : Seq(Row), broken : BOOLEAN]

Time == {row.time : row \in Row}
Interval == [site : Site, begin : Time, end : Time]

CaptureTypes ==
    /\ csv.by # "earlier" => csv \in File
    /\ output \in File
    /\ pc \in {"start", "run", "copy", "parse", "pair", "stopped"}
    /\ paired \in 0 .. Len(output.rows)
    /\ opened \in [Site -> Seq(Time)]
    /\ counts \in [expected -> Nat]
    /\ intervals \in Seq(Interval)
    /\ status \in {"none", "pass", "fail"}

\* A file that is there when the script starts ends it; what is copied is there
\* because this run wrote it.
NewInv ==
    /\ csv.by = "earlier" => pc \in {"start", "stopped"} /\ output = NoRows
    /\ csv.by = "nobody" => csv = NoRows
    /\ pc \in {"start", "run", "copy"} => output = NoRows
    /\ output.by = "nobody" => output = NoRows
    /\ status # "none" => pc = "stopped"

\* The stack of a key is what is open of it.
SiteStack(s, n, stack) ==
    /\ \A m \in 0 .. n : Height(s, m) >= 0
    /\ Len(stack) = Height(s, n)
    /\ \A k \in 1 .. Len(stack) : \E i \in 1 .. n : Raised(s, i, k, n) /\ stack[k] = Copied[i].time

StackInv ==
    \A s \in Site :
        IF s[1] \in expected THEN SiteStack(s, paired, opened[s]) ELSE opened[s] = << >>

\* What the rows that have been read say, and what was reported of them.
Reported(n, number, zones) ==
    /\ \A k \in 1 .. n : Copied[k].site[1] \in expected => Copied[k].type \in Phases
    /\ \A j \in EndsUntil(n) : \E i \in BeginsOf(j) : Copied[i].time <= Copied[j].time
    /\ \A z \in expected : number[z] > 0 <=> \E j \in EndsUntil(n) : Copied[j].site[1] = z
    /\ Len(zones) = Cardinality(EndsUntil(n))
    /\ \A j \in EndsUntil(n) : \A i \in BeginsOf(j) :
         zones[Cardinality(EndsUntil(j))]
             = [site |-> Copied[j].site, begin |-> Copied[i].time, end |-> Copied[j].time]

ReportInv == Reported(paired, counts, intervals)

\* The rows of the copy are whole and paired, as PassMeansPaired has it.
WellPaired ==
    /\ ~Unreadable(output)
    /\ \A k \in DOMAIN Copied : Copied[k].site[1] \in expected => Copied[k].type \in Phases
    /\ \A s \in Site : s[1] \in expected => Balanced(s, 1, Len(Copied))
    /\ \A j \in Ends : \E i \in BeginsOf(j) : Copied[i].time <= Copied[j].time
    /\ \A z \in expected : \E j \in Ends : Copied[j].site[1] = z

PairInv ==
    /\ pc \in {"start", "run", "copy", "parse"} =>
         /\ paired = 0 /\ opened = [s \in Site |-> << >>]
         /\ counts = [z \in expected |-> 0] /\ intervals = << >>
    /\ pc = "pair" => ~Unreadable(output) /\ StackInv /\ ReportInv

VerdictInv ==
    /\ status # "none" => (status = "pass" <=> WellPaired)
    /\ IntervalsAreZones

CaptureInv == CaptureTypes /\ NewInv /\ PairInv /\ VerdictInv

-----------------------------------------------------------------------------
\* Heights

\* Rows of a kind are counted one after the other.
LEMMA CountedStep ==
    ASSUME NEW s, NEW type, NEW i \in Nat \ {0}, NEW m \in Nat, i <= m + 1
    PROVE  /\ Counted(s, type, i, m) \in Nat
           /\ Counted(s, type, i, i - 1) = 0
           /\ Counted(s, type, i, m + 1) =
                IF Is(m + 1, s, type) THEN Counted(s, type, i, m) + 1 ELSE Counted(s, type, i, m)
<1> DEFINE S(n) == {k \in i .. n : Copied[k].site = s /\ Copied[k].type = type}
<1>1. IsFiniteSet(S(m)) /\ Cardinality(S(m)) \in Nat
  <2>1. IsFiniteSet(i .. m) /\ S(m) \subseteq i .. m
    BY FS_Interval
  <2> QED
    BY <2>1, FS_Subset, FS_CardinalityType
<1>2. Cardinality(S(i - 1)) = 0
  <2>1. S(i - 1) = {}
    OBVIOUS
  <2> QED
    BY <2>1, FS_EmptySet
<1>3. CASE Is(m + 1, s, type)
  <2>1. S(m + 1) = S(m) \cup {m + 1} /\ m + 1 \notin S(m)
    BY <1>3 DEF Is
  <2> HIDE DEF S
  <2>2. Cardinality(S(m + 1)) = Cardinality(S(m)) + 1
    BY <1>1, <2>1, FS_AddElement
  <2> QED
    BY <1>1, <1>2, <1>3, <2>2 DEF Counted, S
<1>4. CASE ~Is(m + 1, s, type)
  <2>1. S(m + 1) = S(m)
    BY <1>4 DEF Is
  <2> QED
    BY <1>1, <1>2, <1>4, <2>1 DEF Counted
<1> QED
  BY <1>3, <1>4

\* The rows of an interval are those up to its end without those before it.
LEMMA CountedBetween ==
    ASSUME NEW s, NEW type, NEW i \in Nat \ {0}, NEW j \in Nat, i <= j + 1
    PROVE  /\ Counted(s, type, i, j) \in Nat
           /\ Counted(s, type, 1, j) = Counted(s, type, 1, i - 1) + Counted(s, type, i, j)
<1> DEFINE S(a, b) == {k \in a .. b : Copied[k].site = s /\ Copied[k].type = type}
<1>1. ASSUME NEW a \in Int, NEW b \in Int
      PROVE  IsFiniteSet(S(a, b)) /\ Cardinality(S(a, b)) \in Nat
  <2>1. IsFiniteSet(a .. b) /\ S(a, b) \subseteq a .. b
    BY FS_Interval
  <2> QED
    BY <2>1, FS_Subset, FS_CardinalityType
<1>2. S(1, j) = S(1, i - 1) \cup S(i, j) /\ S(1, i - 1) \cap S(i, j) = {}
  OBVIOUS
<1>3. Cardinality({}) = 0
  BY FS_EmptySet
<1>4. /\ IsFiniteSet(S(1, i - 1)) /\ Cardinality(S(1, i - 1)) \in Nat
      /\ IsFiniteSet(S(i, j)) /\ Cardinality(S(i, j)) \in Nat
  <2>1. i - 1 \in Int /\ 1 \in Int /\ i \in Int /\ j \in Int
    OBVIOUS
  <2> HIDE DEF S
  <2> QED
    BY <1>1, <2>1
<1> HIDE DEF S
<1>5. Cardinality(S(1, j)) = Cardinality(S(1, i - 1)) + Cardinality(S(i, j)) - Cardinality({})
  BY <1>2, <1>4, FS_Union
<1> QED
  BY <1>3, <1>4, <1>5 DEF S, Counted

\* A begin raises the height of its key, an end lowers it.
LEMMA HeightStep ==
    ASSUME NEW s, NEW m \in Nat
    PROVE  /\ Height(s, m) \in Int
           /\ Height(s, 0) = 0
           /\ Height(s, m + 1) =
                IF Is(m + 1, s, "ZONE_START") THEN Height(s, m) + 1
                ELSE IF Is(m + 1, s, "ZONE_END") THEN Height(s, m) - 1
                ELSE Height(s, m)
<1>1. ASSUME NEW type
      PROVE  /\ Counted(s, type, 1, m) \in Nat /\ Counted(s, type, 1, 0) = 0
             /\ Counted(s, type, 1, m + 1) =
                  IF Is(m + 1, s, type) THEN Counted(s, type, 1, m) + 1 ELSE Counted(s, type, 1, m)
  <2>1. 1 \in Nat \ {0} /\ 1 <= m + 1 /\ 1 - 1 = 0
    OBVIOUS
  <2>2. /\ Counted(s, type, 1, m) \in Nat /\ Counted(s, type, 1, 1 - 1) = 0
        /\ Counted(s, type, 1, m + 1) =
             IF Is(m + 1, s, type) THEN Counted(s, type, 1, m) + 1 ELSE Counted(s, type, 1, m)
    BY <2>1, CountedStep, Zenon
  <2> QED
    BY <2>1, <2>2
<1>2. ~(Is(m + 1, s, "ZONE_START") /\ Is(m + 1, s, "ZONE_END"))
  BY DEF Is
<1> QED
  BY <1>1, <1>2 DEF Height

\* As many zones begin in some rows as end in them: the height is the same.
LEMMA BalancedHeights ==
    ASSUME NEW s, NEW i \in Nat \ {0}, NEW j \in Nat, i <= j + 1
    PROVE  Balanced(s, i, j) <=> Height(s, i - 1) = Height(s, j)
<1>1. ASSUME NEW type
      PROVE  /\ Counted(s, type, i, j) \in Nat /\ Counted(s, type, 1, i - 1) \in Nat
             /\ Counted(s, type, 1, j) = Counted(s, type, 1, i - 1) + Counted(s, type, i, j)
  <2>1. Counted(s, type, 1, i - 1) \in Nat
    <3>1. i - 1 \in Nat /\ 1 \in Nat \ {0} /\ 1 <= (i - 1) + 1
      OBVIOUS
    <3> QED
      BY <3>1, CountedBetween
  <2> QED
    BY <2>1, CountedBetween
<1> QED
  BY <1>1 DEF Balanced, Height

\* The begins of an end, by heights.
LEMMA BeginsByHeight ==
    ASSUME NEW j \in Nat, NEW i
    PROVE  i \in BeginsOf(j) <=>
             /\ i \in 1 .. j - 1
             /\ Is(i, Copied[j].site, "ZONE_START")
             /\ Height(Copied[j].site, i - 1) = Height(Copied[j].site, j)
             /\ \A k \in i + 1 .. j - 1 :
                  Height(Copied[j].site, k - 1) = Height(Copied[j].site, j) =>
                    Copied[k].site # Copied[j].site \/ Copied[k].type = "ZONE_END"
<1> DEFINE s == Copied[j].site
<1>1. \A k \in 1 .. j - 1 : Balanced(s, k, j) <=> Height(s, k - 1) = Height(s, j)
  <2> HIDE DEF s
  <2> QED
    BY BalancedHeights
<1> HIDE DEF s
<1>2. i \in BeginsOf(j) <=>
        /\ i \in 1 .. j - 1 /\ Is(i, s, "ZONE_START") /\ Balanced(s, i, j)
        /\ \A k \in i + 1 .. j - 1 :
             Balanced(s, k, j) => Copied[k].site # s \/ Copied[k].type = "ZONE_END"
  BY DEF BeginsOf, Is, s
<1>3. i \in 1 .. j - 1 => i + 1 .. j - 1 \subseteq 1 .. j - 1
  OBVIOUS
<1> QED
  BY <1>1, <1>2, <1>3 DEF s

\* An end closes the begin on top of the stack, and no other one.
LEMMA TopIsBegin ==
    ASSUME NEW n \in Nat, NEW i, NEW s, Is(n + 1, s, "ZONE_END"),
           Raised(s, i, Height(s, n), n)
    PROVE  BeginsOf(n + 1) = {i}
<1> DEFINE j == n + 1
           h == Height(s, n)
<1>1. j \in Nat /\ j - 1 = n /\ s = Copied[j].site /\ h \in Int
  BY HeightStep DEF Is
<1>2. Height(s, j) = h - 1
  <2>1. ~Is(n + 1, s, "ZONE_START")
    BY DEF Is
  <2> QED
    BY <2>1, HeightStep
<1>3. i \in 1 .. n /\ Is(i, s, "ZONE_START") /\ Height(s, i) = h
      /\ \A m \in i .. n : Height(s, m) >= h
  BY DEF Raised
<1>4. Height(s, i - 1) = h - 1
  <2>1. i - 1 \in Nat /\ (i - 1) + 1 = i
    BY <1>3
  <2>2. Height(s, (i - 1) + 1) = Height(s, i - 1) + 1 /\ Height(s, i - 1) \in Int
    BY <1>3, <2>1, HeightStep
  <2> HIDE DEF h
  <2> QED
    BY <1>1, <1>3, <2>1, <2>2
<1> HIDE DEF h, j
<1>5. i \in BeginsOf(j)
  <2>1. \A k \in i + 1 .. n : Height(s, k - 1) # h - 1
    <3> TAKE k \in i + 1 .. n
    <3>1. k - 1 \in i .. n
      BY <1>3
    <3> QED
      BY <1>1, <1>3, <3>1
  <2> QED
    BY <1>1, <1>2, <1>3, <1>4, <2>1, BeginsByHeight
<1>6. ASSUME NEW b \in BeginsOf(j) PROVE b = i
  <2>1. /\ b \in 1 .. n /\ Is(b, s, "ZONE_START") /\ Height(s, b - 1) = h - 1
        /\ \A k \in b + 1 .. n : Height(s, k - 1) = h - 1 =>
             Copied[k].site # s \/ Copied[k].type = "ZONE_END"
    BY <1>1, <1>2, BeginsByHeight
  <2>2. ~(b < i)
    <3> SUFFICES ASSUME b < i PROVE FALSE
      OBVIOUS
    <3>1. i \in b + 1 .. n
      BY <1>3, <2>1
    <3> QED
      BY <1>3, <1>4, <2>1, <3>1 DEF Is
  <2>3. ~(i < b)
    <3> SUFFICES ASSUME i < b PROVE FALSE
      OBVIOUS
    <3>1. b - 1 \in i .. n
      BY <1>3, <2>1
    <3> QED
      BY <1>1, <1>3, <2>1, <3>1
  <2> QED
    BY <1>3, <2>1, <2>2, <2>3
<1> QED
  BY <1>5, <1>6 DEF j

\* An end that nothing has begun has no begin.
LEMMA NothingBegun ==
    ASSUME NEW n \in Nat, NEW s, Is(n + 1, s, "ZONE_END"),
           Height(s, n) = 0, \A m \in 0 .. n : Height(s, m) >= 0
    PROVE  BeginsOf(n + 1) = {}
<1> SUFFICES ASSUME NEW b \in BeginsOf(n + 1) PROVE FALSE
  OBVIOUS
<1>1. s = Copied[n + 1].site /\ ~Is(n + 1, s, "ZONE_START")
  BY DEF Is
<1>2. Height(s, n + 1) = -1
  BY <1>1, HeightStep
<1>3. b \in 1 .. n /\ Height(s, b - 1) = Height(s, n + 1)
  <2>1. n + 1 \in Nat /\ (n + 1) - 1 = n
    OBVIOUS
  <2> QED
    BY <1>1, <2>1, BeginsByHeight
<1>4. b - 1 \in 0 .. n
  BY <1>3
<1> QED
  BY <1>2, <1>3, <1>4

\* An end is one more.
LEMMA EndsStep ==
    ASSUME NEW n \in Nat, n + 1 \in DOMAIN Copied, DOMAIN Copied \subseteq Nat
    PROVE  /\ IsFiniteSet(EndsUntil(n)) /\ Cardinality(EndsUntil(n)) \in Nat
           /\ n + 1 \notin EndsUntil(n)
           /\ EndsUntil(n + 1) = IF n + 1 \in Ends THEN EndsUntil(n) \cup {n + 1} ELSE EndsUntil(n)
           /\ Cardinality(EndsUntil(n + 1)) =
                IF n + 1 \in Ends THEN Cardinality(EndsUntil(n)) + 1 ELSE Cardinality(EndsUntil(n))
<1>1. IsFiniteSet(EndsUntil(n)) /\ Cardinality(EndsUntil(n)) \in Nat
  <2>1. IsFiniteSet(0 .. n) /\ EndsUntil(n) \subseteq 0 .. n
    BY FS_Interval DEF EndsUntil, Ends
  <2> QED
    BY <2>1, FS_Subset, FS_CardinalityType
<1>2. n + 1 \notin EndsUntil(n)
  BY DEF EndsUntil
<1>3. EndsUntil(n + 1) = IF n + 1 \in Ends THEN EndsUntil(n) \cup {n + 1} ELSE EndsUntil(n)
  <2>1. \A j \in Ends : j <= n + 1 <=> j <= n \/ j = n + 1
    BY DEF Ends
  <2>2. EndsUntil(n + 1) = EndsUntil(n) \cup {j \in Ends : j = n + 1}
    BY <2>1 DEF EndsUntil
  <2> QED
    BY <2>2
<1>4. n + 1 \in Ends => Cardinality(EndsUntil(n + 1)) = Cardinality(EndsUntil(n)) + 1
  BY <1>1, <1>2, <1>3, FS_AddElement
<1> QED
  BY <1>1, <1>2, <1>3, <1>4

-----------------------------------------------------------------------------
\* One row more

\* A begin stays on the stack as long as the height does not fall below it.
LEMMA RaisedKept ==
    ASSUME NEW s, NEW n \in Nat, NEW i, NEW k \in Int, Raised(s, i, k, n), Height(s, n + 1) >= k
    PROVE  Raised(s, i, k, n + 1)
<1>1. i \in 1 .. n /\ i .. n + 1 = (i .. n) \cup {n + 1} /\ i \in 1 .. n + 1
  BY DEF Raised
<1> QED
  BY <1>1 DEF Raised

\* The rows of other keys, and other phases, leave a stack alone.
LEMMA StackOfOthers ==
    ASSUME NEW s, NEW n \in Nat, NEW stack, SiteStack(s, n, stack), Len(stack) \in Nat,
           ~Is(n + 1, s, "ZONE_START"), ~Is(n + 1, s, "ZONE_END")
    PROVE  SiteStack(s, n + 1, stack)
<1>1. Height(s, n + 1) = Height(s, n) /\ Height(s, n) \in Int
  BY HeightStep
<1>2. \A m \in 0 .. n + 1 : Height(s, m) >= 0
  <2>1. \A m \in 0 .. n : Height(s, m) >= 0
    BY DEF SiteStack
  <2>2. n \in 0 .. n /\ 0 .. n + 1 = (0 .. n) \cup {n + 1}
    OBVIOUS
  <2> QED
    BY <1>1, <2>1, <2>2
<1>3. ASSUME NEW k \in 1 .. Len(stack)
      PROVE  \E i \in 1 .. n + 1 : Raised(s, i, k, n + 1) /\ stack[k] = Copied[i].time
  <2>1. PICK i \in 1 .. n : Raised(s, i, k, n) /\ stack[k] = Copied[i].time
    BY DEF SiteStack
  <2>2. Height(s, n + 1) >= k
    BY <1>1 DEF SiteStack
  <2>3. i \in 1 .. n + 1
    OBVIOUS
  <2> QED
    BY <2>1, <2>2, <2>3, RaisedKept
<1> QED
  BY <1>1, <1>2, <1>3 DEF SiteStack

\* A begin is pushed.
LEMMA StackBegun ==
    ASSUME NEW s, NEW n \in Nat, NEW T, NEW stack \in Seq(T), SiteStack(s, n, stack),
           Is(n + 1, s, "ZONE_START"), NEW time \in T, time = Copied[n + 1].time
    PROVE  SiteStack(s, n + 1, Append(stack, time))
<1> DEFINE more == Append(stack, time)
<1>1. Height(s, n + 1) = Height(s, n) + 1 /\ Height(s, n) \in Int
  BY HeightStep
<1>2. /\ Len(more) = Len(stack) + 1 /\ Len(stack) \in Nat
      /\ \A k \in 1 .. Len(stack) : more[k] = stack[k]
      /\ more[Len(stack) + 1] = time
  OBVIOUS
<1> HIDE DEF more
<1>3. \A m \in 0 .. n + 1 : Height(s, m) >= 0
  <2>1. \A m \in 0 .. n : Height(s, m) >= 0
    BY DEF SiteStack
  <2>2. n \in 0 .. n /\ 0 .. n + 1 = (0 .. n) \cup {n + 1}
    OBVIOUS
  <2> QED
    BY <1>1, <2>1, <2>2
<1>4. ASSUME NEW k \in 1 .. Len(more)
      PROVE  \E i \in 1 .. n + 1 : Raised(s, i, k, n + 1) /\ more[k] = Copied[i].time
  <2>1. CASE k \in 1 .. Len(stack)
    <3>1. PICK i \in 1 .. n : Raised(s, i, k, n) /\ stack[k] = Copied[i].time
      BY <2>1 DEF SiteStack
    <3>2. Height(s, n + 1) >= k
      BY <1>1, <2>1 DEF SiteStack
    <3>3. i \in 1 .. n + 1
      OBVIOUS
    <3> QED
      BY <1>2, <2>1, <3>1, <3>2, <3>3, RaisedKept
  <2>2. CASE k = Len(stack) + 1
    <3>1. Height(s, n + 1) = k
      BY <1>1, <1>2, <2>2 DEF SiteStack
    <3>2. n + 1 \in 1 .. n + 1 /\ \A m \in n + 1 .. n + 1 : m = n + 1
      OBVIOUS
    <3>3. Raised(s, n + 1, k, n + 1)
      BY <2>2, <3>1, <3>2 DEF Raised
    <3> QED
      BY <1>2, <2>2, <3>2, <3>3
  <2> QED
    BY <1>2, <2>1, <2>2
<1>5. Len(more) = Height(s, n + 1)
  BY <1>1, <1>2 DEF SiteStack
<1> QED
  BY <1>3, <1>4, <1>5 DEF SiteStack, more

\* An end pops the begin that it closes.
LEMMA StackEnded ==
    ASSUME NEW s, NEW n \in Nat, NEW T, NEW stack \in Seq(T), SiteStack(s, n, stack),
           Is(n + 1, s, "ZONE_END"), stack # << >>
    PROVE  /\ SiteStack(s, n + 1, Front(stack))
           /\ \E i : BeginsOf(n + 1) = {i} /\ Copied[i].time = Last(stack)
<1> DEFINE less == Front(stack)
           h == Len(stack)
<1>1. /\ h \in Nat \ {0} /\ Len(less) = h - 1
      /\ \A k \in 1 .. h - 1 : less[k] = stack[k]
      /\ Last(stack) = stack[h]
  <2>1. h \in Nat \ {0} /\ Last(stack) = stack[h]
    BY DEF Last
  <2>2. less = [k \in 1 .. h - 1 |-> stack[k]]
    BY <2>1 DEF Front
  <2> HIDE DEF less, h
  <2> QED
    BY <2>1, <2>2
<1>2. Height(s, n) = h
  BY DEF SiteStack
<1> HIDE DEF less, h
<1>3. Height(s, n + 1) = h - 1
  <2>1. ~Is(n + 1, s, "ZONE_START")
    BY DEF Is
  <2> QED
    BY <1>2, <2>1, HeightStep
<1>4. \A m \in 0 .. n + 1 : Height(s, m) >= 0
  <2>1. \A m \in 0 .. n : Height(s, m) >= 0
    BY DEF SiteStack
  <2>2. 0 .. n + 1 = (0 .. n) \cup {n + 1}
    OBVIOUS
  <2> QED
    BY <1>1, <1>3, <2>1, <2>2
<1>5. ASSUME NEW k \in 1 .. h
      PROVE  \E i \in 1 .. n : Raised(s, i, k, n) /\ stack[k] = Copied[i].time
  BY DEF SiteStack, h
<1>6. ASSUME NEW k \in 1 .. h - 1
      PROVE  \E i \in 1 .. n + 1 : Raised(s, i, k, n + 1) /\ less[k] = Copied[i].time
  <2>1. PICK i \in 1 .. n : Raised(s, i, k, n) /\ stack[k] = Copied[i].time
    BY <1>1, <1>5
  <2>2. Height(s, n + 1) >= k
    BY <1>1, <1>3
  <2>3. i \in 1 .. n + 1
    OBVIOUS
  <2> QED
    BY <1>1, <2>1, <2>2, <2>3, RaisedKept
<1>7. SiteStack(s, n + 1, less)
  BY <1>1, <1>3, <1>4, <1>6 DEF SiteStack
<1>8. PICK i \in 1 .. n : Raised(s, i, h, n) /\ stack[h] = Copied[i].time
  BY <1>1, <1>5
<1>9. BeginsOf(n + 1) = {i}
  BY <1>2, <1>8, TopIsBegin
<1> QED
  BY <1>1, <1>7, <1>8, <1>9 DEF less

\* Nothing has begun what ends when the stack is empty.
LEMMA StackEmpty ==
    ASSUME NEW s, NEW n \in Nat, SiteStack(s, n, << >>), Is(n + 1, s, "ZONE_END")
    PROVE  BeginsOf(n + 1) = {}
<1>1. Height(s, n) = 0 /\ \A m \in 0 .. n : Height(s, m) >= 0
  BY DEF SiteStack
<1> QED
  BY <1>1, NothingBegun

\* A row that is no end of an expected zone is not reported.
LEMMA ReportOfOthers ==
    ASSUME NEW n \in Nat, NEW number, NEW zones, Reported(n, number, zones),
           n + 1 \in DOMAIN Copied, DOMAIN Copied \subseteq Nat, n + 1 \notin Ends,
           Copied[n + 1].site[1] \in expected => Copied[n + 1].type \in Phases
    PROVE  Reported(n + 1, number, zones)
<1>1. EndsUntil(n + 1) = EndsUntil(n)
  BY EndsStep
<1>2. 1 .. n + 1 = (1 .. n) \cup {n + 1}
  OBVIOUS
<1> QED
  BY <1>1, <1>2 DEF Reported

\* An end of an expected zone is, with the counter of its one begin.
LEMMA ReportOfEnd ==
    ASSUME NEW n \in Nat, NEW number \in [expected -> Nat], NEW T, NEW zones \in Seq(T),
           Reported(n, number, zones),
           n + 1 \in DOMAIN Copied, DOMAIN Copied \subseteq Nat, n + 1 \in Ends,
           NEW i, BeginsOf(n + 1) = {i}, Copied[i].time <= Copied[n + 1].time,
           NEW zone \in T,
           zone = [site |-> Copied[n + 1].site, begin |-> Copied[i].time, end |-> Copied[n + 1].time]
    PROVE  Reported(n + 1, [number EXCEPT ![Copied[n + 1].site[1]] = @ + 1], Append(zones, zone))
<1> DEFINE more == Append(zones, zone)
           total == [number EXCEPT ![Copied[n + 1].site[1]] = @ + 1]
           z1 == Copied[n + 1].site[1]
<1>1. /\ EndsUntil(n + 1) = EndsUntil(n) \cup {n + 1} /\ n + 1 \notin EndsUntil(n)
      /\ Cardinality(EndsUntil(n + 1)) = Cardinality(EndsUntil(n)) + 1
      /\ Cardinality(EndsUntil(n)) \in Nat /\ IsFiniteSet(EndsUntil(n))
  BY EndsStep
<1>2. /\ Len(more) = Len(zones) + 1 /\ Len(zones) \in Nat
      /\ \A k \in 1 .. Len(zones) : more[k] = zones[k]
      /\ more[Len(zones) + 1] = zone
  OBVIOUS
<1>3. z1 \in expected /\ Copied[n + 1].type = "ZONE_END"
  BY DEF Ends
<1>4. /\ total[z1] > 0
      /\ \A z \in expected \ {z1} : total[z] = number[z]
  BY <1>3
<1>5. Len(zones) = Cardinality(EndsUntil(n))
  BY DEF Reported
<1> HIDE DEF more, total, z1
<1>6. \A k \in 1 .. n + 1 : Copied[k].site[1] \in expected => Copied[k].type \in Phases
  <2>1. 1 .. n + 1 = (1 .. n) \cup {n + 1}
    OBVIOUS
  <2> QED
    BY <1>3, <2>1 DEF Reported, Phases
<1>7. \A j \in EndsUntil(n + 1) : \E b \in BeginsOf(j) : Copied[b].time <= Copied[j].time
  BY <1>1 DEF Reported
<1>8. \A z \in expected : total[z] > 0 <=> \E j \in EndsUntil(n + 1) : Copied[j].site[1] = z
  BY <1>1, <1>4 DEF Reported, z1
<1>9. ASSUME NEW j \in EndsUntil(n + 1), NEW b \in BeginsOf(j)
      PROVE  more[Cardinality(EndsUntil(j))]
               = [site |-> Copied[j].site, begin |-> Copied[b].time, end |-> Copied[j].time]
  <2>1. CASE j = n + 1
    <3>1. b = i
      BY <2>1
    <3> QED
      BY <1>1, <1>2, <1>5, <2>1, <3>1
  <2>2. CASE j \in EndsUntil(n)
    <3>1. Cardinality(EndsUntil(j)) \in 1 .. Len(zones)
      <4>1. EndsUntil(j) \subseteq EndsUntil(n) /\ j \in EndsUntil(j)
        <5>1. Ends \subseteq Nat
          BY DEF Ends
        <5>2. j \in Ends /\ j \in Nat /\ j <= n
          BY <2>2, <5>1 DEF EndsUntil
        <5>3. ASSUME NEW k \in Ends, k <= j PROVE k <= n
          BY <5>1, <5>2, <5>3
        <5>4. j <= j
          BY <5>2
        <5> QED
          BY <5>2, <5>3, <5>4 DEF EndsUntil
      <4>2. /\ Cardinality(EndsUntil(j)) <= Cardinality(EndsUntil(n))
            /\ IsFiniteSet(EndsUntil(j))
        BY <1>1, <4>1, FS_Subset
      <4>3. Cardinality(EndsUntil(j)) \in Nat /\ Cardinality(EndsUntil(j)) # 0
        BY <4>1, <4>2, FS_CardinalityType, FS_EmptySet
      <4> QED
        BY <1>1, <1>5, <4>2, <4>3
    <3> QED
      BY <1>2, <2>2, <3>1 DEF Reported
  <2> QED
    BY <1>1, <2>1, <2>2
<1>10. Len(more) = Cardinality(EndsUntil(n + 1))
  BY <1>1, <1>2, <1>5
<1> QED
  BY <1>6, <1>7, <1>8, <1>9, <1>10 DEF Reported, more, total

-----------------------------------------------------------------------------
\* Every step of a capture

\* What is said of the copy stays as long as the copy does.
LEMMA Framed ==
    ASSUME output' = output, expected' = expected
    PROVE  /\ Copied' = Copied /\ (WellPaired' <=> WellPaired)
           /\ \A s, n, stack : SiteStack(s, n, stack)' <=> SiteStack(s, n, stack)
           /\ \A n, number, zones : Reported(n, number, zones)' <=> Reported(n, number, zones)
           /\ Ends' = Ends /\ \A j : BeginsOf(j)' = BeginsOf(j)
<1>1. Copied' = Copied /\ Ends' = Ends /\ (Unreadable(output)' <=> Unreadable(output))
  BY DEF Copied, Ends, Unreadable
<1>2. \A s, type, i, j : Counted(s, type, i, j)' = Counted(s, type, i, j)
  BY <1>1 DEF Counted
<1>3. \A s, i, j : Balanced(s, i, j)' <=> Balanced(s, i, j)
  BY <1>2 DEF Balanced
<1>4. \A j : BeginsOf(j)' = BeginsOf(j)
  BY <1>1, <1>3 DEF BeginsOf
<1>5. \A s, m : Height(s, m)' = Height(s, m)
  BY <1>2 DEF Height
<1>6. \A s, i, k, n : Raised(s, i, k, n)' <=> Raised(s, i, k, n)
  BY <1>1, <1>5 DEF Raised, Is
<1>7. \A n : EndsUntil(n)' = EndsUntil(n)
  BY <1>1 DEF EndsUntil
<1>8. \A s, n, stack : SiteStack(s, n, stack)' <=> SiteStack(s, n, stack)
  BY <1>1, <1>5, <1>6 DEF SiteStack
<1>9. \A n, number, zones : Reported(n, number, zones)' <=> Reported(n, number, zones)
  BY <1>1, <1>4, <1>7 DEF Reported
<1>10. WellPaired' <=> WellPaired
  BY <1>1, <1>3, <1>4 DEF WellPaired
<1> QED
  BY <1>1, <1>4, <1>8, <1>9, <1>10

\* The rows of the copy are events.
LEMMA CopiedRows ==
    ASSUME CaptureTypes
    PROVE  /\ Copied \in Seq(Row) /\ DOMAIN Copied = 1 .. Len(Copied) /\ DOMAIN Copied \subseteq Nat
           /\ \A k \in DOMAIN Copied : Copied[k].site \in Site /\ Copied[k].time \in Time
<1>1. Copied \in Seq(Row)
  BY DEF CaptureTypes, File, Copied
<1>2. \A row \in Row : row.site \in Site /\ row.time \in Time
  BY DEF Row, Time
<1> QED
  BY <1>1, <1>2

\* Before the first row every stack is empty and nothing has been reported.
LEMMA NothingPaired ==
    ASSUME CaptureTypes
    PROVE  /\ \A s \in Site : SiteStack(s, 0, << >>)
           /\ Reported(0, [z \in expected |-> 0], << >>)
<1>1. ASSUME NEW s \in Site PROVE SiteStack(s, 0, << >>)
  <2>1. Height(s, 0) = 0
    BY HeightStep
  <2> QED
    BY <2>1 DEF SiteStack
<1>2. EndsUntil(0) = {} /\ Cardinality({}) = 0
  BY CopiedRows, FS_EmptySet DEF EndsUntil, Ends
<1>3. Reported(0, [z \in expected |-> 0], << >>)
  <2> DEFINE none == [z \in expected |-> 0]
  <2>1. \A k \in 1 .. 0 : Copied[k].site[1] \in expected => Copied[k].type \in Phases
    OBVIOUS
  <2>2. \A z \in expected : ~(none[z] > 0)
    OBVIOUS
  <2>3. Len(<< >>) = 0
    OBVIOUS
  <2> HIDE DEF none
  <2>4. Reported(0, none, << >>)
    BY <1>2, <2>1, <2>2, <2>3 DEF Reported
  <2> QED
    BY <2>4 DEF none
<1> QED
  BY <1>1, <1>3

\* Until the copy is read nothing has been paired.
LEMMA EarlyStep ==
    ASSUME CaptureInv, Start \/ WriteCsv \/ RunEnds \/ Copy
    PROVE  CaptureInv'
<1> USE DEF CaptureInv
<1>1. /\ status = "none" /\ status' = "none" /\ pc' \in {"run", "copy", "parse", "stopped"}
      /\ UNCHANGED <<expected, pairing>> /\ paired = 0 /\ output = NoRows
      /\ pc \in {"start", "run", "copy"}
  BY DEF Start, WriteCsv, RunEnds, Copy, CaptureTypes, NewInv, PairInv, pairing
<1>2. /\ pc \in {"run", "copy"} => csv.by # "earlier" /\ csv \in File
      /\ NoRows \in File
  <2>1. NoRows \in File
    BY DEF NoRows, File
  <2> QED
    BY <2>1 DEF NewInv, CaptureTypes
<1>3. WriteCsv => csv'.by = "this" /\ csv' \in File
  <2> SUFFICES ASSUME WriteCsv PROVE csv'.by = "this" /\ csv' \in File
    OBVIOUS
  <2>1. csv \in File
    BY <1>2 DEF WriteCsv
  <2>2. ASSUME NEW file \in File, Metal(file) PROVE csv'.by = "this" /\ csv' \in File
    <3>1. file.by \in {"nobody", "this"} /\ csv' = [file EXCEPT !.by = IF @ = "nobody" THEN "this" ELSE @]
      BY <2>2 DEF Metal, File
    <3>2. csv' = [file EXCEPT !.by = "this"]
      BY <3>1, <2>2 DEF File
    <3> QED
      BY <3>2, <2>2 DEF File
  <2>3. \A header \in {"none", "pinned", "other"} : [csv EXCEPT !.header = header] \in File
    BY <2>1 DEF File
  <2>4. ASSUME NEW row \in Row PROVE [csv EXCEPT !.rows = Append(@, row)] \in File
    <3>1. csv.rows \in Seq(Row)
      BY <2>1 DEF File
    <3>2. Append(csv.rows, row) \in Seq(Row)
      BY <3>1
    <3> DEFINE more == Append(csv.rows, row)
    <3>3. [csv EXCEPT !.rows = more] \in File
      <4> HIDE DEF more
      <4>1. more \in Seq(Row)
        BY <3>2 DEF more
      <4> QED
        BY <2>1, <4>1 DEF File
    <3> QED
      BY <3>3
  <2>5. [csv EXCEPT !.broken = TRUE] \in File
    BY <2>1 DEF File
  <2> QED
    BY <2>2, <2>3, <2>4, <2>5 DEF WriteCsv, WriteHeader, WriteRow
<1>4. /\ csv'.by # "earlier" => csv' \in File
      /\ output' \in File
  BY <1>1, <1>2, <1>3 DEF Start, WriteCsv, RunEnds, Copy, CaptureTypes
<1>5. paired' \in 0 .. Len(output'.rows)
  BY <1>1, <1>4 DEF File, pairing
<1>6. CaptureTypes'
  BY <1>1, <1>5, <1>4 DEF CaptureTypes, pairing
<1>7. NewInv'
  <2>1. CASE Start
    BY <1>1, <2>1 DEF Start, NewInv, NoRows
  <2>2. CASE WriteCsv
    BY <1>1, <1>3, <2>2 DEF WriteCsv, NewInv
  <2>3. CASE RunEnds
    BY <1>1, <2>3 DEF RunEnds, NewInv
  <2>4. CASE Copy
    BY <1>1, <1>2, <2>4 DEF Copy, NewInv
  <2> QED
    BY <2>1, <2>2, <2>3, <2>4
<1>8. PairInv'
  BY <1>1 DEF PairInv, pairing
<1>9. VerdictInv'
  BY <1>1 DEF VerdictInv, IntervalsAreZones
<1> QED
  BY <1>6, <1>7, <1>8, <1>9

\* A copy that cannot be read fails; the others are paired from the first row.
LEMMA ParseStep ==
    ASSUME CaptureInv, Parse
    PROVE  CaptureInv'
<1> USE DEF CaptureInv
<1>1. /\ output' = output /\ expected' = expected /\ csv' = csv /\ pc = "parse"
      /\ paired' = paired /\ opened' = opened /\ counts' = counts /\ intervals' = intervals
      /\ status = "none" /\ pc' \in {"pair", "stopped"} /\ status' \in {"none", "fail"}
      /\ (pc' = "pair" => ~Unreadable(output) /\ status' = "none")
      /\ (status' = "fail" => Unreadable(output) /\ pc' = "stopped")
  BY DEF Parse, Report, CaptureTypes, NewInv, pairing
<1>2. CaptureTypes'
  BY <1>1 DEF CaptureTypes
<1>3. NewInv'
  BY <1>1 DEF NewInv
<1>4. PairInv'
  <2>1. /\ paired = 0 /\ opened = [s \in Site |-> << >>]
        /\ counts = [z \in expected |-> 0] /\ intervals = << >>
    BY <1>1 DEF PairInv
  <2>2. \A s \in Site : SiteStack(s, paired, opened[s])' /\ opened'[s] = << >>
    BY <1>1, <2>1, NothingPaired, Framed
  <2>3. Reported(paired, counts, intervals)'
    BY <1>1, <2>1, NothingPaired, Framed
  <2>4. pc' = "pair" => ~Unreadable(output)'
    BY <1>1 DEF Unreadable
  <2> QED
    BY <1>1, <2>2, <2>3, <2>4 DEF PairInv, StackInv, ReportInv
<1>5. VerdictInv'
  BY <1>1, Framed DEF VerdictInv, IntervalsAreZones, WellPaired
<1> QED
  BY <1>2, <1>3, <1>4, <1>5

\* One event is paired.
LEMMA PairStep ==
    ASSUME CaptureInv, Pair
    PROVE  CaptureInv'
<1> USE DEF CaptureInv
<1> DEFINE n == paired
           e == Copied[n + 1]
           s == e.site
<1>1. /\ output' = output /\ expected' = expected /\ csv' = csv /\ pc = "pair"
      /\ n < Len(Copied) /\ status = "none"
  BY DEF Pair, Copied, CaptureTypes, NewInv
<1>2. /\ n \in Nat /\ n + 1 \in DOMAIN Copied /\ DOMAIN Copied \subseteq Nat
      /\ s \in Site /\ e.time \in Time
      /\ DOMAIN Copied = 1 .. Len(Copied) /\ Len(Copied) \in Nat
  BY <1>1, CopiedRows DEF CaptureTypes
<1>3. StackInv /\ ReportInv /\ ~Unreadable(output)
  BY <1>1 DEF PairInv
<1>4. n + 1 \in Ends <=> s[1] \in expected /\ e.type = "ZONE_END"
  BY <1>2 DEF Ends
<1>5. \A t \in Site : t # s => ~Is(n + 1, t, "ZONE_START") /\ ~Is(n + 1, t, "ZONE_END")
  BY DEF Is
<1>6. opened \in [Site -> Seq(Time)] /\ counts \in [expected -> Nat] /\ intervals \in Seq(Interval)
  BY DEF CaptureTypes
<1>7. ASSUME NEW t \in Site, t # s, t[1] \in expected
      PROVE  SiteStack(t, n + 1, opened[t])
  <2>1. SiteStack(t, n, opened[t]) /\ Len(opened[t]) \in Nat
    BY <1>3, <1>6, <1>7 DEF StackInv
  <2> QED
    BY <1>2, <1>5, <1>7, <2>1, StackOfOthers
<1>8. ASSUME /\ UNCHANGED <<pc, status>> /\ paired' = n + 1
             /\ opened' \in [Site -> Seq(Time)] /\ counts' \in [expected -> Nat]
             /\ intervals' \in Seq(Interval)
             /\ \A t \in Site : t # s => opened'[t] = opened[t]
             /\ IF s[1] \in expected THEN SiteStack(s, n + 1, opened'[s]) ELSE opened'[s] = << >>
             /\ Reported(n + 1, counts', intervals')
      PROVE  CaptureInv'
  <2>1. CaptureTypes'
    BY <1>1, <1>2, <1>8 DEF CaptureTypes, Copied
  <2>2. NewInv'
    BY <1>1, <1>8 DEF NewInv
  <2>3. \A t \in Site : IF t[1] \in expected THEN SiteStack(t, n + 1, opened'[t]) ELSE opened'[t] = << >>
    BY <1>3, <1>7, <1>8 DEF StackInv
  <2>4. StackInv'
    BY <1>1, <1>8, <2>3, Framed DEF StackInv
  <2>5. ReportInv'
    BY <1>1, <1>8, Framed DEF ReportInv
  <2>6. PairInv'
    BY <1>1, <1>3, <1>8, <2>4, <2>5 DEF PairInv, Unreadable
  <2>7. VerdictInv'
    BY <1>1, <1>8 DEF VerdictInv, IntervalsAreZones
  <2> QED
    BY <2>1, <2>2, <2>6, <2>7
<1>9. ASSUME Report("fail"), UNCHANGED pairing, ~WellPaired
      PROVE  CaptureInv'
  <2>1. CaptureTypes'
    BY <1>1, <1>9 DEF CaptureTypes, Report, pairing
  <2>2. NewInv'
    BY <1>1, <1>9 DEF NewInv, Report
  <2>3. PairInv'
    BY <1>9 DEF PairInv, Report
  <2>4. VerdictInv'
    BY <1>1, <1>9, Framed DEF VerdictInv, IntervalsAreZones, Report
  <2> QED
    BY <2>1, <2>2, <2>3, <2>4
<1>10. Reported(n, counts, intervals)
  BY <1>3 DEF ReportInv
<1> HIDE DEF n
<1>11. CASE Skip(e) /\ paired' = n + 1 /\ UNCHANGED <<pc, status>>
  <2>1. s[1] \notin expected /\ opened[s] = << >>
    BY <1>2, <1>3, <1>11 DEF Skip, StackInv
  <2>2. Reported(n + 1, counts, intervals)
    BY <1>2, <1>4, <1>10, <2>1, ReportOfOthers
  <2> QED
    BY <1>6, <1>8, <1>11, <2>1, <2>2 DEF Skip
<1>12. CASE s[1] \in expected /\ OpenZone(e) /\ paired' = n + 1 /\ UNCHANGED <<pc, status>>
  <2>1. SiteStack(s, n, opened[s]) /\ opened[s] \in Seq(Time)
    BY <1>2, <1>3, <1>6, <1>12 DEF StackInv, n
  <2>2. Is(n + 1, s, "ZONE_START") /\ n + 1 \notin Ends
    BY <1>4, <1>12 DEF Is, OpenZone
  <2>3. SiteStack(s, n + 1, Append(opened[s], e.time))
    BY <1>2, <2>1, <2>2, StackBegun
  <2>4. Reported(n + 1, counts, intervals)
    BY <1>2, <1>10, <1>12, <2>2, ReportOfOthers DEF OpenZone, Phases
  <2>5. /\ opened' = [opened EXCEPT ![s] = Append(opened[s], e.time)]
        /\ counts' = counts /\ intervals' = intervals
    BY <1>12 DEF OpenZone
  <2>6. opened' \in [Site -> Seq(Time)] /\ opened'[s] = Append(opened[s], e.time)
    BY <1>2, <1>6, <2>5
  <2> QED
    BY <1>6, <1>8, <1>12, <2>3, <2>4, <2>5, <2>6
<1>13. CASE s[1] \in expected /\ Close(e) /\ paired' = n + 1 /\ UNCHANGED <<pc, status>>
  <2>1. SiteStack(s, n, opened[s]) /\ opened[s] \in Seq(Time)
    BY <1>2, <1>3, <1>6, <1>13 DEF StackInv, n
  <2>2. /\ Is(n + 1, s, "ZONE_END") /\ n + 1 \in Ends
        /\ opened[s] # << >> /\ Last(opened[s]) <= e.time
    BY <1>4, <1>13 DEF Is, Close, Closes
  <2>3. SiteStack(s, n + 1, Front(opened[s]))
    BY <1>2, <2>1, <2>2, StackEnded
  <2>4. PICK i : BeginsOf(n + 1) = {i} /\ Copied[i].time = Last(opened[s])
    BY <1>2, <2>1, <2>2, StackEnded
  <2>5. Front(opened[s]) \in Seq(Time) /\ Last(opened[s]) \in Time
    <3>1. Len(opened[s]) \in Nat \ {0}
      BY <2>1, <2>2
    <3> QED
      BY <2>1, <3>1 DEF Front, Last
  <2> DEFINE zone == [site |-> s, begin |-> Last(opened[s]), end |-> e.time]
             total == [counts EXCEPT ![s[1]] = @ + 1]
  <2>6. zone \in Interval
    BY <1>2, <2>5 DEF Interval
  <2>7. Reported(n + 1, total, Append(intervals, zone))
    <3>1. Copied[i].time <= Copied[n + 1].time
      BY <2>2, <2>4
    <3>2. zone = [site |-> Copied[n + 1].site, begin |-> Copied[i].time, end |-> Copied[n + 1].time]
      BY <2>4
    <3> HIDE DEF zone
    <3> QED
      BY <1>2, <1>6, <1>10, <2>2, <2>4, <2>6, <3>1, <3>2, ReportOfEnd
  <2>8. /\ opened' = [opened EXCEPT ![s] = Front(opened[s])]
        /\ counts' = total /\ intervals' = Append(intervals, zone)
    BY <1>13 DEF Close
  <2>9. opened' \in [Site -> Seq(Time)] /\ opened'[s] = Front(opened[s])
    BY <1>2, <1>6, <2>5, <2>8
  <2>10. total \in [expected -> Nat] /\ Append(intervals, zone) \in Seq(Interval)
    BY <1>6, <1>13, <2>6
  <2> HIDE DEF zone, total
  <2> QED
    BY <1>8, <1>13, <2>3, <2>7, <2>8, <2>9, <2>10
<1>14. CASE s[1] \in expected /\ Unpaired(e) /\ Report("fail") /\ UNCHANGED pairing
  <2>1. CASE e.type \notin Phases
    <3>1. ~WellPaired
      BY <1>2, <1>14, <2>1 DEF WellPaired
    <3> QED
      BY <1>9, <1>14, <3>1
  <2>2. CASE e.type = "ZONE_END" /\ ~Closes(e)
    <3>1. SiteStack(s, n, opened[s]) /\ opened[s] \in Seq(Time)
      BY <1>2, <1>3, <1>6, <1>14 DEF StackInv, n
    <3>2. Is(n + 1, s, "ZONE_END") /\ n + 1 \in Ends
      BY <1>4, <1>14, <2>2 DEF Is
    <3>3. ~\E i \in BeginsOf(n + 1) : Copied[i].time <= Copied[n + 1].time
      <4>1. CASE opened[s] = << >>
        BY <1>2, <3>1, <3>2, <4>1, StackEmpty
      <4>2. CASE opened[s] # << >>
        <5>1. PICK i : BeginsOf(n + 1) = {i} /\ Copied[i].time = Last(opened[s])
          BY <1>2, <3>1, <3>2, <4>2, StackEnded
        <5>2. ~(Last(opened[s]) <= e.time)
          BY <2>2, <4>2 DEF Closes
        <5> QED
          BY <5>1, <5>2
      <4> QED
        BY <4>1, <4>2
    <3>4. ~WellPaired
      BY <3>2, <3>3 DEF WellPaired
    <3> QED
      BY <1>9, <1>14, <3>4
  <2> QED
    BY <1>14, <2>1, <2>2 DEF Unpaired
<1> QED
  BY <1>11, <1>12, <1>13, <1>14 DEF Pair, n, Copied

\* The last row has been paired.
LEMMA ConcludeStep ==
    ASSUME CaptureInv, Conclude
    PROVE  CaptureInv'
<1> USE DEF CaptureInv
<1>1. /\ output' = output /\ expected' = expected /\ csv' = csv /\ pc = "pair"
      /\ UNCHANGED pairing /\ paired = Len(Copied) /\ pc' = "stopped"
      /\ status' \in {"pass", "fail"}
  BY DEF Conclude, Report, Copied
<1>2. StackInv /\ Reported(Len(Copied), counts, intervals) /\ ~Unreadable(output)
  BY <1>1 DEF PairInv, ReportInv
<1>3. DOMAIN Copied = 1 .. Len(Copied) /\ Len(Copied) \in Nat
  BY CopiedRows
<1>4. EndsUntil(Len(Copied)) = Ends
  BY <1>3 DEF EndsUntil, Ends
<1>5. CaptureTypes'
  BY <1>1 DEF CaptureTypes, pairing
<1>6. NewInv' /\ PairInv'
  BY <1>1 DEF NewInv, PairInv
<1>7. ASSUME NEW s \in Site, s[1] \in expected
      PROVE  Balanced(s, 1, Len(Copied)) <=> opened[s] = << >>
  <2>1. Balanced(s, 1, Len(Copied)) <=> Height(s, 1 - 1) = Height(s, Len(Copied))
    BY <1>3, BalancedHeights
  <2>2. Height(s, 0) = 0 /\ Height(s, Len(Copied)) = Len(opened[s])
    BY <1>1, <1>2, <1>3, <1>7, HeightStep DEF StackInv, SiteStack
  <2>3. opened[s] \in Seq(Time)
    BY DEF CaptureTypes
  <2> QED
    BY <2>1, <2>2, <2>3
<1>8. status' = "pass" <=>
        /\ \A s \in Site : opened[s] = << >>
        /\ \A z \in expected : counts[z] > 0
  BY DEF Conclude, Report
<1>9. status' = "pass" <=> WellPaired
  <2>1. (\A s \in Site : opened[s] = << >>)
          <=> \A s \in Site : s[1] \in expected => Balanced(s, 1, Len(Copied))
    BY <1>2, <1>7 DEF StackInv
  <2>2. (\A z \in expected : counts[z] > 0) <=> \A z \in expected : \E j \in Ends : Copied[j].site[1] = z
    BY <1>2, <1>4 DEF Reported
  <2>3. /\ \A k \in DOMAIN Copied : Copied[k].site[1] \in expected => Copied[k].type \in Phases
        /\ \A j \in Ends : \E i \in BeginsOf(j) : Copied[i].time <= Copied[j].time
    BY <1>2, <1>3, <1>4 DEF Reported
  <2> QED
    BY <1>2, <1>8, <2>1, <2>2, <2>3 DEF WellPaired
<1>10. /\ Len(intervals) = Cardinality(Ends)
       /\ \A j \in Ends : \A i \in BeginsOf(j) :
            intervals[Cardinality({k \in Ends : k <= j})]
              = [site |-> Copied[j].site, begin |-> Copied[i].time, end |-> Copied[j].time]
  BY <1>2, <1>4 DEF Reported, EndsUntil
<1>11. IntervalsAreZones'
  <2>1. Copied' = Copied /\ Ends' = Ends /\ \A j : BeginsOf(j)' = BeginsOf(j)
    BY <1>1, Framed
  <2>2. intervals' = intervals
    BY <1>1 DEF pairing
  <2> QED
    BY <1>10, <2>1, <2>2 DEF IntervalsAreZones
<1>12. VerdictInv'
  BY <1>1, <1>9, <1>11, Framed DEF VerdictInv
<1> QED
  BY <1>5, <1>6, <1>12

-----------------------------------------------------------------------------
\* The invariant and what it gives

\* Before the script starts there is no file, or one of an earlier capture.
LEMMA CaptureInit == Init => CaptureInv
<1> SUFFICES ASSUME Init PROVE CaptureInv
  OBVIOUS
<1>1. /\ paired = 0 /\ opened = [s \in Site |-> << >>] /\ counts = [z \in expected |-> 0]
      /\ intervals = << >> /\ status = "none" /\ pc = "start" /\ output = NoRows
      /\ csv = NoRows \/ csv.by = "earlier"
  BY DEF Init, NoRows
<1>2. NoRows \in File /\ Len(NoRows.rows) = 0 /\ NoRows.by = "nobody"
  BY DEF NoRows, File
<1>3. /\ opened \in [Site -> Seq(Time)] /\ counts \in [expected -> Nat]
      /\ intervals \in Seq(Interval)
  BY <1>1
<1>4. CaptureTypes
  BY <1>1, <1>2, <1>3 DEF CaptureTypes
<1>5. NewInv
  BY <1>1, <1>2 DEF NewInv
<1>6. PairInv /\ VerdictInv
  BY <1>1 DEF PairInv, VerdictInv, IntervalsAreZones
<1> QED
  BY <1>4, <1>5, <1>6 DEF CaptureInv

\* Every step keeps what holds of the file, of the stacks and of the report.
LEMMA CaptureNext == CaptureInv /\ [Next]_vars => CaptureInv'
<1> SUFFICES ASSUME CaptureInv, [Next]_vars PROVE CaptureInv'
  OBVIOUS
<1>1. CASE Start \/ WriteCsv \/ RunEnds \/ Copy
  BY <1>1, EarlyStep
<1>2. CASE Parse
  BY <1>2, ParseStep
<1>3. CASE Pair
  BY <1>3, PairStep
<1>4. CASE Conclude
  BY <1>4, ConcludeStep
<1>5. CASE UNCHANGED vars
  <2>1. /\ csv' = csv /\ output' = output /\ pc' = pc /\ expected' = expected
        /\ paired' = paired /\ opened' = opened /\ counts' = counts
        /\ intervals' = intervals /\ status' = status
    BY <1>5 DEF vars, pairing
  <2>2. CaptureTypes' /\ NewInv'
    BY <2>1 DEF CaptureInv, CaptureTypes, NewInv
  <2>3. StackInv' <=> StackInv
    BY <2>1, Framed DEF StackInv
  <2>4. ReportInv' <=> ReportInv
    BY <2>1, Framed DEF ReportInv
  <2>5. PairInv'
    BY <2>1, <2>3, <2>4 DEF CaptureInv, PairInv, Unreadable
  <2>6. IntervalsAreZones'
    BY <2>1, Framed DEF CaptureInv, VerdictInv, IntervalsAreZones
  <2>7. VerdictInv'
    BY <2>1, <2>6, Framed DEF CaptureInv, VerdictInv
  <2> QED
    BY <2>2, <2>5, <2>7 DEF CaptureInv
<1> QED
  BY <1>1, <1>2, <1>3, <1>4, <1>5 DEF Next, Stopped

\* At every step the stacks hold what is open, the counts and the intervals are
\* those of the rows that have been read, and the verdict is that of the rows.
THEOREM CaptureInvariance == Spec => []CaptureInv
<1> QED
  BY CaptureInit, CaptureNext, PTL DEF Spec

\* A capture passes exactly when its rows are whole, every expected zone occurs
\* and all zones that began have ended: the stacks of check_profiler.py decide
\* what the counting of begins and ends decides.
THEOREM PassesPaired == Spec => []PassMeansPaired
<1>1. CaptureInv => PassMeansPaired
  BY DEF CaptureInv, VerdictInv, PassMeansPaired, WellPaired
<1> QED
  BY <1>1, CaptureInvariance, PTL

\* Each interval that check_profiler.py reports runs from the begin that its end
\* closes, in the order of the ends.
THEOREM IntervalsReported == Spec => []IntervalsAreZones
<1>1. CaptureInv => IntervalsAreZones
  BY DEF CaptureInv, VerdictInv
<1> QED
  BY <1>1, CaptureInvariance, PTL

\* profile.sh never passes off the rows of an earlier capture as its own.
THEOREM CapturesNew == Spec => []CaptureIsNew
<1>1. ASSUME CaptureInv, status = "pass" PROVE output.by = "this"
  <2>1. ~Unreadable(output)
    BY <1>1 DEF CaptureInv, VerdictInv, WellPaired
  <2>2. output # NoRows
    BY <2>1 DEF Unreadable, NoRows
  <2>3. output.by \in {"nobody", "this"}
    BY <1>1 DEF CaptureInv, CaptureTypes, File
  <2> QED
    BY <1>1, <2>2, <2>3 DEF CaptureInv, NewInv
<1>2. CaptureInv => CaptureIsNew
  BY <1>1 DEF CaptureIsNew
<1> QED
  BY <1>2, CaptureInvariance, PTL

=============================================================================
