----------------------- MODULE ReducePipeline_proofs -----------------------
(***************************************************************************)
(* Proofs about the device program, for every shape, repeat count, buffer  *)
(* capacity and register depth, and for every set of inputs.               *)
(*                                                                         *)
(* IInv is inductive: one lemma per thread, one case per action, and under *)
(* it one step per part of IInv the action disturbs.  The safety           *)
(* properties and the step simulation of RowReduce follow from it.         *)
(***************************************************************************)
EXTENDS ReducePipelineInv, TLAPS

-----------------------------------------------------------------------------
\* Ring indices and page numbers

\* A number is its quotient and its remainder.
LEMMA Euclid ==
    ASSUME NEW n \in Nat \ {0}, NEW a \in Nat
    PROVE  /\ a = n * (a \div n) + (a % n)
           /\ a % n \in 0 .. n - 1
           /\ a \div n \in Nat
OBVIOUS

\* The remainder determines the quotient: two representations are one.
LEMMA UniqueQuotient ==
    ASSUME NEW n \in Nat \ {0},
           NEW p \in Int, NEW x \in 0 .. n - 1,
           NEW q \in Int, NEW y \in 0 .. n - 1,
           n * p + x = n * q + y
    PROVE  p = q /\ x = y
<1> DEFINE d == p - q
<1>1. d \in Int /\ n * d = y - x
  OBVIOUS
<1> HIDE DEF d
<1>2. CASE d >= 1
  <2>1. n * d >= n
    BY <1>1, <1>2
  <2> QED BY <1>1, <2>1
<1>3. CASE d <= -1
  <2>1. n * d <= -n
    BY <1>1, <1>3
  <2> QED BY <1>1, <2>1
<1>4. d = 0
  BY <1>1, <1>2, <1>3
<1>5. p = q
  BY <1>4 DEF d
<1> QED BY <1>1, <1>4, <1>5

\* Entries of a ring less than one lap apart occupy different slots.
LEMMA RingInjective ==
    ASSUME NEW n \in Nat \ {0}, NEW a \in Nat, NEW b \in Nat,
           a < b, b < a + n
    PROVE  a % n # b % n
<1>1. SUFFICES ASSUME a % n = b % n PROVE FALSE
  OBVIOUS
<1> DEFINE d == (b \div n) - (a \div n)
<1>2. d \in Int /\ b - a = n * d
  BY <1>1, Euclid
<1> HIDE DEF d
<1>3. d >= 1
  <2>1. CASE d <= 0
    <3>1. n * d <= 0
      BY <1>2, <2>1
    <3> QED BY <1>2, <3>1
  <2> QED BY <1>2, <2>1
<1>4. n * d >= n
  BY <1>2, <1>3
<1> QED BY <1>2, <1>4

\* One lap later a ring is back at the same slot.
LEMMA RingLap ==
    ASSUME NEW n \in Nat \ {0}, NEW a \in Nat
    PROVE  (a + n) % n = a % n
<1> DEFINE p == (a + n) \div n
           q == a \div n + 1
           x == (a + n) % n
           y == a % n
<1>1. a + n = n * p + x /\ x \in 0 .. n - 1 /\ p \in Int
  BY Euclid, a + n \in Nat
<1>2. a = n * (a \div n) + y /\ y \in 0 .. n - 1 /\ a \div n \in Int
  BY Euclid
<1>3. a + n = n * q + y /\ q \in Int
  BY <1>2
<1> HIDE DEF p, q, x, y
<1>4. x = y
  BY <1>1, <1>2, <1>3, UniqueQuotient
<1> QED BY <1>4 DEF x, y

\* One lap of a ring visits every slot.
LEMMA RingCover ==
    ASSUME NEW n \in Nat \ {0}, NEW a \in Nat, NEW k \in 0 .. n - 1
    PROVE  \E r \in a .. a + n - 1 : r % n = k
<1> DEFINE q == a \div n
           x == a % n
           d == IF k >= x THEN k - x ELSE n + k - x
           p == IF k >= x THEN q ELSE q + 1
<1>1. a = n * q + x /\ x \in 0 .. n - 1 /\ q \in Nat
  BY Euclid
<1> HIDE DEF q, x
<1>2. n * (q + 1) = n * q + n
  BY <1>1
<1>3. d \in 0 .. n - 1 /\ a + d = n * p + k /\ p \in Int
  BY <1>1, <1>2
<1> HIDE DEF d, p
<1> DEFINE e == a + d
           f == e \div n
           y == e % n
<1>4. e \in a .. a + n - 1 /\ e = n * p + k
  BY <1>3
<1>5. e = n * f + y /\ y \in 0 .. n - 1 /\ f \in Int
  <2>1. e \in Nat
    BY <1>4
  <2> HIDE DEF e
  <2> QED
    BY <2>1, Euclid
<1> HIDE DEF e, f, y
<1>6. y = k
  BY <1>3, <1>4, <1>5, UniqueQuotient
<1> QED
  BY <1>4, <1>6 DEF y

\* The page after the last of row r is the first of row r + 1.
LEMMA NextRowStart ==
    ASSUME NEW r \in Nat, NEW w \in Nat
    PROVE  (r + 1) * w = r * w + w /\ r * w \in Nat
OBVIOUS

\* Row r ends before the matrix does.
LEMMA RowFits ==
    ASSUME NEW r \in Nat, NEW h \in Nat, NEW w \in Nat, r < h
    PROVE  r * w + w <= h * w /\ r * w \in Nat /\ h * w \in Nat
<1>1. (h - r - 1) \in Nat /\ h * w = r * w + w + (h - r - 1) * w
  OBVIOUS
<1>2. (h - r - 1) * w >= 0
  BY <1>1
<1> QED BY <1>1, <1>2

-----------------------------------------------------------------------------
\* The invariant holds before the first step.
LEMMA InitInv == Init => IInv
<1> SUFFICES ASSUME Init PROVE IInv
  OBVIOUS
<1> USE ShapeAssumption, RepeatsAssumption, CapacityAssumption DEF Thread, Dfb
<1>1. /\ pc = Start /\ row = [t \in Thread |-> 0] /\ col = [t \in {"unpack", "math"} |-> 0]
      /\ pushed = [b \in Dfb |-> 0] /\ popped = [b \in Dfb |-> 0]
      /\ reads = {} /\ writes = {} /\ srcRegs = << >> /\ ready = 0
      /\ dest = [k \in 0 .. DestBanks - 1 |-> << >>]
      /\ Ht * Wt \in Nat \ {0} /\ 0 * Wt = 0
  BY DEF Init
<1>2. /\ pc["reader"] = "reserveScaler" /\ pc["unpack"] = "waitScaler"
      /\ pc["math"] = "acquire" /\ pc["pack"] = "wait" /\ pc["writer"] = "wait"
      /\ pc \in [Thread -> Label]
  BY <1>1 DEF Start, Label
<1>3. TypeOK
  <2>1. /\ src \in Inputs /\ launch \in 1 .. Repeats /\ scSlot \in ScalerTile
        /\ inSlot \in [0 .. InputEntries - 1 -> Tile]
    BY DEF Init, Tile, ScalerTile
  <2>2. outSlot \in [0 .. OutputEntries - 1 -> Sum] 
    BY DEF Init, Sum, Tile
  <2>3. dst \in [Row -> Sum \cup {Poison}]
    BY DEF Init, AllPoison
  <2>4. dest \in [0 .. DestBanks - 1 -> Sum] /\ srcRegs \in Seq(Tile)
    BY <1>1 DEF Sum
  <2>5. /\ pushed \in [Dfb -> Nat] /\ popped \in [Dfb -> Nat] /\ ready \in 0 .. DestBanks
        /\ row \in [Thread -> Nat] /\ col \in [{"unpack", "math"} -> 0 .. Wt]
    BY <1>1
  <2> QED
    BY <1>1, <1>2, <2>1, <2>2, <2>3, <2>4, <2>5 DEF TypeOK
<1>4. ReaderInv /\ ReadInv
  BY <1>1, <1>2 DEF ReaderInv, ReadInv, BeforeScaler
<1>5. InputInv /\ UnpackInv
  BY <1>1, <1>2 DEF InputInv, UnpackInv, Occupancy, Published, Consumed
<1>6. MathInv
  BY <1>1, <1>2 DEF MathInv, Consumed, Unpacked
<1>7. DestInv
  <2>1. ASSUME NEW r \in 0 .. DestBanks - 1
        PROVE  dest[r % DestBanks] = Accumulated(r)
    <3>1. r % DestBanks \in 0 .. DestBanks - 1
      BY Euclid
    <3>2. Accumulated(r) = << >>
      BY <1>1 DEF Accumulated
    <3> QED
      BY <1>1, <3>1, <3>2
  <2> QED
    BY <1>1, <1>2, <2>1 DEF DestInv
<1>8. PackInv /\ OutputInv
  BY <1>1, <1>2 DEF PackInv, OutputInv, Occupancy, Published, Packed
<1>9. WriterInv /\ DramInv
  <2>1. ~Delivered
    BY <1>2 DEF Delivered
  <2>2. dst = [r \in Row |-> Poison]
    BY DEF Init, AllPoison
  <2> QED
    BY <1>1, <1>2, <2>1, <2>2 DEF WriterInv, DramInv, Row
<1> QED
  BY <1>3, <1>4, <1>5, <1>6, <1>7, <1>8, <1>9 DEF IInv

\* No step of the reader breaks the invariant.
LEMMA ReaderStep ==
    ASSUME IInv, Reader
    PROVE  IInv'
<1> USE ShapeAssumption, CapacityAssumption DEF Thread, Dfb
<1>1. /\ TypeOK /\ ReaderInv /\ ReadInv /\ InputInv /\ UnpackInv /\ MathInv
      /\ DestInv /\ PackInv /\ OutputInv /\ WriterInv /\ DramInv
  BY DEF IInv
<1>2. /\ pc \in [Thread -> Label] /\ row \in [Thread -> Nat]
      /\ col \in [{"unpack", "math"} -> 0 .. Wt]
      /\ pushed \in [Dfb -> Nat] /\ popped \in [Dfb -> Nat]
      /\ ready \in 0 .. DestBanks /\ Ht * Wt \in Nat
  BY <1>1 DEF TypeOK
<1>3. CASE ReserveScaler
  <2>1. /\ pc["reader"] = "reserveScaler"
        /\ pc' = [pc EXCEPT !["reader"] = "fillScaler"]
        /\ UNCHANGED <<dram, buffers, cursors, noc, registers, row, col>>
    BY <1>3 DEF ReserveScaler, At, Goto
  <2>3. TypeOK'
    BY <1>1, <1>2, <2>1 DEF TypeOK, Label, dram, buffers, cursors, noc,
       registers, control
  <2>4. ReaderInv' /\ ReadInv'
    BY <1>1, <1>2, <2>1 DEF ReaderInv, BeforeScaler, HasRoom, Occupancy,
       Entries, ReadInv, InBack, dram, buffers, cursors, noc, registers,
       control
  <2>5. InputInv' /\ UnpackInv'
    BY <1>1, <1>2, <2>1 DEF InputInv, Occupancy, Published, UnpackInv,
       Consumed, HasEntry, dram, buffers, cursors, noc, registers, control
  <2>6. MathInv' /\ DestInv'
    BY <1>1, <1>2, <2>1 DEF MathInv, Unpacked, Consumed, DestInv, Accumulated,
       RowSum, dram, buffers, cursors, noc, registers, control
  <2>7. PackInv'
    BY <1>1, <1>2, <2>1 DEF PackInv, HasRoom, Occupancy, Entries, Packed,
       OutBack, dram, buffers, cursors, noc, registers, control
  <2>8. OutputInv'
    BY <1>1, <1>2, <2>1 DEF OutputInv, Occupancy, Published, dram, buffers,
       cursors, noc, registers, control
  <2>9. WriterInv' /\ DramInv'
    BY <1>1, <1>2, <2>1 DEF WriterInv, HasEntry, Occupancy, OutFront, DramInv,
       Delivered, RowSum, dram, buffers, cursors, noc, registers, control
  <2> QED
    BY <2>3, <2>4, <2>5, <2>6, <2>7, <2>8, <2>9 DEF IInv
<1>4. CASE FillScaler
  <2>1. /\ pc["reader"] = "fillScaler"
        /\ scSlot' = Unit
        /\ pc' = [pc EXCEPT !["reader"] = "pushScaler"]
        /\ UNCHANGED <<dram, inSlot, outSlot, cursors, noc, registers, row, col>>
    BY <1>4 DEF FillScaler, At, Goto
  <2>2. pc' \in [Thread -> Label] /\ scSlot' \in ScalerTile
    BY <1>2, <2>1 DEF Label, ScalerTile
  <2>3. TypeOK'
    BY <1>1, <2>1, <2>2 DEF TypeOK, dram, buffers, cursors, noc, registers,
       control
  <2>4. ReaderInv' /\ ReadInv'
    BY <1>1, <1>2, <2>1 DEF ReaderInv, BeforeScaler, HasRoom, Occupancy,
       Entries, ReadInv, InBack, dram, buffers, cursors, noc, registers,
       control
  <2>5. InputInv' /\ UnpackInv'
    BY <1>1, <1>2, <2>1 DEF InputInv, Occupancy, Published, UnpackInv,
       Consumed, HasEntry, dram, buffers, cursors, noc, registers, control
  <2>6. MathInv' /\ DestInv'
    BY <1>1, <1>2, <2>1 DEF MathInv, Unpacked, Consumed, DestInv, Accumulated,
       RowSum, dram, buffers, cursors, noc, registers, control
  <2>7. PackInv'
    BY <1>1, <1>2, <2>1 DEF PackInv, HasRoom, Occupancy, Entries, Packed,
       OutBack, dram, buffers, cursors, noc, registers, control
  <2>8. OutputInv'
    BY <1>1, <1>2, <2>1 DEF OutputInv, Occupancy, Published, dram, buffers,
       cursors, noc, registers, control
  <2>9. WriterInv' /\ DramInv'
    BY <1>1, <1>2, <2>1 DEF WriterInv, HasEntry, Occupancy, OutFront, DramInv,
       Delivered, RowSum, dram, buffers, cursors, noc, registers, control
  <2> QED
    BY <2>3, <2>4, <2>5, <2>6, <2>7, <2>8, <2>9 DEF IInv
<1>5. CASE PushScaler
  <2>1. /\ pc["reader"] = "pushScaler"
        /\ pushed' = [pushed EXCEPT !["scaler"] = pushed["scaler"] + 1]
        /\ pc' = [pc EXCEPT !["reader"] = "reserve"]
        /\ UNCHANGED <<dram, buffers, popped, noc, registers, row, col>>
    BY <1>5 DEF PushScaler, At, Goto, PushBack
  <2>2. pc' \in [Thread -> Label] /\ pushed' \in [Dfb -> Nat]
    BY <1>2, <2>1 DEF Label
  <2>3. TypeOK'
    BY <1>1, <2>1, <2>2 DEF TypeOK, dram, buffers, cursors, noc, registers,
       control
  <2>4. ReaderInv' /\ ReadInv'
    BY <1>1, <1>2, <2>1 DEF ReaderInv, BeforeScaler, HasRoom, Occupancy,
       Entries, ReadInv, InBack, dram, buffers, cursors, noc, registers,
       control
  <2>5. UnpackInv'
    BY <1>1, <1>2, <2>1 DEF UnpackInv, ReaderInv, BeforeScaler, Consumed, HasEntry,
       Occupancy
  <2>6. InputInv'
    BY <1>1, <1>2, <2>1 DEF InputInv, Occupancy, Published, dram, buffers,
       cursors, noc, registers, control
  <2>7. MathInv' /\ DestInv'
    BY <1>1, <1>2, <2>1 DEF MathInv, Unpacked, Consumed, DestInv, Accumulated,
       RowSum, dram, buffers, cursors, noc, registers, control
  <2>8. PackInv'
    BY <1>1, <1>2, <2>1 DEF PackInv, HasRoom, Occupancy, Entries, Packed,
       OutBack, dram, buffers, cursors, noc, registers, control
  <2>9. OutputInv'
    BY <1>1, <1>2, <2>1 DEF OutputInv, Occupancy, Published, dram, buffers,
       cursors, noc, registers, control
  <2>10. WriterInv' /\ DramInv'
    BY <1>1, <1>2, <2>1 DEF WriterInv, HasEntry, Occupancy, OutFront, DramInv,
       Delivered, RowSum, dram, buffers, cursors, noc, registers, control
  <2> QED
    BY <2>3, <2>4, <2>5, <2>6, <2>7, <2>8, <2>9, <2>10 DEF IInv
<1>6. CASE ReserveInput
  <2>1. /\ pc["reader"] = "reserve"
        /\ HasRoom("input")
        /\ pc' = [pc EXCEPT !["reader"] = "read"]
        /\ UNCHANGED <<dram, buffers, cursors, noc, registers, row, col>>
    BY <1>6 DEF ReserveInput, At, Goto
  <2>3. TypeOK'
    BY <1>1, <1>2, <2>1 DEF TypeOK, Label, dram, buffers, cursors, noc,
       registers, control
  <2>4. ReaderInv' /\ ReadInv'
    BY <1>1, <1>2, <2>1 DEF ReaderInv, BeforeScaler, HasRoom, Occupancy,
       Entries, ReadInv, InBack, dram, buffers, cursors, noc, registers,
       control
  <2>5. InputInv' /\ UnpackInv'
    BY <1>1, <1>2, <2>1 DEF InputInv, Occupancy, Published, UnpackInv,
       Consumed, HasEntry, dram, buffers, cursors, noc, registers, control
  <2>6. MathInv' /\ DestInv'
    BY <1>1, <1>2, <2>1 DEF MathInv, Unpacked, Consumed, DestInv, Accumulated,
       RowSum, dram, buffers, cursors, noc, registers, control
  <2>7. PackInv'
    BY <1>1, <1>2, <2>1 DEF PackInv, HasRoom, Occupancy, Entries, Packed,
       OutBack, dram, buffers, cursors, noc, registers, control
  <2>8. OutputInv'
    BY <1>1, <1>2, <2>1 DEF OutputInv, Occupancy, Published, dram, buffers,
       cursors, noc, registers, control
  <2>9. WriterInv' /\ DramInv'
    BY <1>1, <1>2, <2>1 DEF WriterInv, HasEntry, Occupancy, OutFront, DramInv,
       Delivered, RowSum, dram, buffers, cursors, noc, registers, control
  <2> QED
    BY <2>3, <2>4, <2>5, <2>6, <2>7, <2>8, <2>9 DEF IInv
<1>7. CASE IssueRead
  <2>1. /\ pc["reader"] = "read"
        /\ reads' = reads \cup {[page |-> row["reader"], slot |-> InBack]}
        /\ pc' = [pc EXCEPT !["reader"] = "barrier"]
        /\ UNCHANGED <<dram, buffers, cursors, writes, registers, row, col>>
    BY <1>7 DEF IssueRead, At, Goto
  <2>21. reads \subseteq [page : Page, slot : 0 .. InputEntries - 1]
    BY <1>1 DEF TypeOK
  <2>22. row["reader"] \in Page /\ InBack \in 0 .. InputEntries - 1
    <3>1. pushed["input"] % InputEntries \in 0 .. InputEntries - 1
      BY <1>2, Euclid
    <3>2. row["reader"] \in 0 .. Ht * Wt - 1
      BY <1>1, <1>2, <2>1 DEF ReaderInv
    <3> QED
      BY <3>1, <3>2 DEF Page, InBack
  <2>2. pc' \in [Thread -> Label] /\ reads' \subseteq [page : Page, slot : 0 .. InputEntries - 1]
    BY <1>2, <2>1, <2>21, <2>22 DEF Label
  <2>3. TypeOK'
    BY <1>1, <2>1, <2>2 DEF TypeOK, dram, buffers, cursors, noc, registers,
       control
  <2>4. ReaderInv' /\ ReadInv'
    BY <1>1, <1>2, <2>1 DEF ReaderInv, BeforeScaler, HasRoom, Occupancy,
       Entries, ReadInv, InBack, dram, buffers, cursors, noc, registers,
       control
  <2>5. InputInv' /\ UnpackInv'
    BY <1>1, <1>2, <2>1 DEF InputInv, Occupancy, Published, UnpackInv,
       Consumed, HasEntry, dram, buffers, cursors, noc, registers, control
  <2>6. MathInv' /\ DestInv'
    BY <1>1, <1>2, <2>1 DEF MathInv, Unpacked, Consumed, DestInv, Accumulated,
       RowSum, dram, buffers, cursors, noc, registers, control
  <2>7. PackInv'
    BY <1>1, <1>2, <2>1 DEF PackInv, HasRoom, Occupancy, Entries, Packed,
       OutBack, dram, buffers, cursors, noc, registers, control
  <2>8. OutputInv'
    BY <1>1, <1>2, <2>1 DEF OutputInv, Occupancy, Published, dram, buffers,
       cursors, noc, registers, control
  <2>9. WriterInv' /\ DramInv'
    BY <1>1, <1>2, <2>1 DEF WriterInv, HasEntry, Occupancy, OutFront, DramInv,
       Delivered, RowSum, dram, buffers, cursors, noc, registers, control
  <2> QED
    BY <2>3, <2>4, <2>5, <2>6, <2>7, <2>8, <2>9 DEF IInv
<1>8. CASE ReadBarrier
  <2>1. /\ pc["reader"] = "barrier"
        /\ reads = {}
        /\ pc' = [pc EXCEPT !["reader"] = "push"]
        /\ UNCHANGED <<dram, buffers, cursors, noc, registers, row, col>>
    BY <1>8 DEF ReadBarrier, At, Goto
  <2>3. TypeOK'
    BY <1>1, <1>2, <2>1 DEF TypeOK, Label, dram, buffers, cursors, noc,
       registers, control
  <2>4. ReaderInv' /\ ReadInv'
    BY <1>1, <1>2, <2>1 DEF ReaderInv, BeforeScaler, HasRoom, Occupancy,
       Entries, ReadInv, InBack, dram, buffers, cursors, noc, registers,
       control
  <2>5. InputInv' /\ UnpackInv'
    BY <1>1, <1>2, <2>1 DEF InputInv, Occupancy, Published, UnpackInv,
       Consumed, HasEntry, dram, buffers, cursors, noc, registers, control
  <2>6. MathInv' /\ DestInv'
    BY <1>1, <1>2, <2>1 DEF MathInv, Unpacked, Consumed, DestInv, Accumulated,
       RowSum, dram, buffers, cursors, noc, registers, control
  <2>7. PackInv'
    BY <1>1, <1>2, <2>1 DEF PackInv, HasRoom, Occupancy, Entries, Packed,
       OutBack, dram, buffers, cursors, noc, registers, control
  <2>8. OutputInv'
    BY <1>1, <1>2, <2>1 DEF OutputInv, Occupancy, Published, dram, buffers,
       cursors, noc, registers, control
  <2>9. WriterInv' /\ DramInv'
    BY <1>1, <1>2, <2>1 DEF WriterInv, HasEntry, Occupancy, OutFront, DramInv,
       Delivered, RowSum, dram, buffers, cursors, noc, registers, control
  <2> QED
    BY <2>3, <2>4, <2>5, <2>6, <2>7, <2>8, <2>9 DEF IInv
<1>9. CASE PushInput
  <2>1. /\ pc["reader"] = "push"
        /\ pc' = [pc EXCEPT !["reader"] =
                       IF row["reader"] + 1 < Ht * Wt THEN "reserve" ELSE "done"]
        /\ row' = [row EXCEPT !["reader"] = row["reader"] + 1]
        /\ pushed' = [pushed EXCEPT !["input"] = pushed["input"] + 1]
        /\ UNCHANGED <<dram, buffers, popped, noc, registers, col>>
    BY <1>9 DEF PushInput, At, NextRound, PushBack, ReaderTiles
  <2>2. /\ pc' \in [Thread -> Label] /\ row' \in [Thread -> Nat]
        /\ pushed' \in [Dfb -> Nat]
    BY <1>2, <2>1 DEF Label
  <2>3. TypeOK'
    BY <1>1, <2>1, <2>2 DEF TypeOK, dram, buffers, cursors, noc, registers,
       control
  <2>4. ReaderInv' /\ ReadInv'
    BY <1>1, <1>2, <2>1 DEF ReaderInv, BeforeScaler, HasRoom, Occupancy,
       Entries, ReadInv, InBack, dram, buffers, cursors, noc, registers,
       control
  <2>5. InputInv'
    <3>1. /\ Occupancy("input")' = Occupancy("input") + 1
          /\ Published("input")' = Published("input") \cup {pushed["input"]}
      BY <1>1, <1>2, <2>1 DEF Occupancy, Published, InputInv
    <3>2. inSlot[pushed["input"] % InputEntries] = src[pushed["input"]]
      BY <1>1, <2>1 DEF ReadInv, InBack, ReaderInv
    <3>3. Occupancy("input") \in 0 .. InputEntries - 1
      BY <1>1, <1>2, <2>1 DEF InputInv, ReaderInv, HasRoom, Entries, Occupancy
    <3> QED
      BY <1>1, <2>1, <3>1, <3>2, <3>3 DEF InputInv, dram, buffers
  <2>6. UnpackInv'
    BY <1>1, <1>2, <2>1 DEF UnpackInv, Consumed, HasEntry, Occupancy, dram,
       buffers, cursors, noc, registers, control
  <2>7. MathInv' /\ DestInv'
    BY <1>1, <1>2, <2>1 DEF MathInv, Unpacked, Consumed, DestInv, Accumulated,
       RowSum, dram, buffers, cursors, noc, registers, control
  <2>8. PackInv'
    BY <1>1, <1>2, <2>1 DEF PackInv, HasRoom, Occupancy, Entries, Packed,
       OutBack, dram, buffers, cursors, noc, registers, control
  <2>9. OutputInv'
    BY <1>1, <1>2, <2>1 DEF OutputInv, Occupancy, Published, dram, buffers,
       cursors, noc, registers, control
  <2>10. WriterInv' /\ DramInv'
    BY <1>1, <1>2, <2>1 DEF WriterInv, HasEntry, Occupancy, OutFront, DramInv,
       Delivered, RowSum, dram, buffers, cursors, noc, registers, control
  <2> QED
    BY <2>3, <2>4, <2>5, <2>6, <2>7, <2>8, <2>9, <2>10 DEF IInv
<1> QED
  BY <1>3, <1>4, <1>5, <1>6, <1>7, <1>8, <1>9 DEF Reader

\* No step of the unpack thread breaks the invariant.
LEMMA UnpackStep ==
    ASSUME IInv, Unpack
    PROVE  IInv'
<1> USE ShapeAssumption, CapacityAssumption DEF Thread, Dfb
<1>1. /\ TypeOK /\ ReaderInv /\ ReadInv /\ InputInv /\ UnpackInv /\ MathInv
      /\ DestInv /\ PackInv /\ OutputInv /\ WriterInv /\ DramInv
  BY DEF IInv
<1>2. /\ pc \in [Thread -> Label] /\ row \in [Thread -> Nat]
      /\ col \in [{"unpack", "math"} -> 0 .. Wt]
      /\ pushed \in [Dfb -> Nat] /\ popped \in [Dfb -> Nat]
      /\ ready \in 0 .. DestBanks /\ Ht * Wt \in Nat
  BY <1>1 DEF TypeOK
<1>3. CASE WaitScaler
  <2>1. /\ pc["unpack"] = "waitScaler"
        /\ HasEntry("scaler")
        /\ pc' = [pc EXCEPT !["unpack"] = "wait"]
        /\ UNCHANGED <<dram, buffers, cursors, noc, registers, row, col>>
    BY <1>3 DEF WaitScaler, At, Goto
  <2>3. TypeOK'
    BY <1>1, <1>2, <2>1 DEF TypeOK, Label, dram, buffers, cursors, noc,
       registers, control
  <2>4. ReaderInv' /\ ReadInv'
    BY <1>1, <1>2, <2>1 DEF ReaderInv, BeforeScaler, HasRoom, Occupancy,
       Entries, ReadInv, InBack, dram, buffers, cursors, noc, registers,
       control
  <2>5. UnpackInv'
    BY <1>1, <1>2, <2>1 DEF UnpackInv, ReaderInv, BeforeScaler, Consumed, HasEntry,
       Occupancy, cursors
  <2>6. InputInv'
    BY <1>1, <1>2, <2>1 DEF InputInv, Occupancy, Published, dram, buffers,
       cursors, noc, registers, control
  <2>7. MathInv' /\ DestInv'
    BY <1>1, <1>2, <2>1 DEF MathInv, Unpacked, Consumed, DestInv, Accumulated,
       RowSum, dram, buffers, cursors, noc, registers, control
  <2>8. PackInv'
    BY <1>1, <1>2, <2>1 DEF PackInv, HasRoom, Occupancy, Entries, Packed,
       OutBack, dram, buffers, cursors, noc, registers, control
  <2>9. OutputInv'
    BY <1>1, <1>2, <2>1 DEF OutputInv, Occupancy, Published, dram, buffers,
       cursors, noc, registers, control
  <2>10. WriterInv' /\ DramInv'
    BY <1>1, <1>2, <2>1 DEF WriterInv, HasEntry, Occupancy, OutFront, DramInv,
       Delivered, RowSum, dram, buffers, cursors, noc, registers, control
  <2> QED
    BY <2>3, <2>4, <2>5, <2>6, <2>7, <2>8, <2>9, <2>10 DEF IInv
<1>4. CASE WaitInput
  <2>1. /\ pc["unpack"] = "wait"
        /\ HasEntry("input")
        /\ pc' = [pc EXCEPT !["unpack"] = "reduce"]
        /\ UNCHANGED <<dram, buffers, cursors, noc, registers, row, col>>
    BY <1>4 DEF WaitInput, At, Goto
  <2>3. TypeOK'
    BY <1>1, <1>2, <2>1 DEF TypeOK, Label, dram, buffers, cursors, noc,
       registers, control
  <2>4. ReaderInv' /\ ReadInv'
    BY <1>1, <1>2, <2>1 DEF ReaderInv, BeforeScaler, HasRoom, Occupancy,
       Entries, ReadInv, InBack, dram, buffers, cursors, noc, registers,
       control
  <2>5. InputInv' /\ UnpackInv'
    BY <1>1, <1>2, <2>1 DEF InputInv, Occupancy, Published, UnpackInv,
       Consumed, HasEntry, dram, buffers, cursors, noc, registers, control
  <2>6. MathInv' /\ DestInv'
    BY <1>1, <1>2, <2>1 DEF MathInv, Unpacked, Consumed, DestInv, Accumulated,
       RowSum, dram, buffers, cursors, noc, registers, control
  <2>7. PackInv'
    BY <1>1, <1>2, <2>1 DEF PackInv, HasRoom, Occupancy, Entries, Packed,
       OutBack, dram, buffers, cursors, noc, registers, control
  <2>8. OutputInv'
    BY <1>1, <1>2, <2>1 DEF OutputInv, Occupancy, Published, dram, buffers,
       cursors, noc, registers, control
  <2>9. WriterInv' /\ DramInv'
    BY <1>1, <1>2, <2>1 DEF WriterInv, HasEntry, Occupancy, OutFront, DramInv,
       Delivered, RowSum, dram, buffers, cursors, noc, registers, control
  <2> QED
    BY <2>3, <2>4, <2>5, <2>6, <2>7, <2>8, <2>9 DEF IInv
<1>5. CASE UnpackTile
  <2>1. /\ pc["unpack"] = "reduce"
        /\ srcRegs' = Append(srcRegs, Product(scSlot, inSlot[InFront]))
        /\ pc' = [pc EXCEPT !["unpack"] = "pop"]
        /\ UNCHANGED <<dram, buffers, cursors, noc, dest, ready, row, col>>
    BY <1>5 DEF UnpackTile, At, Goto
  <2>20. srcRegs \in Seq(Tile)
    BY <1>1 DEF TypeOK
  <2>21. Product(scSlot, inSlot[InFront]) = src[Consumed("unpack")]
    <3>1. scSlot = Unit
      BY <1>1, <2>1 DEF UnpackInv, ReaderInv, BeforeScaler
    <3>2. popped["input"] \in Published("input")
      BY <1>1, <1>2, <2>1 DEF UnpackInv, HasEntry, Occupancy, Published
    <3> QED
      BY <1>1, <3>1, <3>2 DEF InputInv, InFront, Product, UnpackInv
  <2>22. Product(scSlot, inSlot[InFront]) \in Tile
    <3>1. InFront \in 0 .. InputEntries - 1
      BY <1>2, Euclid DEF InFront
    <3> QED
      BY <1>1, <3>1 DEF TypeOK, Product, Tile
  <2>2. pc' \in [Thread -> Label] /\ srcRegs' \in Seq(Tile)
    BY <1>2, <2>1, <2>20, <2>22 DEF Label
  <2>3. TypeOK'
    BY <1>1, <2>1, <2>2 DEF TypeOK, dram, buffers, cursors, noc, registers,
       control
  <2>4. ReaderInv' /\ ReadInv'
    BY <1>1, <1>2, <2>1 DEF ReaderInv, BeforeScaler, HasRoom, Occupancy,
       Entries, ReadInv, InBack, dram, buffers, cursors, noc, registers,
       control
  <2>5. InputInv' /\ UnpackInv'
    BY <1>1, <1>2, <2>1 DEF InputInv, Occupancy, Published, UnpackInv,
       Consumed, HasEntry, dram, buffers, cursors, noc, registers, control
  <2>6. MathInv'
    <3>1. /\ Len(srcRegs') = Len(srcRegs) + 1
          /\ \A i \in 1 .. Len(srcRegs) : srcRegs'[i] = srcRegs[i]
          /\ srcRegs'[Len(srcRegs) + 1] = src[Consumed("unpack")]
      BY <2>20, <2>1, <2>21, <2>22
    <3>6. row["math"] * Wt \in Nat /\ row["unpack"] * Wt \in Nat
      BY <1>2, NextRowStart
    <3>2. /\ Consumed("math")' = Consumed("math")
          /\ Consumed("unpack")' = Consumed("unpack")
          /\ Consumed("math") \in Nat /\ Consumed("unpack") \in Nat
      <4>1. row' = row /\ col' = col /\ col["math"] \in Nat /\ col["unpack"] \in Nat
        BY <1>2, <2>1
      <4> QED
        BY <3>6, <4>1 DEF Consumed
    <3>7. Unpacked' = Consumed("unpack") + 1 /\ Unpacked = Consumed("unpack")
      BY <1>2, <2>1, <3>2 DEF Unpacked
    <3>3. Len(srcRegs) \in Nat
      BY <2>20
    <3>4. Consumed("math") + Len(srcRegs') = Unpacked'
      BY <1>1, <3>1, <3>2, <3>3, <3>7 DEF MathInv
    <3>5. ASSUME NEW i \in 1 .. Len(srcRegs')
          PROVE  srcRegs'[i] = src[Consumed("math") + i - 1]
      <4>1. CASE i \in 1 .. Len(srcRegs)
        BY <1>1, <3>1, <4>1 DEF MathInv
      <4>2. CASE i = Len(srcRegs) + 1
        <5>1. Consumed("math") + i - 1 = Consumed("unpack")
          BY <1>1, <3>2, <3>3, <3>7, <4>2 DEF MathInv
        <5> QED
          BY <3>1, <4>2, <5>1
      <4> QED
        BY <3>1, <3>3, <4>1, <4>2
    <3> QED
      BY <1>1, <1>2, <2>1, <3>2, <3>4, <3>5 DEF MathInv, dram
  <2>7. DestInv'
    BY <1>1, <1>2, <2>1 DEF DestInv, Accumulated, RowSum, dram, buffers,
       cursors, noc, registers, control
  <2>8. PackInv'
    BY <1>1, <1>2, <2>1 DEF PackInv, HasRoom, Occupancy, Entries, Packed,
       OutBack, dram, buffers, cursors, noc, registers, control
  <2>9. OutputInv'
    BY <1>1, <1>2, <2>1 DEF OutputInv, Occupancy, Published, dram, buffers,
       cursors, noc, registers, control
  <2>10. WriterInv' /\ DramInv'
    BY <1>1, <1>2, <2>1 DEF WriterInv, HasEntry, Occupancy, OutFront, DramInv,
       Delivered, RowSum, dram, buffers, cursors, noc, registers, control
  <2> QED
    BY <2>3, <2>4, <2>5, <2>6, <2>7, <2>8, <2>9, <2>10 DEF IInv
<1>6. CASE PopInput
  <2>1. /\ pc["unpack"] = "pop"
        /\ popped' = [popped EXCEPT !["input"] = popped["input"] + 1]
        /\ IF col["unpack"] + 1 < Wt
              THEN /\ col' = [col EXCEPT !["unpack"] = col["unpack"] + 1]
                   /\ pc' = [pc EXCEPT !["unpack"] = "wait"]
                   /\ row' = row
              ELSE /\ col' = [col EXCEPT !["unpack"] = 0]
                   /\ row' = [row EXCEPT !["unpack"] = row["unpack"] + 1]
                   /\ pc' = [pc EXCEPT !["unpack"] =
                              IF row["unpack"] + 1 < Ht THEN "wait" ELSE "done"]
        /\ UNCHANGED <<dram, buffers, pushed, noc, registers>>
    BY <1>6 DEF PopInput, At, NextRound, PopFront
  <2>21. /\ pc' \in [Thread -> Label] /\ row' \in [Thread -> Nat]
         /\ col' \in [{"unpack", "math"} -> 0 .. Wt]
         /\ popped' \in [Dfb -> Nat]
    BY <1>2, <2>1 DEF Label
  <2>22. /\ \A t \in Thread \ {"unpack"} : pc'[t] = pc[t] /\ row'[t] = row[t]
         /\ col'["math"] = col["math"] /\ popped'["input"] = popped["input"] + 1
         /\ popped'["scaler"] = popped["scaler"] /\ popped'["output"] = popped["output"]
    BY <1>2, <2>1
  <2>23. /\ Consumed("unpack")' = Consumed("unpack") + 1
         /\ Unpacked' = Consumed("unpack") + 1 /\ Unpacked = Consumed("unpack") + 1
         /\ Consumed("math")' = Consumed("math")
    <3>1. (row["unpack"] + 1) * Wt = row["unpack"] * Wt + Wt
      BY <1>2, NextRowStart
    <3>2. col["unpack"] \in 0 .. Wt - 1
      BY <1>1 DEF UnpackInv
    <3>3. Consumed("unpack")' = Consumed("unpack") + 1 /\ pc'["unpack"] # "pop"
      BY <1>2, <2>1, <3>1, <3>2 DEF Consumed
    <3> QED
      BY <1>2, <2>1, <2>22, <3>3 DEF Consumed, Unpacked
  <2>2. /\ pc' \in [Thread -> Label] /\ row' \in [Thread -> Nat]
        /\ col' \in [{"unpack", "math"} -> 0 .. Wt]
        /\ popped' \in [Dfb -> Nat]
    BY <1>2, <2>1, <2>21
  <2>3. TypeOK'
    BY <1>1, <2>1, <2>2 DEF TypeOK, dram, buffers, cursors, noc, registers,
       control
  <2>4. ReaderInv'
    BY <1>1, <1>2, <2>1, <2>21, <2>22 DEF ReaderInv, BeforeScaler, HasRoom, Occupancy, Entries, buffers
  <2>5. ReadInv'
    BY <1>1, <1>2, <2>1, <2>21, <2>22 DEF ReadInv, InBack, dram, buffers, noc
  <2>6. InputInv'
    <3>1. Occupancy("input") > 0
      BY <1>1, <2>1 DEF UnpackInv, HasEntry
    <3> QED
      BY <1>1, <1>2, <2>1, <2>21, <2>22, <3>1 DEF InputInv, Occupancy, Published, dram, buffers
  <2>7. UnpackInv'
    <3>1. popped'["input"] = Consumed("unpack")'
      BY <1>1, <2>22, <2>23 DEF UnpackInv
    <3>2. /\ pc'["unpack"] \in {"wait", "done"} /\ row'["unpack"] \in 0 .. Ht
          /\ pc'["unpack"] = "done" <=> row'["unpack"] = Ht
          /\ col'["unpack"] \in 0 .. Wt - 1
      BY <1>1, <1>2, <2>1 DEF UnpackInv
    <3> QED
      BY <1>1, <2>1, <3>1, <3>2 DEF UnpackInv
  <2>8. MathInv'
    BY <1>1, <1>2, <2>1, <2>21, <2>22, <2>23 DEF MathInv, dram, registers
  <2>9. DestInv'
    BY <1>1, <1>2, <2>1, <2>21, <2>22 DEF DestInv, Accumulated, RowSum, dram, registers
  <2>10. PackInv'
    BY <1>1, <1>2, <2>1, <2>21, <2>22 DEF PackInv, HasRoom, Occupancy, Entries, Packed, OutBack,
       dram, buffers, registers
  <2>11. OutputInv'
    BY <1>1, <1>2, <2>1, <2>21, <2>22 DEF OutputInv, Occupancy, Published, dram, buffers
  <2>12. WriterInv'
    BY <1>1, <1>2, <2>1, <2>21, <2>22 DEF WriterInv, HasEntry, Occupancy, OutFront, noc
  <2>13. DramInv'
    BY <1>1, <1>2, <2>1, <2>21, <2>22 DEF DramInv, Delivered, RowSum, dram, noc
  <2> QED
    BY <2>3, <2>4, <2>5, <2>6, <2>7, <2>8, <2>9, <2>10, <2>11, <2>12, <2>13
       DEF IInv
<1> QED
  BY <1>3, <1>4, <1>5, <1>6 DEF Unpack

\* No step of the math thread breaks the invariant.
LEMMA MathStep ==
    ASSUME IInv, Math
    PROVE  IInv'
<1> USE ShapeAssumption, CapacityAssumption DEF Thread, Dfb
<1>1. /\ TypeOK /\ ReaderInv /\ ReadInv /\ InputInv /\ UnpackInv /\ MathInv
      /\ DestInv /\ PackInv /\ OutputInv /\ WriterInv /\ DramInv
  BY DEF IInv
<1>2. /\ pc \in [Thread -> Label] /\ row \in [Thread -> Nat]
      /\ col \in [{"unpack", "math"} -> 0 .. Wt]
      /\ pushed \in [Dfb -> Nat] /\ popped \in [Dfb -> Nat]
      /\ ready \in 0 .. DestBanks /\ Ht * Wt \in Nat
  BY <1>1 DEF TypeOK
<1>3. CASE Acquire
  <2>1. /\ pc["math"] = "acquire"
        /\ ready < DestBanks
        /\ pc' = [pc EXCEPT !["math"] = "reduce"]
        /\ UNCHANGED <<dram, buffers, cursors, noc, registers, row, col>>
    BY <1>3 DEF Acquire, At, Goto
  <2>3. TypeOK'
    BY <1>1, <1>2, <2>1 DEF TypeOK, Label, dram, buffers, cursors, noc,
       registers, control
  <2>4. ReaderInv' /\ ReadInv'
    BY <1>1, <1>2, <2>1 DEF ReaderInv, BeforeScaler, HasRoom, Occupancy,
       Entries, ReadInv, InBack, dram, buffers, cursors, noc, registers,
       control
  <2>5. InputInv' /\ UnpackInv'
    BY <1>1, <1>2, <2>1 DEF InputInv, Occupancy, Published, UnpackInv,
       Consumed, HasEntry, dram, buffers, cursors, noc, registers, control
  <2>6. MathInv' /\ DestInv'
    BY <1>1, <1>2, <2>1 DEF MathInv, Unpacked, Consumed, DestInv, Accumulated,
       RowSum, dram, buffers, cursors, noc, registers, control
  <2>7. PackInv'
    BY <1>1, <1>2, <2>1 DEF PackInv, HasRoom, Occupancy, Entries, Packed,
       OutBack, dram, buffers, cursors, noc, registers, control
  <2>8. OutputInv'
    BY <1>1, <1>2, <2>1 DEF OutputInv, Occupancy, Published, dram, buffers,
       cursors, noc, registers, control
  <2>9. WriterInv' /\ DramInv'
    BY <1>1, <1>2, <2>1 DEF WriterInv, HasEntry, Occupancy, OutFront, DramInv,
       Delivered, RowSum, dram, buffers, cursors, noc, registers, control
  <2> QED
    BY <2>3, <2>4, <2>5, <2>6, <2>7, <2>8, <2>9 DEF IInv
<1>4. CASE ReduceTile
  <2>1. /\ pc["math"] = "reduce"
        /\ srcRegs # << >>
        /\ dest' = [dest EXCEPT ![Bank("math")] =
                        Append(dest[Bank("math")], Head(srcRegs))]
        /\ srcRegs' = Tail(srcRegs)
        /\ col' = [col EXCEPT !["math"] = col["math"] + 1]
        /\ pc' = [pc EXCEPT !["math"] =
                      IF col["math"] + 1 < Wt THEN "reduce" ELSE "commit"]
        /\ UNCHANGED <<dram, buffers, cursors, noc, ready, row>>
    BY <1>4 DEF ReduceTile, At
  <2>20. srcRegs \in Seq(Tile) /\ dest \in [0 .. DestBanks - 1 -> Sum]
    BY <1>1 DEF TypeOK
  <2>21. Bank("math") \in 0 .. DestBanks - 1
    BY <1>2, Euclid DEF Bank
  <2>22. /\ pc'["math"] \in {"reduce", "commit"}
         /\ col["math"] \in 0 .. Wt - 1 /\ col'["math"] = col["math"] + 1
         /\ col'["unpack"] = col["unpack"]
         /\ \A t \in Thread \ {"math"} : pc'[t] = pc[t]
    BY <1>1, <1>2, <2>1 DEF MathInv
  <2>23. /\ Head(srcRegs) \in Tile /\ Head(srcRegs) = srcRegs[1]
         /\ Len(srcRegs) \in Nat \ {0} /\ srcRegs' \in Seq(Tile)
         /\ Len(srcRegs') = Len(srcRegs) - 1
         /\ \A i \in 1 .. Len(srcRegs) - 1 : srcRegs'[i] = srcRegs[i + 1]
    BY <2>20, <2>1
  <2>24. dest'[Bank("math")] = Append(dest[Bank("math")], Head(srcRegs))
         /\ \A k \in 0 .. DestBanks - 1 : k # Bank("math") => dest'[k] = dest[k]
    BY <2>20, <2>1, <2>21
  <2>25. dest' \in [0 .. DestBanks - 1 -> Sum]
    <3>1. Append(dest[Bank("math")], Head(srcRegs)) \in Sum
      BY <2>20, <2>21, <2>23 DEF Sum
    <3> QED
      BY <2>1, <2>20, <2>21, <3>1
  <2>27. pc' \in [Thread -> Label] /\ col' \in [{"unpack", "math"} -> 0 .. Wt]
    <3>1. col' = [col EXCEPT !["math"] = col["math"] + 1] /\ col["math"] + 1 \in 0 .. Wt
      BY <1>2, <2>1, <2>22
    <3>2. pc' = [pc EXCEPT !["math"] = pc'["math"]] /\ pc'["math"] \in Label
      BY <1>2, <2>1, <2>22 DEF Label
    <3> QED
      BY <1>2, <3>1, <3>2
  <2>26. ready = row["math"] - row["pack"] /\ ready < DestBanks
    BY <1>1, <2>1 DEF DestInv
  <2>2. /\ pc' \in [Thread -> Label] /\ col' \in [{"unpack", "math"} -> 0 .. Wt]
        /\ srcRegs' \in Seq(Tile) /\ dest' \in [0 .. DestBanks - 1 -> Sum]
    BY <1>2, <2>1, <2>23, <2>25, <2>27
  <2>3. TypeOK'
    BY <1>1, <2>1, <2>2 DEF TypeOK, dram, buffers, cursors, noc, registers,
       control
  <2>4. ReaderInv' /\ ReadInv'
    BY <1>1, <1>2, <2>1 DEF ReaderInv, BeforeScaler, HasRoom, Occupancy,
       Entries, ReadInv, InBack, dram, buffers, cursors, noc, registers,
       control
  <2>5. InputInv' /\ UnpackInv'
    BY <1>1, <1>2, <2>1 DEF InputInv, Occupancy, Published, UnpackInv,
       Consumed, HasEntry, dram, buffers, cursors, noc, registers, control
  <2>6. MathInv'
    <3>1. row["math"] * Wt \in Nat /\ row["unpack"] * Wt \in Nat
      BY <1>2, NextRowStart
    <3>6. /\ Consumed("math")' = Consumed("math") + 1 /\ Consumed("math") \in Nat
          /\ Consumed("unpack")' = Consumed("unpack") /\ Consumed("unpack") \in Nat
      <4>1. row' = row /\ col["math"] \in Nat /\ col["unpack"] \in Nat
        BY <1>2, <2>1
      <4> QED
        BY <2>22, <3>1, <4>1 DEF Consumed
    <3>7. Unpacked' = Unpacked /\ Unpacked \in Nat
      BY <1>2, <2>22, <3>6 DEF Unpacked
    <3>2. /\ Consumed("math")' = Consumed("math") + 1 /\ Consumed("math") \in Nat
          /\ Unpacked' = Unpacked /\ Unpacked \in Nat
      BY <3>6, <3>7
    <3>3. ASSUME NEW i \in 1 .. Len(srcRegs')
          PROVE  srcRegs'[i] = src[Consumed("math") + 1 + i - 1]
      BY <1>1, <2>23, <3>2 DEF MathInv
    <3>4. Consumed("math")' + Len(srcRegs') = Unpacked'
      BY <1>1, <2>23, <3>2 DEF MathInv
    <3>5. /\ pc'["math"] \in {"acquire", "reduce", "commit", "done"}
          /\ row'["math"] \in 0 .. Ht
          /\ pc'["math"] = "done" <=> row'["math"] = Ht
          /\ col'["math"] = Wt <=> pc'["math"] = "commit"
          /\ pc'["math"] \in {"acquire", "done"} => col'["math"] = 0
      BY <1>1, <1>2, <2>1, <2>22 DEF MathInv
    <3> QED
      BY <2>1, <3>2, <3>3, <3>4, <3>5 DEF MathInv, dram
  <2>7. DestInv'
    <3>1. row["math"] \in row["pack"] .. row["pack"] + DestBanks - 1
      BY <1>2, <2>26
    <3>2. /\ dest[Bank("math")] = [c \in 1 .. col["math"] |-> src[row["math"] * Wt + c - 1]]
          /\ Head(srcRegs) = src[row["math"] * Wt + col["math"]]
      <4>1. dest[Bank("math")] = Accumulated(row["math"])
        BY <1>1, <3>1 DEF DestInv, Bank
      <4>2. Accumulated(row["math"]) = [c \in 1 .. col["math"] |-> src[row["math"] * Wt + c - 1]]
        BY <1>2 DEF Accumulated
      <4>3. row["math"] * Wt \in Nat
        BY <1>2, NextRowStart
      <4>4. Head(srcRegs) = src[Consumed("math") + 1 - 1]
        BY <1>1, <2>23 DEF MathInv
      <4> QED
        BY <2>22, <4>1, <4>2, <4>3, <4>4 DEF Consumed
    <3>3. dest'[Bank("math")] = [c \in 1 .. col["math"] + 1 |-> src[row["math"] * Wt + c - 1]]
      BY <2>22, <2>24, <3>2
    <3>4. ASSUME NEW r \in row["pack"] .. row["pack"] + DestBanks - 1, r # row["math"]
          PROVE  dest'[r % DestBanks] = dest[r % DestBanks]
      <4>1. r % DestBanks # Bank("math") /\ r % DestBanks \in 0 .. DestBanks - 1
        <5>1. r \in Nat /\ row["math"] \in Nat /\ row["pack"] \in Nat
          BY <1>2
        <5>2. CASE r < row["math"]
          <6>1. row["math"] < r + DestBanks
            BY <3>1, <3>4, <5>1
          <6> QED
            BY <5>1, <5>2, <6>1, RingInjective DEF Bank
        <5>3. CASE row["math"] < r
          <6>1. r < row["math"] + DestBanks
            BY <3>1, <3>4, <5>1
          <6> QED
            BY <5>1, <5>3, <6>1, RingInjective DEF Bank
        <5>4. r % DestBanks \in 0 .. DestBanks - 1
          BY <5>1, Euclid
        <5> QED
          BY <3>4, <5>1, <5>2, <5>3, <5>4
      <4> QED
        BY <2>24, <4>1
    <3>5. ASSUME NEW r \in row["pack"] .. row["pack"] + DestBanks - 1
          PROVE  dest'[r % DestBanks] = Accumulated(r)'
      <4>1. CASE r = row["math"]
        <5>1. src' = src /\ row' = row
          BY <2>1 DEF dram
        <5>2. Accumulated(r)' = [c \in 1 .. col'["math"] |-> src[r * Wt + c - 1]]
          BY <1>2, <4>1, <5>1 DEF Accumulated
        <5> QED
          BY <2>22, <3>3, <4>1, <5>2 DEF Bank
      <4>2. CASE r # row["math"]
        BY <1>1, <2>1, <3>4, <4>2 DEF Accumulated, DestInv, RowSum, dram
      <4> QED
        BY <4>1, <4>2
    <3> QED
      BY <1>1, <1>2, <2>1, <2>22, <3>5 DEF DestInv
  <2>8. PackInv'
    BY <1>1, <1>2, <2>1 DEF PackInv, HasRoom, Occupancy, Entries, Packed,
       OutBack, dram, buffers, cursors, noc, registers, control
  <2>9. OutputInv'
    BY <1>1, <1>2, <2>1 DEF OutputInv, Occupancy, Published, dram, buffers,
       cursors, noc, registers, control
  <2>10. WriterInv' /\ DramInv'
    BY <1>1, <1>2, <2>1 DEF WriterInv, HasEntry, Occupancy, OutFront, DramInv,
       Delivered, RowSum, dram, buffers, cursors, noc, registers, control
  <2> QED
    BY <2>3, <2>4, <2>5, <2>6, <2>7, <2>8, <2>9, <2>10 DEF IInv
<1>5. CASE Commit
  <2>1. /\ pc["math"] = "commit"
        /\ ready' = ready + 1
        /\ col' = [col EXCEPT !["math"] = 0]
        /\ row' = [row EXCEPT !["math"] = row["math"] + 1]
        /\ pc' = [pc EXCEPT !["math"] =
                      IF row["math"] + 1 < Ht THEN "acquire" ELSE "done"]
        /\ UNCHANGED <<dram, buffers, cursors, noc, srcRegs, dest>>
    BY <1>5 DEF Commit, At, NextRound
  <2>21. /\ row'["math"] = row["math"] + 1 /\ col'["math"] = 0 /\ col'["unpack"] = col["unpack"]
         /\ \A t \in Thread \ {"math"} : pc'[t] = pc[t] /\ row'[t] = row[t]
    BY <1>2, <2>1
  <2>2. /\ pc' \in [Thread -> Label] /\ row' \in [Thread -> Nat]
        /\ col' \in [{"unpack", "math"} -> 0 .. Wt] /\ ready' \in 0 .. DestBanks
    BY <1>2, <2>1, <1>1 DEF Label, DestInv
  <2>3. TypeOK'
    BY <1>1, <2>1, <2>2 DEF TypeOK, dram, buffers, cursors, noc, registers,
       control
  <2>4. ReaderInv' /\ ReadInv'
    BY <1>1, <1>2, <2>1 DEF ReaderInv, BeforeScaler, HasRoom, Occupancy,
       Entries, ReadInv, InBack, dram, buffers, cursors, noc, registers,
       control
  <2>5. InputInv' /\ UnpackInv'
    BY <1>1, <1>2, <2>1 DEF InputInv, Occupancy, Published, UnpackInv,
       Consumed, HasEntry, dram, buffers, cursors, noc, registers, control
  <2>6. MathInv'
    <3>1. (row["math"] + 1) * Wt = row["math"] * Wt + Wt /\ row["math"] * Wt \in Nat
          /\ col["math"] = Wt
      BY <1>1, <1>2, <2>1, NextRowStart DEF MathInv
    <3>2. Consumed("math")' = Consumed("math") /\ Unpacked' = Unpacked
      BY <1>2, <2>21, <3>1 DEF Consumed, Unpacked
    <3> QED
      BY <1>1, <1>2, <2>1, <2>21, <3>2 DEF MathInv, dram
  <2>7. DestInv'
    <3>1. col["math"] = Wt
      BY <1>1, <2>1 DEF MathInv
    <3>2. ASSUME NEW r \in row["pack"] .. row["pack"] + DestBanks - 1
          PROVE  Accumulated(r)' = Accumulated(r)
      <4>1. src' = src
        BY <2>1 DEF dram
      <4> QED
        BY <1>2, <2>21, <3>1, <4>1 DEF Accumulated, RowSum
    <3> QED
      BY <1>1, <1>2, <2>1, <2>21, <3>2 DEF DestInv
  <2>8. PackInv'
    BY <1>1, <1>2, <2>1 DEF PackInv, HasRoom, Occupancy, Entries, Packed,
       OutBack, dram, buffers, cursors, noc, registers, control
  <2>9. OutputInv'
    BY <1>1, <1>2, <2>1 DEF OutputInv, Occupancy, Published, dram, buffers,
       cursors, noc, registers, control
  <2>10. WriterInv' /\ DramInv'
    BY <1>1, <1>2, <2>1 DEF WriterInv, HasEntry, Occupancy, OutFront, DramInv,
       Delivered, RowSum, dram, buffers, cursors, noc, registers, control
  <2> QED
    BY <2>3, <2>4, <2>5, <2>6, <2>7, <2>8, <2>9, <2>10 DEF IInv
<1> QED
  BY <1>3, <1>4, <1>5 DEF Math

\* No step of the pack thread breaks the invariant.
LEMMA PackStep ==
    ASSUME IInv, Pack
    PROVE  IInv'
<1> USE ShapeAssumption, CapacityAssumption DEF Thread, Dfb
<1>1. /\ TypeOK /\ ReaderInv /\ ReadInv /\ InputInv /\ UnpackInv /\ MathInv
      /\ DestInv /\ PackInv /\ OutputInv /\ WriterInv /\ DramInv
  BY DEF IInv
<1>2. /\ pc \in [Thread -> Label] /\ row \in [Thread -> Nat]
      /\ col \in [{"unpack", "math"} -> 0 .. Wt]
      /\ pushed \in [Dfb -> Nat] /\ popped \in [Dfb -> Nat]
      /\ ready \in 0 .. DestBanks /\ Ht * Wt \in Nat
  BY <1>1 DEF TypeOK
<1>3. CASE WaitDest
  <2>1. /\ pc["pack"] = "wait"
        /\ ready > 0
        /\ pc' = [pc EXCEPT !["pack"] = "reserve"]
        /\ UNCHANGED <<dram, buffers, cursors, noc, registers, row, col>>
    BY <1>3 DEF WaitDest, At, Goto
  <2>3. TypeOK'
    BY <1>1, <1>2, <2>1 DEF TypeOK, Label, dram, buffers, cursors, noc,
       registers, control
  <2>4. ReaderInv' /\ ReadInv'
    BY <1>1, <1>2, <2>1 DEF ReaderInv, BeforeScaler, HasRoom, Occupancy,
       Entries, ReadInv, InBack, dram, buffers, cursors, noc, registers,
       control
  <2>5. InputInv' /\ UnpackInv'
    BY <1>1, <1>2, <2>1 DEF InputInv, Occupancy, Published, UnpackInv,
       Consumed, HasEntry, dram, buffers, cursors, noc, registers, control
  <2>6. MathInv' /\ DestInv'
    BY <1>1, <1>2, <2>1 DEF MathInv, Unpacked, Consumed, DestInv, Accumulated,
       RowSum, dram, buffers, cursors, noc, registers, control
  <2>7. PackInv'
    BY <1>1, <1>2, <2>1 DEF PackInv, HasRoom, Occupancy, Entries, Packed,
       OutBack, dram, buffers, cursors, noc, registers, control
  <2>8. OutputInv'
    BY <1>1, <1>2, <2>1 DEF OutputInv, Occupancy, Published, dram, buffers,
       cursors, noc, registers, control
  <2>9. WriterInv' /\ DramInv'
    BY <1>1, <1>2, <2>1 DEF WriterInv, HasEntry, Occupancy, OutFront, DramInv,
       Delivered, RowSum, dram, buffers, cursors, noc, registers, control
  <2> QED
    BY <2>3, <2>4, <2>5, <2>6, <2>7, <2>8, <2>9 DEF IInv
<1>4. CASE ReserveOutput
  <2>1. /\ pc["pack"] = "reserve"
        /\ HasRoom("output")
        /\ pc' = [pc EXCEPT !["pack"] = "pack"]
        /\ UNCHANGED <<dram, buffers, cursors, noc, registers, row, col>>
    BY <1>4 DEF ReserveOutput, At, Goto
  <2>3. TypeOK'
    BY <1>1, <1>2, <2>1 DEF TypeOK, Label, dram, buffers, cursors, noc,
       registers, control
  <2>4. ReaderInv' /\ ReadInv'
    BY <1>1, <1>2, <2>1 DEF ReaderInv, BeforeScaler, HasRoom, Occupancy,
       Entries, ReadInv, InBack, dram, buffers, cursors, noc, registers,
       control
  <2>5. InputInv' /\ UnpackInv'
    BY <1>1, <1>2, <2>1 DEF InputInv, Occupancy, Published, UnpackInv,
       Consumed, HasEntry, dram, buffers, cursors, noc, registers, control
  <2>6. MathInv' /\ DestInv'
    BY <1>1, <1>2, <2>1 DEF MathInv, Unpacked, Consumed, DestInv, Accumulated,
       RowSum, dram, buffers, cursors, noc, registers, control
  <2>7. PackInv'
    BY <1>1, <1>2, <2>1 DEF PackInv, HasRoom, Occupancy, Entries, Packed,
       OutBack, dram, buffers, cursors, noc, registers, control
  <2>8. OutputInv'
    BY <1>1, <1>2, <2>1 DEF OutputInv, Occupancy, Published, dram, buffers,
       cursors, noc, registers, control
  <2>9. WriterInv' /\ DramInv'
    BY <1>1, <1>2, <2>1 DEF WriterInv, HasEntry, Occupancy, OutFront, DramInv,
       Delivered, RowSum, dram, buffers, cursors, noc, registers, control
  <2> QED
    BY <2>3, <2>4, <2>5, <2>6, <2>7, <2>8, <2>9 DEF IInv
<1>5. CASE PackTile
  <2>1. /\ pc["pack"] = "pack"
        /\ outSlot' = [outSlot EXCEPT ![OutBack] = dest[Bank("pack")]]
        /\ pc' = [pc EXCEPT !["pack"] = "push"]
        /\ UNCHANGED <<dram, inSlot, scSlot, cursors, noc, registers, row, col>>
    BY <1>5 DEF PackTile, At, Goto
  <2>20. outSlot \in [0 .. OutputEntries - 1 -> Sum] /\ dest \in [0 .. DestBanks - 1 -> Sum]
    BY <1>1 DEF TypeOK
  <2>21. OutBack \in 0 .. OutputEntries - 1 /\ Bank("pack") \in 0 .. DestBanks - 1
    <3>1. pushed["output"] % OutputEntries \in 0 .. OutputEntries - 1
      BY <1>2, Euclid
    <3>2. row["pack"] % DestBanks \in 0 .. DestBanks - 1
      BY <1>2, Euclid
    <3> QED
      BY <3>1, <3>2 DEF OutBack, Bank
  <2>22. pc' \in [Thread -> Label] /\ \A t \in Thread \ {"pack"} : pc'[t] = pc[t]
    BY <1>2, <2>1 DEF Label
  <2>23. dest[Bank("pack")] = RowSum(src, row["pack"])
    <3>1. row["pack"] < row["math"]
      BY <1>1, <1>2, <2>1 DEF PackInv, DestInv
    <3>2. dest[Bank("pack")] = Accumulated(row["pack"])
      BY <1>1, <1>2 DEF DestInv, Bank
    <3> QED
      BY <3>1, <3>2 DEF Accumulated
  <2>24. outSlot'[OutBack] = dest[Bank("pack")]
          /\ \A k \in 0 .. OutputEntries - 1 : k # OutBack => outSlot'[k] = outSlot[k]
    BY <2>1, <2>20, <2>21
  <2>2. pc' \in [Thread -> Label] /\ outSlot' \in [0 .. OutputEntries - 1 -> Sum]
    BY <1>2, <2>1, <2>20, <2>21, <2>22
  <2>3. TypeOK'
    BY <1>1, <2>1, <2>2 DEF TypeOK, dram, buffers, cursors, noc, registers,
       control
  <2>4. ReaderInv' /\ ReadInv'
    BY <1>1, <1>2, <2>1 DEF ReaderInv, BeforeScaler, HasRoom, Occupancy,
       Entries, ReadInv, InBack, dram, buffers, cursors, noc, registers,
       control
  <2>5. InputInv' /\ UnpackInv'
    BY <1>1, <1>2, <2>1 DEF InputInv, Occupancy, Published, UnpackInv,
       Consumed, HasEntry, dram, buffers, cursors, noc, registers, control
  <2>6. MathInv' /\ DestInv'
    BY <1>1, <1>2, <2>1 DEF MathInv, Unpacked, Consumed, DestInv, Accumulated,
       RowSum, dram, buffers, cursors, noc, registers, control
  <2>7. PackInv'
    <3>1. OutBack' = OutBack /\ src' = src
      BY <2>1 DEF OutBack, cursors, dram
    <3> QED
      BY <1>1, <1>2, <2>1, <2>23, <2>24, <3>1 DEF PackInv, HasRoom, Occupancy, Entries, Packed,
         cursors, registers
  <2>8. OutputInv'
    <3>1. Occupancy("output") \in 0 .. OutputEntries - 1
      BY <1>1, <1>2, <2>1 DEF PackInv, HasRoom, Entries, OutputInv, Occupancy
    <3>2. ASSUME NEW k \in Published("output")
          PROVE  outSlot'[k % OutputEntries] = outSlot[k % OutputEntries]
      <4>1. /\ k \in Nat /\ pushed["output"] \in Nat
            /\ k < pushed["output"] /\ pushed["output"] < k + OutputEntries
        BY <1>2, <3>1 DEF Published, Occupancy
      <4>2. k % OutputEntries # OutBack
        BY <4>1, RingInjective DEF OutBack
      <4>3. k % OutputEntries \in 0 .. OutputEntries - 1
        BY <4>1, Euclid
      <4> QED
        BY <2>24, <4>2, <4>3
    <3>3. Published("output")' = Published("output") /\ Occupancy("output")' = Occupancy("output")
          /\ src' = src
      BY <2>1 DEF Published, Occupancy, cursors, dram
    <3> QED
      BY <1>1, <3>2, <3>3 DEF OutputInv
  <2>9. WriterInv' /\ DramInv'
    BY <1>1, <1>2, <2>1 DEF WriterInv, HasEntry, Occupancy, OutFront, DramInv,
       Delivered, RowSum, dram, buffers, cursors, noc, registers, control
  <2> QED
    BY <2>3, <2>4, <2>5, <2>6, <2>7, <2>8, <2>9 DEF IInv
<1>6. CASE PushOutput
  <2>1. /\ pc["pack"] = "push"
        /\ pushed' = [pushed EXCEPT !["output"] = pushed["output"] + 1]
        /\ pc' = [pc EXCEPT !["pack"] = "release"]
        /\ UNCHANGED <<dram, buffers, popped, noc, registers, row, col>>
    BY <1>6 DEF PushOutput, At, Goto, PushBack
  <2>2. pc' \in [Thread -> Label] /\ pushed' \in [Dfb -> Nat]
    BY <1>2, <2>1 DEF Label
  <2>3. TypeOK'
    BY <1>1, <2>1, <2>2 DEF TypeOK, dram, buffers, cursors, noc, registers,
       control
  <2>4. ReaderInv' /\ ReadInv'
    BY <1>1, <1>2, <2>1 DEF ReaderInv, BeforeScaler, HasRoom, Occupancy,
       Entries, ReadInv, InBack, dram, buffers, cursors, noc, registers,
       control
  <2>5. InputInv' /\ UnpackInv'
    BY <1>1, <1>2, <2>1 DEF InputInv, Occupancy, Published, UnpackInv,
       Consumed, HasEntry, dram, buffers, cursors, noc, registers, control
  <2>6. MathInv' /\ DestInv'
    BY <1>1, <1>2, <2>1 DEF MathInv, Unpacked, Consumed, DestInv, Accumulated,
       RowSum, dram, buffers, cursors, noc, registers, control
  <2>7. PackInv'
    BY <1>1, <1>2, <2>1 DEF PackInv, HasRoom, Occupancy, Entries, Packed,
       OutBack, dram, buffers, cursors, noc, registers, control
  <2>8. OutputInv'
    <3>1. /\ Occupancy("output")' = Occupancy("output") + 1
          /\ Published("output")' = Published("output") \cup {pushed["output"]}
      BY <1>1, <1>2, <2>1 DEF Occupancy, Published, OutputInv
    <3>2. outSlot[pushed["output"] % OutputEntries] = RowSum(src, pushed["output"])
      BY <1>1, <1>2, <2>1 DEF PackInv, OutBack, Packed
    <3>3. Occupancy("output") \in 0 .. OutputEntries - 1
      BY <1>1, <1>2, <2>1 DEF OutputInv, PackInv, HasRoom, Entries, Occupancy
    <3> QED
      BY <1>1, <2>1, <3>1, <3>2, <3>3 DEF OutputInv, dram, buffers
  <2>9. WriterInv'
    BY <1>1, <1>2, <2>1 DEF WriterInv, HasEntry, Occupancy, OutFront, noc
  <2>10. DramInv'
    BY <1>1, <1>2, <2>1 DEF DramInv, Delivered, RowSum, dram, buffers,
       cursors, noc, registers, control
  <2> QED
    BY <2>3, <2>4, <2>5, <2>6, <2>7, <2>8, <2>9, <2>10 DEF IInv
<1>7. CASE Release
  <2>1. /\ pc["pack"] = "release"
        /\ dest' = [dest EXCEPT ![Bank("pack")] = << >>]
        /\ ready' = ready - 1
        /\ row' = [row EXCEPT !["pack"] = row["pack"] + 1]
        /\ pc' = [pc EXCEPT !["pack"] =
                      IF row["pack"] + 1 < Ht THEN "wait" ELSE "done"]
        /\ UNCHANGED <<dram, buffers, cursors, noc, srcRegs, col>>
    BY <1>7 DEF Release, At, NextRound
  <2>20. /\ dest \in [0 .. DestBanks - 1 -> Sum]
         /\ row["pack"] \in Nat /\ row["math"] \in Nat
    BY <1>1, <1>2 DEF TypeOK
  <2>21. Bank("pack") \in 0 .. DestBanks - 1
    BY <2>20, Euclid DEF Bank
  <2>22. /\ row'["pack"] = row["pack"] + 1
         /\ \A t \in Thread \ {"pack"} : pc'[t] = pc[t] /\ row'[t] = row[t]
    BY <1>2, <2>1
  <2>23. /\ ready = row["math"] - row["pack"] /\ ready \in 1 .. DestBanks
         /\ row["math"] \in 0 .. Ht
    BY <1>1, <1>2, <2>1 DEF PackInv, DestInv, MathInv
  <2>24. pc' \in [Thread -> Label] /\ row' \in [Thread -> Nat]
    BY <1>2, <2>1 DEF Label
  <2>25. dest' \in [0 .. DestBanks - 1 -> Sum]
    BY <2>1, <2>20, <2>21 DEF Sum
  <2>26. ready' \in 0 .. DestBanks
    BY <2>1, <2>23
  <2>2. /\ pc' \in [Thread -> Label] /\ row' \in [Thread -> Nat]
        /\ dest' \in [0 .. DestBanks - 1 -> Sum] /\ ready' \in 0 .. DestBanks
    BY <1>2, <2>1, <2>24, <2>25, <2>26
  <2>3. TypeOK'
    BY <1>1, <2>1, <2>2 DEF TypeOK, dram, buffers, cursors, noc, registers,
       control
  <2>4. ReaderInv' /\ ReadInv'
    BY <1>1, <1>2, <2>1 DEF ReaderInv, BeforeScaler, HasRoom, Occupancy,
       Entries, ReadInv, InBack, dram, buffers, cursors, noc, registers,
       control
  <2>5. InputInv' /\ UnpackInv'
    BY <1>1, <1>2, <2>1 DEF InputInv, Occupancy, Published, UnpackInv,
       Consumed, HasEntry, dram, buffers, cursors, noc, registers, control
  <2>6. DestInv'
    <3>1. src' = src /\ col' = col /\ row'["math"] = row["math"]
      BY <2>1, <2>22 DEF dram
    <3>2. ASSUME NEW r \in row["pack"] + 1 .. row["pack"] + DestBanks - 1
          PROVE  dest'[r % DestBanks] = Accumulated(r)
      <4>1. r \in Nat /\ row["pack"] < r /\ r < row["pack"] + DestBanks
        BY <2>20
      <4>2. r % DestBanks # Bank("pack")
        BY <2>20, <4>1, RingInjective DEF Bank
      <4>3. r % DestBanks \in 0 .. DestBanks - 1
        BY <4>1, Euclid
      <4>4. dest[r % DestBanks] = Accumulated(r)
        BY <1>1, <2>20 DEF DestInv
      <4> QED
        BY <2>1, <2>20, <4>2, <4>3, <4>4
    <3>3. dest'[(row["pack"] + DestBanks) % DestBanks] = << >>
      BY <2>1, <2>20, <2>21, RingLap DEF Bank
    <3>4. Accumulated(row["pack"] + DestBanks) = << >>
      <4>1. CASE row["math"] = row["pack"] + DestBanks
        <5>1. pc["math"] \in {"acquire", "done"}
          BY <1>1, <2>20, <2>23, <4>1 DEF DestInv, MathInv
        <5>2. col["math"] = 0
          BY <1>1, <5>1 DEF MathInv
        <5>3. Accumulated(row["math"]) =
                [c \in 1 .. col["math"] |-> src[row["math"] * Wt + c - 1]]
          BY <2>20 DEF Accumulated
        <5>4. [c \in 1 .. 0 |-> src[row["math"] * Wt + c - 1]] = << >>
          OBVIOUS
        <5> QED
          BY <4>1, <5>2, <5>3, <5>4
      <4>2. CASE row["math"] < row["pack"] + DestBanks
        BY <2>20, <4>2 DEF Accumulated
      <4> QED
        BY <2>20, <2>23, <4>1, <4>2
    <3>5. ASSUME NEW r \in row'["pack"] .. row'["pack"] + DestBanks - 1
          PROVE  dest'[r % DestBanks] = Accumulated(r)'
      <4>1. Accumulated(r)' = Accumulated(r)
        BY <3>1 DEF Accumulated, RowSum
      <4>2. CASE r = row["pack"] + DestBanks
        BY <3>3, <3>4, <4>1, <4>2
      <4>3. CASE r # row["pack"] + DestBanks
        BY <2>20, <2>22, <3>2, <4>1, <4>3
      <4> QED
        BY <4>2, <4>3
    <3>6. row'["pack"] \in 0 .. Ht /\ ready' = row'["math"] - row'["pack"] /\ ready' < DestBanks
      BY <2>1, <2>20, <2>22, <2>23
    <3> QED
      BY <3>5, <3>6 DEF DestInv
  <2>7. MathInv'
    BY <1>1, <1>2, <2>1 DEF MathInv, Unpacked, Consumed, dram, buffers,
       cursors, noc, registers, control
  <2>8. PackInv'
    <3>1. Packed' = Packed
      BY <1>2, <2>1, <2>22 DEF Packed
    <3>2. /\ pc'["pack"] \in {"wait", "done"}
          /\ pc'["pack"] = "done" <=> row'["pack"] = Ht
      <4>1. row["pack"] + 1 \in 1 .. Ht
        BY <2>20, <2>23
      <4>2. pc'["pack"] = IF row["pack"] + 1 < Ht THEN "wait" ELSE "done"
        BY <1>2, <2>1
      <4> QED
        BY <2>22, <4>1, <4>2
    <3>3. pushed' = pushed
      BY <2>1 DEF cursors
    <3> QED
      BY <1>1, <3>1, <3>2, <3>3 DEF PackInv
  <2>9. OutputInv'
    BY <1>1, <1>2, <2>1 DEF OutputInv, Occupancy, Published, dram, buffers,
       cursors, noc, registers, control
  <2>10. WriterInv' /\ DramInv'
    BY <1>1, <1>2, <2>1 DEF WriterInv, HasEntry, Occupancy, OutFront, DramInv,
       Delivered, RowSum, dram, buffers, cursors, noc, registers, control
  <2> QED
    BY <2>3, <2>4, <2>5, <2>6, <2>7, <2>8, <2>9, <2>10 DEF IInv
<1> QED
  BY <1>3, <1>4, <1>5, <1>6, <1>7 DEF Pack

\* No step of the writer breaks the invariant.
LEMMA WriterStep ==
    ASSUME IInv, Writer
    PROVE  IInv'
<1> USE ShapeAssumption, CapacityAssumption DEF Thread, Dfb
<1>1. /\ TypeOK /\ ReaderInv /\ ReadInv /\ InputInv /\ UnpackInv /\ MathInv
      /\ DestInv /\ PackInv /\ OutputInv /\ WriterInv /\ DramInv
  BY DEF IInv
<1>2. /\ pc \in [Thread -> Label] /\ row \in [Thread -> Nat]
      /\ col \in [{"unpack", "math"} -> 0 .. Wt]
      /\ pushed \in [Dfb -> Nat] /\ popped \in [Dfb -> Nat]
      /\ ready \in 0 .. DestBanks /\ Ht * Wt \in Nat
  BY <1>1 DEF TypeOK
<1>3. CASE WaitOutput
  <2>1. /\ pc["writer"] = "wait"
        /\ HasEntry("output")
        /\ pc' = [pc EXCEPT !["writer"] = "write"]
        /\ UNCHANGED <<dram, buffers, cursors, noc, registers, row, col>>
    BY <1>3 DEF WaitOutput, At, Goto
  <2>3. TypeOK'
    BY <1>1, <1>2, <2>1 DEF TypeOK, Label, dram, buffers, cursors, noc,
       registers, control
  <2>4. ReaderInv' /\ ReadInv'
    BY <1>1, <1>2, <2>1 DEF ReaderInv, BeforeScaler, HasRoom, Occupancy,
       Entries, ReadInv, InBack, dram, buffers, cursors, noc, registers,
       control
  <2>5. InputInv' /\ UnpackInv'
    BY <1>1, <1>2, <2>1 DEF InputInv, Occupancy, Published, UnpackInv,
       Consumed, HasEntry, dram, buffers, cursors, noc, registers, control
  <2>6. MathInv' /\ DestInv'
    BY <1>1, <1>2, <2>1 DEF MathInv, Unpacked, Consumed, DestInv, Accumulated,
       RowSum, dram, buffers, cursors, noc, registers, control
  <2>7. PackInv'
    BY <1>1, <1>2, <2>1 DEF PackInv, HasRoom, Occupancy, Entries, Packed,
       OutBack, dram, buffers, cursors, noc, registers, control
  <2>8. OutputInv'
    BY <1>1, <1>2, <2>1 DEF OutputInv, Occupancy, Published, dram, buffers,
       cursors, noc, registers, control
  <2>9. WriterInv' /\ DramInv'
    BY <1>1, <1>2, <2>1 DEF WriterInv, HasEntry, Occupancy, OutFront, DramInv,
       Delivered, RowSum, dram, buffers, cursors, noc, registers, control
  <2> QED
    BY <2>3, <2>4, <2>5, <2>6, <2>7, <2>8, <2>9 DEF IInv
<1>4. CASE IssueWrite
  <2>1. /\ pc["writer"] = "write"
        /\ writes' = writes \cup {[page |-> row["writer"], slot |-> OutFront]}
        /\ pc' = [pc EXCEPT !["writer"] = "barrier"]
        /\ UNCHANGED <<dram, buffers, cursors, reads, registers, row, col>>
    BY <1>4 DEF IssueWrite, At, Goto
  <2>21. writes \subseteq [page : Row, slot : 0 .. OutputEntries - 1]
    BY <1>1 DEF TypeOK
  <2>22. row["writer"] \in Row /\ OutFront \in 0 .. OutputEntries - 1
    <3>1. popped["output"] % OutputEntries \in 0 .. OutputEntries - 1
      BY <1>2, Euclid
    <3>2. row["writer"] \in 0 .. Ht - 1
      BY <1>1, <1>2, <2>1 DEF WriterInv
    <3> QED
      BY <3>1, <3>2 DEF Row, OutFront
  <2>2. pc' \in [Thread -> Label] /\ writes' \subseteq [page : Row, slot : 0 .. OutputEntries - 1]
    BY <1>2, <2>1, <2>21, <2>22 DEF Label
  <2>3. TypeOK'
    BY <1>1, <2>1, <2>2 DEF TypeOK, dram, buffers, cursors, noc, registers,
       control
  <2>4. ReaderInv' /\ ReadInv'
    BY <1>1, <1>2, <2>1 DEF ReaderInv, BeforeScaler, HasRoom, Occupancy,
       Entries, ReadInv, InBack, dram, buffers, cursors, noc, registers,
       control
  <2>5. InputInv' /\ UnpackInv'
    BY <1>1, <1>2, <2>1 DEF InputInv, Occupancy, Published, UnpackInv,
       Consumed, HasEntry, dram, buffers, cursors, noc, registers, control
  <2>6. MathInv' /\ DestInv'
    BY <1>1, <1>2, <2>1 DEF MathInv, Unpacked, Consumed, DestInv, Accumulated,
       RowSum, dram, buffers, cursors, noc, registers, control
  <2>7. PackInv'
    BY <1>1, <1>2, <2>1 DEF PackInv, HasRoom, Occupancy, Entries, Packed,
       OutBack, dram, buffers, cursors, noc, registers, control
  <2>8. OutputInv'
    BY <1>1, <1>2, <2>1 DEF OutputInv, Occupancy, Published, dram, buffers,
       cursors, noc, registers, control
  <2>9. WriterInv' /\ DramInv'
    BY <1>1, <1>2, <2>1 DEF WriterInv, HasEntry, Occupancy, OutFront, DramInv,
       Delivered, RowSum, dram, buffers, cursors, noc, registers, control
  <2> QED
    BY <2>3, <2>4, <2>5, <2>6, <2>7, <2>8, <2>9 DEF IInv
<1>5. CASE WriteBarrier
  <2>1. /\ pc["writer"] = "barrier"
        /\ writes = {}
        /\ pc' = [pc EXCEPT !["writer"] = "pop"]
        /\ UNCHANGED <<dram, buffers, cursors, noc, registers, row, col>>
    BY <1>5 DEF WriteBarrier, At, Goto
  <2>3. TypeOK'
    BY <1>1, <1>2, <2>1 DEF TypeOK, Label, dram, buffers, cursors, noc,
       registers, control
  <2>4. ReaderInv' /\ ReadInv'
    BY <1>1, <1>2, <2>1 DEF ReaderInv, BeforeScaler, HasRoom, Occupancy,
       Entries, ReadInv, InBack, dram, buffers, cursors, noc, registers,
       control
  <2>5. InputInv' /\ UnpackInv'
    BY <1>1, <1>2, <2>1 DEF InputInv, Occupancy, Published, UnpackInv,
       Consumed, HasEntry, dram, buffers, cursors, noc, registers, control
  <2>6. MathInv' /\ DestInv'
    BY <1>1, <1>2, <2>1 DEF MathInv, Unpacked, Consumed, DestInv, Accumulated,
       RowSum, dram, buffers, cursors, noc, registers, control
  <2>7. PackInv'
    BY <1>1, <1>2, <2>1 DEF PackInv, HasRoom, Occupancy, Entries, Packed,
       OutBack, dram, buffers, cursors, noc, registers, control
  <2>8. OutputInv'
    BY <1>1, <1>2, <2>1 DEF OutputInv, Occupancy, Published, dram, buffers,
       cursors, noc, registers, control
  <2>9. WriterInv' /\ DramInv'
    BY <1>1, <1>2, <2>1 DEF WriterInv, HasEntry, Occupancy, OutFront, DramInv,
       Delivered, RowSum, dram, buffers, cursors, noc, registers, control
  <2> QED
    BY <2>3, <2>4, <2>5, <2>6, <2>7, <2>8, <2>9 DEF IInv
<1>6. CASE PopOutput
  <2>1. /\ pc["writer"] = "pop"
        /\ popped' = [popped EXCEPT !["output"] = popped["output"] + 1]
        /\ row' = [row EXCEPT !["writer"] = row["writer"] + 1]
        /\ pc' = [pc EXCEPT !["writer"] =
                      IF row["writer"] + 1 < Ht THEN "wait" ELSE "done"]
        /\ UNCHANGED <<dram, buffers, pushed, noc, registers, col>>
    BY <1>6 DEF PopOutput, At, NextRound, PopFront, WriterTiles
  <2>21. /\ pc' \in [Thread -> Label] /\ row' \in [Thread -> Nat]
         /\ popped' \in [Dfb -> Nat]
    BY <1>2, <2>1 DEF Label
  <2>2. /\ pc' \in [Thread -> Label] /\ row' \in [Thread -> Nat]
        /\ popped' \in [Dfb -> Nat]
    BY <1>2, <2>1, <2>21
  <2>3. TypeOK'
    BY <1>1, <2>1, <2>2 DEF TypeOK, dram, buffers, cursors, noc, registers,
       control
  <2>4. ReaderInv' /\ ReadInv'
    BY <1>1, <1>2, <2>1 DEF ReaderInv, BeforeScaler, HasRoom, Occupancy,
       Entries, ReadInv, InBack, dram, buffers, cursors, noc, registers,
       control
  <2>5. InputInv' /\ UnpackInv'
    BY <1>1, <1>2, <2>1 DEF InputInv, Occupancy, Published, UnpackInv,
       Consumed, HasEntry, dram, buffers, cursors, noc, registers, control
  <2>6. MathInv' /\ DestInv'
    BY <1>1, <1>2, <2>1 DEF MathInv, Unpacked, Consumed, DestInv, Accumulated,
       RowSum, dram, buffers, cursors, noc, registers, control
  <2>7. PackInv'
    BY <1>1, <1>2, <2>1 DEF PackInv, HasRoom, Occupancy, Entries, Packed,
       OutBack, dram, buffers, cursors, noc, registers, control
  <2>8. OutputInv'
    <3>1. Occupancy("output") > 0
      BY <1>1, <2>1 DEF WriterInv, HasEntry
    <3>2. /\ Occupancy("output")' = Occupancy("output") - 1
          /\ Published("output")' \subseteq Published("output")
          /\ src' = src /\ outSlot' = outSlot
      BY <1>2, <2>1 DEF Occupancy, Published, dram, buffers
    <3>3. Occupancy("output") \in Int
      BY <1>2 DEF Occupancy
    <3> QED
      BY <1>1, <3>1, <3>2, <3>3 DEF OutputInv
  <2>9. WriterInv'
    <3>1. row["writer"] \in 0 .. Ht - 1 /\ writes = {} /\ popped["output"] = row["writer"]
      BY <1>1, <1>2, <2>1 DEF WriterInv
    <3>2. /\ pc'["writer"] \in {"wait", "done"} /\ row'["writer"] = row["writer"] + 1
          /\ pc'["writer"] = "done" <=> row'["writer"] = Ht
          /\ popped'["output"] = popped["output"] + 1
      BY <1>2, <2>1, <3>1
    <3>3. writes' = {} /\ row'["writer"] \in 0 .. Ht
      BY <2>1, <3>1, <3>2 DEF noc
    <3> QED
      BY <3>1, <3>2, <3>3 DEF WriterInv
  <2>10. DramInv'
    <3>1. Delivered /\ ~Delivered' /\ row'["writer"] = row["writer"] + 1
      BY <1>2, <2>1 DEF Delivered
    <3>2. src' = src /\ dst' = dst
      BY <2>1 DEF dram
    <3> QED
      BY <1>1, <1>2, <3>1, <3>2 DEF DramInv, Row
  <2> QED
    BY <2>3, <2>4, <2>5, <2>6, <2>7, <2>8, <2>9, <2>10 DEF IInv
<1> QED
  BY <1>3, <1>4, <1>5, <1>6 DEF Writer

\* No delivery of the NoC breaks the invariant.
LEMMA NocStep ==
    ASSUME IInv, DeliverRead \/ DeliverWrite
    PROVE  IInv'
<1> USE ShapeAssumption, CapacityAssumption DEF Thread, Dfb
<1>1. /\ TypeOK /\ ReaderInv /\ ReadInv /\ InputInv /\ UnpackInv /\ MathInv
      /\ DestInv /\ PackInv /\ OutputInv /\ WriterInv /\ DramInv
  BY DEF IInv
<1>2. /\ pc \in [Thread -> Label] /\ row \in [Thread -> Nat]
      /\ col \in [{"unpack", "math"} -> 0 .. Wt]
      /\ pushed \in [Dfb -> Nat] /\ popped \in [Dfb -> Nat]
      /\ ready \in 0 .. DestBanks /\ Ht * Wt \in Nat
  BY <1>1 DEF TypeOK
<1>3. CASE DeliverRead
  <2>1. PICK rd \in reads :
           /\ inSlot' = [inSlot EXCEPT ![rd.slot] = src[rd.page]]
           /\ reads' = reads \ {rd}
           /\ UNCHANGED <<dram, scSlot, outSlot, cursors, writes, registers, control>>
    BY <1>3 DEF DeliverRead
  <2>2. /\ reads = {rd} /\ rd = [page |-> row["reader"], slot |-> InBack]
        /\ pc["reader"] = "barrier"
    BY <1>1, <2>1 DEF ReadInv
  <2>3. /\ reads' = {} /\ inSlot' = [inSlot EXCEPT ![InBack] = src[row["reader"]]]
        /\ UNCHANGED <<dram, scSlot, outSlot, cursors, writes, registers, control>>
    BY <2>1, <2>2
  <2>4. inSlot \in [0 .. InputEntries - 1 -> Tile] /\ src \in [Page -> Datum]
    BY <1>1, InputsAssumption DEF TypeOK
  <2>5. InBack \in 0 .. InputEntries - 1
    BY <1>2, Euclid DEF InBack
  <2>6. row["reader"] \in Page
    BY <1>1, <1>2, <2>2 DEF ReaderInv, Page
  <2>7. inSlot' \in [0 .. InputEntries - 1 -> Tile]
    BY <2>3, <2>4, <2>5, <2>6 DEF Tile
  <2>8. TypeOK'
    BY <1>1, <2>3, <2>7 DEF TypeOK, dram, cursors, registers, control
  <2>9. ReaderInv'
    BY <1>1, <2>2, <2>3 DEF ReaderInv, HasRoom, Occupancy, cursors, control
  <2>10. ReadInv'
    BY <1>1, <2>2, <2>3, <2>4, <2>5 DEF ReadInv, InBack, dram, cursors, control
  <2>11. InputInv'
    <3>1. Occupancy("input") \in 0 .. InputEntries - 1
      BY <1>1, <1>2, <2>2 DEF InputInv, ReaderInv, HasRoom, Entries, Occupancy
    <3>2. ASSUME NEW k \in Published("input")
          PROVE  inSlot'[k % InputEntries] = inSlot[k % InputEntries]
      <4>1. /\ k \in Nat /\ pushed["input"] \in Nat
            /\ k < pushed["input"] /\ pushed["input"] < k + InputEntries
        BY <1>2, <3>1 DEF Published, Occupancy
      <4>2. k % InputEntries # InBack
        BY <4>1, RingInjective DEF InBack
      <4>3. k % InputEntries \in 0 .. InputEntries - 1
        BY <4>1, Euclid
      <4> QED
        BY <2>3, <2>4, <4>2, <4>3
    <3>3. /\ Published("input")' = Published("input") /\ Occupancy("input")' = Occupancy("input")
          /\ src' = src
      BY <2>3 DEF Published, Occupancy, cursors, dram
    <3> QED
      BY <1>1, <3>2, <3>3 DEF InputInv
  <2>12. UnpackInv' /\ MathInv'
    BY <1>1, <2>3 DEF UnpackInv, HasEntry, Occupancy, Consumed, MathInv, Unpacked,
       dram, cursors, registers, control
  <2>13. DestInv'
    BY <1>1, <2>3 DEF DestInv, Accumulated, RowSum, dram, registers, control
  <2>14. PackInv' /\ OutputInv'
    BY <1>1, <2>3 DEF PackInv, OutputInv, HasRoom, Occupancy, Packed, OutBack, Published,
       dram, cursors, registers, control
  <2>15. WriterInv' /\ DramInv'
    BY <1>1, <2>3 DEF WriterInv, DramInv, HasEntry, Occupancy, OutFront, Delivered, RowSum,
       dram, cursors, control
  <2> QED
    BY <2>8, <2>9, <2>10, <2>11, <2>12, <2>13, <2>14, <2>15 DEF IInv
<1>4. CASE DeliverWrite
  <2>1. PICK wr \in writes :
           /\ dst' = [dst EXCEPT ![wr.page] = outSlot[wr.slot]]
           /\ writes' = writes \ {wr}
           /\ UNCHANGED <<src, launch, buffers, cursors, reads, registers, control>>
    BY <1>4 DEF DeliverWrite
  <2>2. /\ writes = {wr} /\ wr = [page |-> row["writer"], slot |-> OutFront]
        /\ pc["writer"] = "barrier" /\ popped["output"] = row["writer"]
        /\ HasEntry("output")
    BY <1>1, <2>1 DEF WriterInv
  <2>3. /\ writes' = {} /\ dst' = [dst EXCEPT ![row["writer"]] = outSlot[OutFront]]
        /\ UNCHANGED <<src, launch, buffers, cursors, reads, registers, control>>
    BY <2>1, <2>2
  <2>4. outSlot \in [0 .. OutputEntries - 1 -> Sum] /\ dst \in [Row -> Sum \cup {Poison}]
    BY <1>1 DEF TypeOK
  <2>5. OutFront \in 0 .. OutputEntries - 1
    BY <1>2, Euclid DEF OutFront
  <2>6. row["writer"] \in Row
    BY <1>1, <1>2, <2>2 DEF WriterInv, Row
  <2>7. dst' \in [Row -> Sum \cup {Poison}]
    BY <2>3, <2>4, <2>5, <2>6
  <2>8. TypeOK'
    BY <1>1, <2>3, <2>7 DEF TypeOK, buffers, cursors, registers, control
  <2>9. ReaderInv' /\ ReadInv'
    BY <1>1, <2>3 DEF ReaderInv, ReadInv, InBack, HasRoom, Occupancy, buffers, cursors, control
  <2>10. InputInv' /\ UnpackInv'
    BY <1>1, <2>3 DEF InputInv, UnpackInv, HasEntry, Occupancy, Published, Consumed,
       buffers, cursors, control
  <2>11. MathInv' /\ DestInv'
    BY <1>1, <2>3 DEF MathInv, DestInv, Unpacked, Consumed, Accumulated, RowSum,
       registers, control
  <2>12. PackInv' /\ OutputInv'
    BY <1>1, <2>3 DEF PackInv, OutputInv, HasRoom, Occupancy, Packed, OutBack, Published,
       buffers, cursors, registers, control
  <2>13. WriterInv'
    BY <1>1, <2>2, <2>3 DEF WriterInv, HasEntry, Occupancy, OutFront, cursors, control
  <2>14. DramInv'
    <3>1. outSlot[OutFront] = RowSum(src, row["writer"])
      <4>1. row["writer"] \in Published("output")
        BY <1>2, <2>2 DEF HasEntry, Occupancy, Published
      <4> QED
        BY <1>1, <2>2, <4>1 DEF OutputInv, OutFront
    <3>2. Delivered' /\ ~Delivered /\ row' = row /\ src' = src
      BY <2>2, <2>3 DEF Delivered, control
    <3> QED
      BY <1>1, <1>2, <2>3, <2>4, <2>6, <3>1, <3>2 DEF DramInv, Row
  <2> QED
    BY <2>8, <2>9, <2>10, <2>11, <2>12, <2>13, <2>14 DEF IInv
<1> QED
  BY <1>3, <1>4

\* What the threads leave behind when every kernel has returned.
LEMMA DoneState ==
    ASSUME IInv, Done
    PROVE  /\ reads = {} /\ writes = {} /\ srcRegs = << >> /\ ready = 0
           /\ dest = [k \in 0 .. DestBanks - 1 |-> << >>]
           /\ row["writer"] = Ht
<1> USE ShapeAssumption, CapacityAssumption DEF Thread, Dfb
<1>1. /\ pc["reader"] = "done" /\ pc["unpack"] = "done" /\ pc["math"] = "done"
      /\ pc["pack"] = "done" /\ pc["writer"] = "done"
  BY DEF Done
<1>2. /\ row["unpack"] = Ht /\ row["math"] = Ht /\ row["pack"] = Ht /\ row["writer"] = Ht
      /\ col["math"] = 0 /\ reads = {} /\ writes = {} /\ ready = 0
  BY <1>1 DEF IInv, UnpackInv, MathInv, DestInv, PackInv, WriterInv, ReadInv
<1>3. srcRegs = << >>
  <2>1. popped["input"] = Ht * Wt + col["unpack"] /\ col["unpack"] \in 0 .. Wt - 1
    BY <1>2 DEF IInv, UnpackInv, Consumed
  <2>2. pushed["input"] = Ht * Wt /\ Ht * Wt \in Nat
    BY <1>1 DEF IInv, ReaderInv
  <2>3. pushed["input"] - popped["input"] >= 0
    BY DEF IInv, InputInv, Occupancy
  <2>4. col["unpack"] = 0
    BY <2>1, <2>2, <2>3
  <2>5. Unpacked = Ht * Wt /\ Consumed("math") = Ht * Wt
    BY <1>1, <1>2, <2>2, <2>4 DEF Unpacked, Consumed
  <2>6. Consumed("math") + Len(srcRegs) = Unpacked /\ srcRegs \in Seq(Tile)
    BY DEF IInv, MathInv, TypeOK
  <2> QED
    BY <2>2, <2>5, <2>6
<1>4. ASSUME NEW k \in 0 .. DestBanks - 1
      PROVE  dest[k] = << >>
  <2>1. PICK r \in Ht .. Ht + DestBanks - 1 : r % DestBanks = k
    BY RingCover
  <2>2. dest[k] = Accumulated(r)
    BY <1>2, <2>1 DEF IInv, DestInv
  <2>3. Accumulated(r) = << >>
    <3>1. CASE r = Ht
      <4>1. Accumulated(r) = [c \in 1 .. 0 |-> src[r * Wt + c - 1]]
        BY <1>2, <3>1 DEF Accumulated
      <4>2. [c \in 1 .. 0 |-> src[r * Wt + c - 1]] = << >>
        OBVIOUS
      <4> QED
        BY <4>1, <4>2
    <3>2. CASE r > Ht
      BY <1>2, <3>2 DEF Accumulated
    <3> QED
      BY <3>1, <3>2
  <2> QED
    BY <2>2, <2>3
<1>5. dest = [k \in 0 .. DestBanks - 1 |-> << >>]
  <2>1. dest \in [0 .. DestBanks - 1 -> Sum]
    BY DEF IInv, TypeOK
  <2> QED
    BY <1>4, <2>1
<1> QED
  BY <1>2, <1>3, <1>5
\* The launch of the next iteration starts from the invariant again.
LEMMA LaunchStep ==
    ASSUME IInv, Launch
    PROVE  IInv'
<1> USE ShapeAssumption, RepeatsAssumption, CapacityAssumption DEF Thread, Dfb
<1>1. /\ pc' = Start /\ row' = [t \in Thread |-> 0] /\ col' = [t \in {"unpack", "math"} |-> 0]
      /\ pushed' = [b \in Dfb |-> 0] /\ popped' = [b \in Dfb |-> 0]
      /\ src' \in Inputs /\ dst' = [r \in Row |-> Poison] /\ launch' = launch + 1
      /\ Ht * Wt \in Nat \ {0} /\ 0 * Wt = 0
  BY DEF Launch, AllPoison
<1>2. /\ inSlot' = inSlot /\ scSlot' = scSlot /\ outSlot' = outSlot
      /\ reads' = {} /\ writes' = {} /\ srcRegs' = << >> /\ ready' = 0
      /\ dest' = [k \in 0 .. DestBanks - 1 |-> << >>]
  BY DoneState DEF Launch, buffers, noc, registers
<1>3. /\ pc'["reader"] = "reserveScaler" /\ pc'["unpack"] = "waitScaler"
      /\ pc'["math"] = "acquire" /\ pc'["pack"] = "wait" /\ pc'["writer"] = "wait"
      /\ pc' \in [Thread -> Label]
  BY <1>1 DEF Start, Label
<1>4. TypeOK'
  <2>1. launch' \in 1 .. Repeats
    BY DEF IInv, TypeOK, Launch
  <2>2. /\ inSlot' \in [0 .. InputEntries - 1 -> Tile] /\ scSlot' \in ScalerTile
        /\ outSlot' \in [0 .. OutputEntries - 1 -> Sum]
    BY <1>2 DEF IInv, TypeOK
  <2>3. dst' \in [Row -> Sum \cup {Poison}]
    BY <1>1
  <2>4. dest' \in [0 .. DestBanks - 1 -> Sum] /\ srcRegs' \in Seq(Tile)
    BY <1>2 DEF Sum
  <2>5. /\ pushed' \in [Dfb -> Nat] /\ popped' \in [Dfb -> Nat] /\ ready' \in 0 .. DestBanks
        /\ row' \in [Thread -> Nat] /\ col' \in [{"unpack", "math"} -> 0 .. Wt]
    BY <1>1, <1>2
  <2> QED
    BY <1>1, <1>2, <1>3, <2>1, <2>2, <2>3, <2>4, <2>5 DEF TypeOK
<1>5. ReaderInv' /\ ReadInv'
  BY <1>1, <1>2, <1>3 DEF ReaderInv, ReadInv, BeforeScaler
<1>6. InputInv' /\ UnpackInv'
  BY <1>1, <1>3 DEF InputInv, UnpackInv, Occupancy, Published, Consumed
<1>7. MathInv'
  BY <1>1, <1>2, <1>3 DEF MathInv, Consumed, Unpacked
<1>8. DestInv'
  <2>1. ASSUME NEW r \in 0 .. DestBanks - 1
        PROVE  dest'[r % DestBanks] = Accumulated(r)'
    <3>1. r % DestBanks \in 0 .. DestBanks - 1
      BY Euclid
    <3>2. Accumulated(r)' = << >>
      BY <1>1 DEF Accumulated
    <3> QED
      BY <1>2, <3>1, <3>2
  <2> QED
    BY <1>1, <1>2, <1>3, <2>1 DEF DestInv
<1>9. PackInv' /\ OutputInv'
  BY <1>1, <1>2, <1>3 DEF PackInv, OutputInv, Occupancy, Published, Packed
<1>10. WriterInv' /\ DramInv'
  <2>1. ~Delivered'
    BY <1>3 DEF Delivered
  <2> QED
    BY <1>1, <1>2, <1>3, <2>1 DEF WriterInv, DramInv, Row
<1> QED
  BY <1>4, <1>5, <1>6, <1>7, <1>8, <1>9, <1>10 DEF IInv

\* A step that changes nothing keeps the invariant.
LEMMA StutterStep ==
    ASSUME IInv, UNCHANGED vars
    PROVE  IInv'
<1> USE DEF vars, dram, buffers, cursors, noc, registers, control
<1>1. TypeOK' /\ ReaderInv' /\ ReadInv'
  BY DEF IInv, TypeOK, ReaderInv, ReadInv, HasRoom, Occupancy, InBack
<1>2. InputInv' /\ UnpackInv' /\ MathInv'
  BY DEF IInv, InputInv, Occupancy, Published, UnpackInv, Consumed, HasEntry, MathInv, Unpacked
<1>3. DestInv'
  BY DEF IInv, DestInv, Accumulated, RowSum
<1>4. PackInv' /\ OutputInv'
  BY DEF IInv, PackInv, OutputInv, HasRoom, Occupancy, Packed, OutBack, Published
<1>5. WriterInv' /\ DramInv'
  BY DEF IInv, WriterInv, DramInv, HasEntry, Occupancy, OutFront, Delivered, RowSum
<1> QED
  BY <1>1, <1>2, <1>3, <1>4, <1>5 DEF IInv
-----------------------------------------------------------------------------
\* The invariant is inductive.
LEMMA NextInv == IInv /\ [Next]_vars => IInv'
<1> SUFFICES ASSUME IInv, [Next]_vars PROVE IInv'
  OBVIOUS
<1>1. CASE Reader
  BY <1>1, ReaderStep
<1>2. CASE Unpack
  BY <1>2, UnpackStep
<1>3. CASE Math
  BY <1>3, MathStep
<1>4. CASE Pack
  BY <1>4, PackStep
<1>5. CASE Writer
  BY <1>5, WriterStep
<1>6. CASE DeliverRead \/ DeliverWrite
  BY <1>6, NocStep
<1>7. CASE Launch
  BY <1>7, LaunchStep
<1>8. CASE UNCHANGED vars
  BY <1>8, StutterStep
<1> QED
  BY <1>1, <1>2, <1>3, <1>4, <1>5, <1>6, <1>7, <1>8 DEF Next, Terminating

\* The positions of the threads and the contents of the buffers, registers and
\* DRAM pages stay related as IInv says, in every run of the device program.
THEOREM Invariance == Spec => []IInv
<1>1. Init => IInv
  BY InitInv
<1>2. IInv /\ [Next]_vars => IInv'
  BY NextInv
<1> QED
  BY <1>1, <1>2, PTL DEF Spec

\* Every variable of the device program stays in its type.
THEOREM TypeCorrect == Spec => []TypeOK
<1>1. IInv => TypeOK
  BY DEF IInv
<1> QED
  BY <1>1, Invariance, PTL

\* What a consumer can see in a buffer is complete and belongs to this launch.
THEOREM PublishedCorrect == Spec => []PublishedComplete
<1>1. IInv => PublishedComplete
  <2> SUFFICES ASSUME IInv PROVE PublishedComplete
    OBVIOUS
  <2>1. HasEntry("scaler") => scSlot = Unit
    BY DEF IInv, ReaderInv, HasEntry, Occupancy, BeforeScaler
  <2> QED
    BY <2>1 DEF IInv, InputInv, OutputInv, PublishedComplete
<1> QED
  BY <1>1, Invariance, PTL

\* A slot under a NoC transfer belongs to the thread that issued it.
THEOREM TransfersSafe == Spec => []TransferExclusive
<1>1. IInv => TransferExclusive
  <2> SUFFICES ASSUME IInv PROVE TransferExclusive
    OBVIOUS
  <2> USE CapacityAssumption DEF Thread, Dfb
  <2>1. pushed \in [Dfb -> Nat] /\ popped \in [Dfb -> Nat]
    BY DEF IInv, TypeOK
  <2>2. ASSUME NEW rd \in reads, NEW k \in Published("input")
        PROVE  rd.slot # k % InputEntries
    <3>1. pc["reader"] = "barrier" /\ rd.slot = InBack
      BY DEF IInv, ReadInv
    <3>2. HasRoom("input")
      BY <3>1 DEF IInv, ReaderInv
    <3>3. /\ k \in Nat /\ pushed["input"] \in Nat
          /\ k < pushed["input"] /\ pushed["input"] < k + InputEntries
      BY <2>1, <3>2 DEF HasRoom, Occupancy, Entries, Published
    <3> QED
      BY <3>1, <3>3, RingInjective DEF InBack
  <2>3. ASSUME NEW wr \in writes
        PROVE  /\ \E k \in Published("output") : wr.slot = k % OutputEntries
               /\ pc["pack"] \in {"pack", "push"} => wr.slot # OutBack
    <3>1. pc["writer"] = "barrier" /\ wr.slot = OutFront /\ HasEntry("output")
      BY DEF IInv, WriterInv
    <3>2. popped["output"] \in Published("output")
      BY <2>1, <3>1 DEF HasEntry, Occupancy, Published
    <3>3. ASSUME pc["pack"] \in {"pack", "push"}
          PROVE  OutFront # OutBack
      <4>1. HasRoom("output")
        BY <3>3 DEF IInv, PackInv
      <4>2. /\ popped["output"] \in Nat /\ pushed["output"] \in Nat
            /\ popped["output"] < pushed["output"]
            /\ pushed["output"] < popped["output"] + OutputEntries
        BY <2>1, <3>1, <4>1 DEF HasRoom, HasEntry, Occupancy, Entries
      <4> QED
        BY <4>2, RingInjective DEF OutFront, OutBack
    <3> QED
      BY <3>1, <3>2, <3>3 DEF OutFront
  <2> QED
    BY <2>2, <2>3 DEF TransferExclusive
<1> QED
  BY <1>1, Invariance, PTL

\* Math and pack are never at work on the same Dest half.
THEOREM DestSafe == Spec => []DestExclusive
<1>1. IInv => DestExclusive
  <2> SUFFICES ASSUME IInv,
                      pc["math"] \in {"reduce", "commit"},
                      pc["pack"] \in {"reserve", "pack", "push", "release"}
               PROVE  Bank("math") # Bank("pack")
    BY DEF DestExclusive
  <2>1. /\ row["math"] \in Nat /\ row["pack"] \in Nat
    BY DEF IInv, TypeOK, Thread
  <2>2. ready > 0 /\ ready < DestBanks /\ ready = row["math"] - row["pack"]
    BY DEF IInv, PackInv, DestInv
  <2>3. row["pack"] < row["math"] /\ row["math"] < row["pack"] + DestBanks
    BY <2>1, <2>2, CapacityAssumption
  <2> QED
    BY <2>1, <2>3, CapacityAssumption, RingInjective DEF Bank
<1> QED
  BY <1>1, Invariance, PTL

\* A finite sum is never the poison.
LEMMA SumIsNoPoison ==
    ASSUME NEW input \in Inputs, NEW r \in Row
    PROVE  RowSum(input, r) # Poison
<1> USE ShapeAssumption
<1>1. input \in [Page -> Datum]
  BY InputsAssumption
<1>2. r * Wt + Wt <= Ht * Wt /\ r * Wt \in Nat /\ Ht * Wt \in Nat
  BY RowFits DEF Row
<1>3. ASSUME NEW c \in 1 .. Wt PROVE input[r * Wt + c - 1] \in Datum
  <2>1. r * Wt + c - 1 \in Page
    BY <1>2 DEF Page
  <2> QED
    BY <1>1, <2>1
<1>4. RowSum(input, r) \in [1 .. Wt -> Datum]
  BY <1>3 DEF RowSum
<1> QED
  BY <1>4, PoisonAssumption

\* The pages the writer has been through hold their sums, the others the poison.
LEMMA DramContents ==
    ASSUME IInv
    PROVE  \A r \in Row :
              /\ dst[r] \in {Poison, RowSum(src, r)}
              /\ r < row["writer"] => dst[r] # Poison
<1>1. src \in Inputs /\ row["writer"] \in Nat
  BY DEF IInv, TypeOK, Thread
<1> QED
  BY <1>1, SumIsNoPoison DEF IInv, DramInv

\* The host reads the exact row sums of the current input, or poison.
THEOREM OutputsCorrect == Spec => []OutputCorrect
<1>1. IInv => OutputCorrect
  <2> SUFFICES ASSUME IInv PROVE OutputCorrect
    OBVIOUS
  <2>1. ASSUME Done, NEW r \in Row PROVE dst[r] # Poison
    <3>1. row["writer"] = Ht
      BY <2>1, DoneState
    <3>2. r < row["writer"]
      BY <3>1, ShapeAssumption DEF Row
    <3> QED
      BY <3>2, DramContents
  <2> QED
    BY <2>1, DramContents DEF OutputCorrect
<1> QED
  BY <1>1, Invariance, PTL

-----------------------------------------------------------------------------
\* Every step of the device program is a step of the row reduction or leaves
\* the DRAM tensors alone.
LEMMA StepSimulation ==
    ASSUME IInv, [Next]_vars
    PROVE  [Sums!Next]_(Sums!vars)
<1> USE ShapeAssumption DEF Thread
<1>1. ASSUME UNCHANGED dram PROVE UNCHANGED Sums!vars
  BY <1>1 DEF dram, Sums!vars
<1>2. CASE Reader
  BY <1>1, <1>2 DEF Reader, ReserveScaler, FillScaler, PushScaler, ReserveInput, IssueRead,
     ReadBarrier, PushInput
<1>3. CASE Unpack
  BY <1>1, <1>3 DEF Unpack, WaitScaler, WaitInput, UnpackTile, PopInput
<1>4. CASE Math
  BY <1>1, <1>4 DEF Math, Acquire, ReduceTile, Commit
<1>5. CASE Pack
  BY <1>1, <1>5 DEF Pack, WaitDest, ReserveOutput, PackTile, PushOutput, Release
<1>6. CASE Writer
  BY <1>1, <1>6 DEF Writer, WaitOutput, IssueWrite, WriteBarrier, PopOutput
<1>7. CASE DeliverRead
  BY <1>1, <1>7 DEF DeliverRead
<1>8. CASE DeliverWrite
  <2>1. PICK wr \in writes :
           /\ dst' = [dst EXCEPT ![wr.page] = outSlot[wr.slot]]
           /\ UNCHANGED <<src, launch>>
    BY <1>8 DEF DeliverWrite
  <2>2. /\ wr = [page |-> row["writer"], slot |-> OutFront] /\ pc["writer"] = "barrier"
        /\ writes # {} /\ popped["output"] = row["writer"] /\ HasEntry("output")
    BY DEF IInv, WriterInv
  <2>3. row["writer"] \in Row /\ row["writer"] \in Nat
    BY <2>2 DEF IInv, TypeOK, WriterInv, Row
  <2>4. outSlot[OutFront] = RowSum(src, row["writer"])
    <3>1. popped["output"] \in Nat /\ pushed["output"] \in Nat
      BY DEF IInv, TypeOK, Dfb
    <3>2. row["writer"] \in Published("output")
      BY <2>2, <3>1 DEF HasEntry, Occupancy, Published
    <3> QED
      BY <2>2, <3>2 DEF IInv, OutputInv, OutFront
  <2>5. dst[row["writer"]] = Poison
    BY <2>2, <2>3 DEF IInv, DramInv, Delivered
  <2>6. \A q \in 0 .. row["writer"] - 1 : dst[q] # Poison
    BY <2>3, DramContents DEF Row
  <2>7. dst' = [dst EXCEPT ![row["writer"]] = Sums!RowSum(src, row["writer"])]
    BY <2>1, <2>2, <2>4 DEF RowSum, Sums!RowSum
  <2>8. Sums!StoreRow
    BY <2>1, <2>3, <2>5, <2>6, <2>7 DEF Sums!StoreRow, Sums!Row, Row
  <2> QED
    BY <2>8 DEF Sums!Next
<1>9. CASE Launch
  <2>1. \A r \in Row : dst[r] # Poison
    BY <1>9, DoneState, DramContents DEF Launch, Row
  <2>2. Sums!Launch
    BY <1>9, <2>1 DEF Launch, Sums!Launch, Sums!Row, Row, AllPoison, Sums!AllPoison
  <2> QED
    BY <2>2 DEF Sums!Next
<1>10. CASE UNCHANGED vars
  BY <1>1, <1>10 DEF vars
<1> QED
  BY <1>2, <1>3, <1>4, <1>5, <1>6, <1>7, <1>8, <1>9, <1>10 DEF Next, Terminating

\* The reader, compute and writer threads, their buffers and the NoC together
\* implement the row reduction: every output page is stored once, in order and
\* complete (the safety part of ImplementsRowReduce).
THEOREM Implementation == Spec => Sums!Spec
<1>1. Init => Sums!Init
  BY DEF Init, Sums!Init, AllPoison, Sums!AllPoison, Row, Sums!Row
<1>2. IInv /\ [Next]_vars => [Sums!Next]_(Sums!vars)
  BY StepSimulation
<1> QED
  BY <1>1, <1>2, Invariance, PTL DEF Spec, Sums!Spec

=============================================================================
