------------------------- MODULE ReducePipelineInv -------------------------
(***************************************************************************)
(* The inductive invariant of ReducePipeline: what relates the position of *)
(* each thread to the buffers, registers and DRAM pages around it.  The    *)
(* safety properties of ReducePipeline are not inductive: they speak of    *)
(* contents, and why the contents are right depends on how far every       *)
(* thread has come.                                                        *)
(***************************************************************************)
EXTENDS ReducePipeline

\* Input tiles that a thread of compute.cpp has done with.
Consumed(t) == row[t] * Wt + col[t]

\* The operands of the current reduce_tile are taken before its pop_front.
Unpacked == Consumed("unpack") + (IF pc["unpack"] = "pop" THEN 1 ELSE 0)

\* The terms of row r that math has accumulated so far.
Accumulated(r) ==
    IF r < row["math"] THEN RowSum(src, r)
    ELSE IF r = row["math"] THEN [c \in 1 .. col["math"] |-> src[r * Wt + c - 1]]
    ELSE << >>

\* Output tiles that pack has pushed.
Packed == row["pack"] + (IF pc["pack"] = "release" THEN 1 ELSE 0)

\* Whether the page the writer is at has been delivered.
Delivered ==
    \/ (pc["writer"] = "barrier" /\ writes = {})
    \/ pc["writer"] = "pop"

BeforeScaler == {"reserveScaler", "fillScaler", "pushScaler"}

ReaderInv ==
    /\ pc["reader"] \in BeforeScaler \cup {"reserve", "read", "barrier", "push", "done"}
    /\ row["reader"] \in 0 .. Ht * Wt
    /\ pc["reader"] = "done" <=> row["reader"] = Ht * Wt
    /\ pushed["input"] = row["reader"]
    /\ pushed["scaler"] = IF pc["reader"] \in BeforeScaler THEN 0 ELSE 1
    /\ popped["scaler"] = 0
    /\ pc["reader"] \notin {"reserveScaler", "fillScaler"} => scSlot = Unit
    /\ pc["reader"] \in {"read", "barrier", "push"} => HasRoom("input")

ReadInv ==
    /\ reads \in {{}, {[page |-> row["reader"], slot |-> InBack]}}
    /\ pc["reader"] # "barrier" => reads = {}
    /\ (pc["reader"] = "barrier" /\ reads = {}) \/ pc["reader"] = "push"
         => inSlot[InBack] = src[row["reader"]]

InputInv ==
    /\ Occupancy("input") \in 0 .. InputEntries
    /\ \A k \in Published("input") : inSlot[k % InputEntries] = src[k]

UnpackInv ==
    /\ pc["unpack"] \in {"waitScaler", "wait", "reduce", "pop", "done"}
    /\ row["unpack"] \in 0 .. Ht
    /\ col["unpack"] \in 0 .. Wt - 1
    /\ pc["unpack"] = "done" <=> row["unpack"] = Ht
    /\ popped["input"] = Consumed("unpack")
    /\ pc["unpack"] # "waitScaler" => pushed["scaler"] = 1
    /\ pc["unpack"] \in {"reduce", "pop"} => HasEntry("input")

MathInv ==
    /\ pc["math"] \in {"acquire", "reduce", "commit", "done"}
    /\ row["math"] \in 0 .. Ht
    /\ pc["math"] = "done" <=> row["math"] = Ht
    /\ col["math"] = Wt <=> pc["math"] = "commit"
    /\ pc["math"] \in {"acquire", "done"} => col["math"] = 0
    /\ Consumed("math") + Len(srcRegs) = Unpacked
    /\ \A i \in 1 .. Len(srcRegs) : srcRegs[i] = src[Consumed("math") + i - 1]

DestInv ==
    /\ row["pack"] \in 0 .. Ht
    /\ ready = row["math"] - row["pack"]
    /\ pc["math"] \in {"reduce", "commit"} => ready < DestBanks
    /\ \A r \in row["pack"] .. row["pack"] + DestBanks - 1 :
         dest[r % DestBanks] = Accumulated(r)

PackInv ==
    /\ pc["pack"] \in {"wait", "reserve", "pack", "push", "release", "done"}
    /\ pc["pack"] = "done" <=> row["pack"] = Ht
    /\ pc["pack"] \in {"reserve", "pack", "push", "release"} => ready > 0
    /\ pc["pack"] \in {"pack", "push"} => HasRoom("output")
    /\ pushed["output"] = Packed
    /\ pc["pack"] = "push" => outSlot[OutBack] = RowSum(src, row["pack"])

OutputInv ==
    /\ Occupancy("output") \in 0 .. OutputEntries
    /\ \A k \in Published("output") : outSlot[k % OutputEntries] = RowSum(src, k)

WriterInv ==
    /\ pc["writer"] \in {"wait", "write", "barrier", "pop", "done"}
    /\ row["writer"] \in 0 .. Ht
    /\ pc["writer"] = "done" <=> row["writer"] = Ht
    /\ popped["output"] = row["writer"]
    /\ pc["writer"] \in {"write", "barrier", "pop"} => HasEntry("output")
    /\ writes \in {{}, {[page |-> row["writer"], slot |-> OutFront]}}
    /\ pc["writer"] # "barrier" => writes = {}

DramInv ==
    \A r \in Row :
        dst[r] = IF r < row["writer"] \/ (r = row["writer"] /\ Delivered)
                   THEN RowSum(src, r) ELSE Poison

\* Where every thread is, what it has consumed and produced, and what that
\* makes of every buffer, register and page.  It implies PublishedComplete,
\* TransferExclusive, DestExclusive and OutputCorrect.
IInv ==
    /\ TypeOK
    /\ ReaderInv
    /\ ReadInv
    /\ InputInv
    /\ UnpackInv
    /\ MathInv
    /\ DestInv
    /\ PackInv
    /\ OutputInv
    /\ WriterInv
    /\ DramInv

=============================================================================
