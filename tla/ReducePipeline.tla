--------------------------- MODULE ReducePipeline ---------------------------
(***************************************************************************)
(* The device program: the reader, compute and writer kernels of kernels/, *)
(* the three dataflow buffers that make_program declares, and the host     *)
(* loop of run() seen from the device (one Launch per iteration).          *)
(*                                                                         *)
(* Five threads run concurrently.  The reader and the writer are the two   *)
(* data movement processors.  compute.cpp is built three times, once for   *)
(* each Tensix thread (results/jit holds the trisc0, trisc1 and trisc2     *)
(* images), and each thread executes only its own part of every call:      *)
(*   unpack  wait_front and pop_front, the operand side of reduce_tile     *)
(*   math    tile_regs_acquire, the arithmetic of reduce_tile,             *)
(*           tile_regs_commit                                              *)
(*   pack    tile_regs_wait, reserve_back, pack_tile, push_back,           *)
(*           tile_regs_release                                             *)
(* NoC transfers are asynchronous: an issued transfer moves its data at    *)
(* any moment before the barrier that follows it returns.                  *)
(***************************************************************************)
EXTENDS RowSums

CONSTANTS
    InputEntries,   \* num_entries of the input buffer
    OutputEntries,  \* num_entries of the output buffer
    SrcBanks,       \* operand register banks between unpack and math
    DestBanks,      \* halves of the Dest register (double_buffer_dest)
    Garbage         \* content of L1 storage nobody has written yet

ASSUME CapacityAssumption ==
    /\ InputEntries \in Nat \ {0}
    /\ OutputEntries \in Nat \ {0}
    /\ SrcBanks \in Nat \ {0}
    /\ DestBanks \in Nat \ {0}

ASSUME GarbageAssumption == Garbage \notin Datum

\* A tile in L1 or in an operand register.
Tile == Datum \cup {Garbage}

\* A scaler tile: the bits 1.0 in the first row of every face, or anything.
Unit == "unit"
ScalerTile == {Unit, "stale"}

\* A reduced tile is the sequence of the products accumulated in it.
Sum == Seq(Tile)

\* The matrix product of a data tile and the scaler.
Product(scale, data) == IF scale = Unit THEN data ELSE Garbage

VARIABLES
    src,      \* input tensor in DRAM
    dst,      \* output tensor in DRAM
    launch,   \* number of the current launch
    inSlot,   \* L1 storage of the input buffer
    scSlot,   \* L1 storage of the scaler buffer, one entry
    outSlot,  \* L1 storage of the output buffer
    pushed,   \* entries pushed to each buffer since the launch
    popped,   \* entries popped from each buffer since the launch
    reads,    \* NoC reads issued and not yet delivered
    writes,   \* NoC writes issued and not yet delivered
    srcRegs,  \* products waiting in the operand registers
    dest,     \* the Dest halves
    ready,    \* Dest halves committed by math and not released by pack
    pc,       \* where each thread is
    row,      \* outer loop counter of each thread
    col       \* tile_col, the inner loop counter of unpack and math

dram == <<src, dst, launch>>
buffers == <<inSlot, scSlot, outSlot>>
cursors == <<pushed, popped>>
noc == <<reads, writes>>
registers == <<srcRegs, dest, ready>>
control == <<pc, row, col>>
vars == <<dram, buffers, cursors, noc, registers, control>>

Thread == {"reader", "unpack", "math", "pack", "writer"}

Dfb == {"input", "scaler", "output"}

Entries == [input |-> InputEntries, scaler |-> 1, output |-> OutputEntries]

\* Runtime arguments bound before every launch.
ReaderTiles == Ht * Wt
\* Faulty variant: the writer is bound the tile count of the input.
WriterTilesOfInput == Ht * Wt

WriterTiles == Ht

Start == [reader |-> "reserveScaler", unpack |-> "waitScaler",
          math |-> "acquire", pack |-> "wait", writer |-> "wait"]

Done == \A t \in Thread : pc[t] = "done"

Occupancy(b) == pushed[b] - popped[b]
HasRoom(b) == Occupancy(b) < Entries[b]
HasEntry(b) == Occupancy(b) > 0

\* The slots the producer fills next and the consumer reads next.
InBack == pushed["input"] % InputEntries
InFront == popped["input"] % InputEntries
OutBack == pushed["output"] % OutputEntries
OutFront == popped["output"] % OutputEntries

Bank(t) == row[t] % DestBanks

Init ==
    /\ src \in Inputs
    /\ dst = AllPoison
    /\ launch = 1
    /\ inSlot = [s \in 0 .. InputEntries - 1 |-> Garbage]
    /\ scSlot = "stale"
    /\ outSlot = [s \in 0 .. OutputEntries - 1 |-> <<Garbage>>]
    /\ pushed = [b \in Dfb |-> 0]
    /\ popped = [b \in Dfb |-> 0]
    /\ reads = {}
    /\ writes = {}
    /\ srcRegs = << >>
    /\ dest = [k \in 0 .. DestBanks - 1 |-> << >>]
    /\ ready = 0
    /\ pc = Start
    /\ row = [t \in Thread |-> 0]
    /\ col = [t \in {"unpack", "math"} |-> 0]

-----------------------------------------------------------------------------
\* Control moves of one thread.

At(t, here) == pc[t] = here

Goto(t, there) ==
    /\ pc' = [pc EXCEPT ![t] = there]
    /\ UNCHANGED <<row, col>>

\* The end of one round of a loop of n rounds.
NextRound(t, n, again) ==
    /\ row' = [row EXCEPT ![t] = @ + 1]
    /\ pc' = [pc EXCEPT ![t] = IF row[t] + 1 < n THEN again ELSE "done"]

PushBack(b) ==
    /\ pushed' = [pushed EXCEPT ![b] = @ + 1]
    /\ UNCHANGED popped

PopFront(b) ==
    /\ popped' = [popped EXCEPT ![b] = @ + 1]
    /\ UNCHANGED pushed

-----------------------------------------------------------------------------
\* reader.cpp

ReserveScaler ==
    /\ At("reader", "reserveScaler")
    /\ HasRoom("scaler")
    /\ Goto("reader", "fillScaler")
    /\ UNCHANGED <<dram, buffers, cursors, noc, registers>>

FillScaler ==
    /\ At("reader", "fillScaler")
    /\ scSlot' = Unit
    /\ Goto("reader", "pushScaler")
    /\ UNCHANGED <<dram, inSlot, outSlot, cursors, noc, registers>>

PushScaler ==
    /\ At("reader", "pushScaler")
    /\ PushBack("scaler")
    /\ Goto("reader", "reserve")
    /\ UNCHANGED <<dram, buffers, noc, registers>>

ReserveInput ==
    /\ At("reader", "reserve")
    /\ HasRoom("input")
    /\ Goto("reader", "read")
    /\ UNCHANGED <<dram, buffers, cursors, noc, registers>>

IssueRead ==
    /\ At("reader", "read")
    /\ reads' = reads \cup {[page |-> row["reader"], slot |-> InBack]}
    /\ Goto("reader", "barrier")
    /\ UNCHANGED <<dram, buffers, cursors, writes, registers>>

\* Faulty variant: no read_barrier between async_read and push_back.
ReadBarrierOmitted ==
    /\ At("reader", "barrier")
    /\ Goto("reader", "push")
    /\ UNCHANGED <<dram, buffers, cursors, noc, registers>>

ReadBarrier ==
    /\ At("reader", "barrier")
    /\ reads = {}
    /\ Goto("reader", "push")
    /\ UNCHANGED <<dram, buffers, cursors, noc, registers>>

PushInput ==
    /\ At("reader", "push")
    /\ PushBack("input")
    /\ NextRound("reader", ReaderTiles, "reserve")
    /\ UNCHANGED <<dram, buffers, noc, registers, col>>

Reader ==
    \/ ReserveScaler \/ FillScaler \/ PushScaler
    \/ ReserveInput \/ IssueRead \/ ReadBarrier \/ PushInput

-----------------------------------------------------------------------------
\* compute.cpp, unpack thread

WaitScaler ==
    /\ At("unpack", "waitScaler")
    /\ HasEntry("scaler")
    /\ Goto("unpack", "wait")
    /\ UNCHANGED <<dram, buffers, cursors, noc, registers>>

WaitInput ==
    /\ At("unpack", "wait")
    /\ HasEntry("input")
    /\ Goto("unpack", "reduce")
    /\ UNCHANGED <<dram, buffers, cursors, noc, registers>>

UnpackTile ==
    /\ At("unpack", "reduce")
    /\ Len(srcRegs) < SrcBanks
    /\ srcRegs' = Append(srcRegs, Product(scSlot, inSlot[InFront]))
    /\ Goto("unpack", "pop")
    /\ UNCHANGED <<dram, buffers, cursors, noc, dest, ready>>

\* pop_front(1) and the end of a round of the column loop, and of the row
\* loop after the last column.
PopInput ==
    /\ At("unpack", "pop")
    /\ PopFront("input")
    /\ IF col["unpack"] + 1 < Wt
         THEN /\ col' = [col EXCEPT !["unpack"] = @ + 1]
              /\ pc' = [pc EXCEPT !["unpack"] = "wait"]
              /\ UNCHANGED row
         ELSE /\ col' = [col EXCEPT !["unpack"] = 0]
              /\ NextRound("unpack", Ht, "wait")
    /\ UNCHANGED <<dram, buffers, noc, registers>>

Unpack == WaitScaler \/ WaitInput \/ UnpackTile \/ PopInput

-----------------------------------------------------------------------------
\* compute.cpp, math thread

\* Faulty variant: math takes a Dest half that pack has not released.
AcquireAnyHalf ==
    /\ At("math", "acquire")
    /\ Goto("math", "reduce")
    /\ UNCHANGED <<dram, buffers, cursors, noc, registers>>

Acquire ==
    /\ At("math", "acquire")
    /\ ready < DestBanks
    /\ Goto("math", "reduce")
    /\ UNCHANGED <<dram, buffers, cursors, noc, registers>>

\* The product is added to what the Dest half holds.
ReduceTile ==
    /\ At("math", "reduce")
    /\ srcRegs # << >>
    /\ dest' = [dest EXCEPT ![Bank("math")] = Append(@, Head(srcRegs))]
    /\ srcRegs' = Tail(srcRegs)
    /\ col' = [col EXCEPT !["math"] = @ + 1]
    /\ pc' = [pc EXCEPT !["math"] = IF col["math"] + 1 < Wt
                                      THEN "reduce" ELSE "commit"]
    /\ UNCHANGED <<dram, buffers, cursors, noc, ready, row>>

Commit ==
    /\ At("math", "commit")
    /\ ready' = ready + 1
    /\ col' = [col EXCEPT !["math"] = 0]
    /\ NextRound("math", Ht, "acquire")
    /\ UNCHANGED <<dram, buffers, cursors, noc, srcRegs, dest>>

Math == Acquire \/ ReduceTile \/ Commit

-----------------------------------------------------------------------------
\* compute.cpp, pack thread

WaitDest ==
    /\ At("pack", "wait")
    /\ ready > 0
    /\ Goto("pack", "reserve")
    /\ UNCHANGED <<dram, buffers, cursors, noc, registers>>

\* Faulty variant: pack_tile without reserve_back.
ReserveOutputOmitted ==
    /\ At("pack", "reserve")
    /\ Goto("pack", "pack")
    /\ UNCHANGED <<dram, buffers, cursors, noc, registers>>

ReserveOutput ==
    /\ At("pack", "reserve")
    /\ HasRoom("output")
    /\ Goto("pack", "pack")
    /\ UNCHANGED <<dram, buffers, cursors, noc, registers>>

PackTile ==
    /\ At("pack", "pack")
    /\ outSlot' = [outSlot EXCEPT ![OutBack] = dest[Bank("pack")]]
    /\ Goto("pack", "push")
    /\ UNCHANGED <<dram, inSlot, scSlot, cursors, noc, registers>>

PushOutput ==
    /\ At("pack", "push")
    /\ PushBack("output")
    /\ Goto("pack", "release")
    /\ UNCHANGED <<dram, buffers, noc, registers>>

\* Faulty variant: the half goes back with the last sum in it.
ReleaseUncleared ==
    /\ At("pack", "release")
    /\ ready' = ready - 1
    /\ NextRound("pack", Ht, "wait")
    /\ UNCHANGED <<dram, buffers, cursors, noc, srcRegs, dest, col>>

\* The packer clears the half it hands back.
Release ==
    /\ At("pack", "release")
    /\ dest' = [dest EXCEPT ![Bank("pack")] = << >>]
    /\ ready' = ready - 1
    /\ NextRound("pack", Ht, "wait")
    /\ UNCHANGED <<dram, buffers, cursors, noc, srcRegs, col>>

Pack == WaitDest \/ ReserveOutput \/ PackTile \/ PushOutput \/ Release

-----------------------------------------------------------------------------
\* writer.cpp

WaitOutput ==
    /\ At("writer", "wait")
    /\ HasEntry("output")
    /\ Goto("writer", "write")
    /\ UNCHANGED <<dram, buffers, cursors, noc, registers>>

IssueWrite ==
    /\ At("writer", "write")
    /\ writes' = writes \cup {[page |-> row["writer"], slot |-> OutFront]}
    /\ Goto("writer", "barrier")
    /\ UNCHANGED <<dram, buffers, cursors, reads, registers>>

\* Faulty variant: no write_barrier between async_write and pop_front.
WriteBarrierOmitted ==
    /\ At("writer", "barrier")
    /\ Goto("writer", "pop")
    /\ UNCHANGED <<dram, buffers, cursors, noc, registers>>

WriteBarrier ==
    /\ At("writer", "barrier")
    /\ writes = {}
    /\ Goto("writer", "pop")
    /\ UNCHANGED <<dram, buffers, cursors, noc, registers>>

PopOutput ==
    /\ At("writer", "pop")
    /\ PopFront("output")
    /\ NextRound("writer", WriterTiles, "wait")
    /\ UNCHANGED <<dram, buffers, noc, registers, col>>

Writer == WaitOutput \/ IssueWrite \/ WriteBarrier \/ PopOutput

-----------------------------------------------------------------------------
\* The NoC moves the data of an issued transfer at a time of its own.

DeliverRead ==
    \E rd \in reads :
        /\ inSlot' = [inSlot EXCEPT ![rd.slot] = src[rd.page]]
        /\ reads' = reads \ {rd}
        /\ UNCHANGED <<dram, scSlot, outSlot, cursors, writes, registers, control>>

DeliverWrite ==
    \E wr \in writes :
        /\ dst' = [dst EXCEPT ![wr.page] = outSlot[wr.slot]]
        /\ writes' = writes \ {wr}
        /\ UNCHANGED <<src, launch, buffers, cursors, reads, registers, control>>

-----------------------------------------------------------------------------
\* Faulty variant: the output of the last launch is left in place.
LaunchUnpoisoned ==
    /\ Done
    /\ launch < Repeats
    /\ src' \in Inputs
    /\ dst' = dst
    /\ launch' = launch + 1
    /\ pushed' = [b \in Dfb |-> 0]
    /\ popped' = [b \in Dfb |-> 0]
    /\ pc' = Start
    /\ row' = [t \in Thread |-> 0]
    /\ col' = [t \in {"unpack", "math"} |-> 0]
    /\ UNCHANGED <<buffers, noc, registers>>

\* One more iteration of the loop of run(): Finish has returned, the host
\* uploads an input, poisons the output and enqueues the same program again.
\* The buffer cursors start over; the L1 storage keeps what it holds.
Launch ==
    /\ Done
    /\ launch < Repeats
    /\ src' \in Inputs
    /\ dst' = AllPoison
    /\ launch' = launch + 1
    /\ pushed' = [b \in Dfb |-> 0]
    /\ popped' = [b \in Dfb |-> 0]
    /\ pc' = Start
    /\ row' = [t \in Thread |-> 0]
    /\ col' = [t \in {"unpack", "math"} |-> 0]
    /\ UNCHANGED <<buffers, noc, registers>>

Finished == Done /\ launch = Repeats

Terminating == Finished /\ UNCHANGED vars

Next ==
    \/ Reader \/ Unpack \/ Math \/ Pack \/ Writer
    \/ DeliverRead \/ DeliverWrite
    \/ Launch
    \/ Terminating

Spec == Init /\ [][Next]_vars

\* Each processor keeps running, the NoC delivers what was issued and the host
\* goes on to the next launch.
Fairness ==
    /\ WF_vars(Reader) /\ WF_vars(Unpack) /\ WF_vars(Math)
    /\ WF_vars(Pack) /\ WF_vars(Writer)
    /\ WF_vars(DeliverRead) /\ WF_vars(DeliverWrite)
    /\ WF_vars(Launch)

FairSpec == Spec /\ Fairness

-----------------------------------------------------------------------------
Label ==
    {"reserveScaler", "fillScaler", "pushScaler", "waitScaler", "reserve",
     "read", "barrier", "push", "wait", "reduce", "pop", "acquire", "commit",
     "pack", "release", "write", "done"}

\* Every variable stays in its type: cursors within the program's loops,
\* transfers that name real pages and slots.
TypeOK ==
    /\ src \in Inputs
    /\ dst \in [Row -> Sum \cup {Poison}]
    /\ launch \in 1 .. Repeats
    /\ inSlot \in [0 .. InputEntries - 1 -> Tile]
    /\ scSlot \in ScalerTile
    /\ outSlot \in [0 .. OutputEntries - 1 -> Sum]
    /\ pushed \in [Dfb -> Nat]
    /\ popped \in [Dfb -> Nat]
    /\ reads \subseteq [page : Page, slot : 0 .. InputEntries - 1]
    /\ writes \subseteq [page : Row, slot : 0 .. OutputEntries - 1]
    /\ srcRegs \in Seq(Tile)
    /\ dest \in [0 .. DestBanks - 1 -> Sum]
    /\ ready \in 0 .. DestBanks
    /\ pc \in [Thread -> Label]
    /\ row \in [Thread -> Nat]
    /\ col \in [{"unpack", "math"} -> 0 .. Wt]

\* Entries of a buffer that are published: pushed and not yet popped.
Published(b) == popped[b] .. pushed[b] - 1

\* docs/design.md: "reserve_back -> async_read -> read_barrier -> push_back
\* publishes only complete data".  Whatever a consumer can see in a buffer is
\* complete and is the entry of this launch: never a stale tile of an earlier
\* lap or launch, a tile still on its way or a sum short of a term.
PublishedComplete ==
    /\ \A k \in Published("input") : inSlot[k % InputEntries] = src[k]
    /\ \A k \in Published("output") : outSlot[k % OutputEntries] = RowSum(src, k)
    /\ HasEntry("scaler") => scSlot = Unit

\* docs/design.md: "storage cannot be reused before the write completes".  A
\* slot under a NoC transfer belongs to the thread that issued it: the target
\* of a read is not published, the source of a write is still published and
\* pack is not about to overwrite it.
TransferExclusive ==
    /\ \A rd \in reads, k \in Published("input") : rd.slot # k % InputEntries
    /\ \A wr \in writes :
        /\ \E k \in Published("output") : wr.slot = k % OutputEntries
        /\ pc["pack"] \in {"pack", "push"} => wr.slot # OutBack

\* acquire/wait/pack/commit/release: math never accumulates in the Dest half
\* that pack is reading or clearing.
DestExclusive ==
    /\ pc["math"] \in {"reduce", "commit"}
    /\ pc["pack"] \in {"reserve", "pack", "push", "release"}
    => Bank("math") # Bank("pack")

\* The host sees in an output page the poison or the exact sum of the page's
\* own tile row of this launch's input, and when every kernel has returned it
\* sees only sums.
OutputCorrect ==
    /\ \A r \in Row : dst[r] \in {Poison, RowSum(src, r)}
    /\ Done => \A r \in Row : dst[r] # Poison

\* Finish returns for every launch: no kernel waits for ever on a buffer, a
\* barrier or a Dest half.
EveryLaunchFinishes == <>Finished

Sums == INSTANCE RowReduce WITH src <- src, dst <- dst, launch <- launch

\* The five threads together implement the row reduction: rows are stored
\* once, in order, complete.
ImplementsRowReduce == Sums!FairSpec

=============================================================================
