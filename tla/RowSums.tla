------------------------------ MODULE RowSums ------------------------------
(***************************************************************************)
(* The problem the device program solves, shared by its specifications:    *)
(* a matrix of Ht x Wt tiles in row-major DRAM pages, and its row sums.    *)
(*                                                                         *)
(* A tile is a member of Datum.  A sum of tiles is the sequence of its     *)
(* terms, so a sum that misses, repeats or reorders a term is another      *)
(* value; what the arithmetic makes of the terms is not modelled here.     *)
(***************************************************************************)
EXTENDS Integers, Sequences

CONSTANTS
    Ht,       \* tile rows of the input, one output page each
    Wt,       \* tiles in one tile row
    Repeats,  \* launches in one process (--repeat)
    Datum,    \* what an input tile can hold
    Inputs,   \* the inputs the host may upload
    Poison    \* the NaN pattern the host stores in the output beforehand

\* A padded dimension is a positive multiple of the tile side.
ASSUME ShapeAssumption == Ht \in Nat \ {0} /\ Wt \in Nat \ {0}

\* parse_options takes a repeat count in 1..100.
ASSUME RepeatsAssumption == Repeats \in Nat \ {0}

Row == 0 .. Ht - 1

Page == 0 .. Ht * Wt - 1

ASSUME InputsAssumption == Inputs \subseteq [Page -> Datum]

\* A validated input is finite, and so are its row sums; the poison is a NaN.
ASSUME PoisonAssumption == Poison \notin [1 .. Wt -> Datum]

\* The Wt tiles of tile row r, in the order in which they are accumulated.
RowSum(input, r) == [c \in 1 .. Wt |-> input[r * Wt + c - 1]]

AllPoison == [r \in Row |-> Poison]

=============================================================================
