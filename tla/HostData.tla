------------------------------ MODULE HostData ------------------------------
(***************************************************************************)
(* The way of one matrix through the host: padding, tilizing, packing into *)
(* words, the reduction of the tiles, unpacking, untilizing and the two    *)
(* decoders.  Every logical element has a label of its own, so an element  *)
(* that goes astray, comes twice or is padding shows in the row sums.      *)
(***************************************************************************)
EXTENDS TileLayout

CONSTANT MaxDimension   \* max_dimension, 128 in the source

ASSUME DimensionAssumption == MaxDimension \in Nat \ {0}

\* An element has a label or is zero.  A sum is what was added up at each column,
\* where that is not zero; zero is the sum of nothing.
Zero == [column \in {} |-> column]
Label(row, col) == <<row, col>>
Junk == <<-1, -1>>

VARIABLES
    phase,
    shape,     \* logical rows and columns, as asked for
    padded,    \* padded_row_major
    words,     \* the 32-bit words uploaded, two elements each
    output,    \* the words in the output tensor
    corrupt,   \* whether the device spoilt an element (history)
    actual,    \* the row sums taken from column zero
    padding_zero,
    decoded    \* what decode_output returns, Empty when it throws

vars == <<phase, shape, padded, words, output, corrupt, actual, padding_zero, decoded>>

Rows == shape[1]
Cols == shape[2]
PaddedRows == PaddedDimension(Rows)
PaddedCols == PaddedDimension(Cols)
Ht == PaddedRows \div TileSide
Wt == PaddedCols \div TileSide

Empty == [e \in {} |-> Zero]

Init ==
    /\ phase = "validate"
    /\ shape \in (0 .. MaxDimension + 1) \X (0 .. MaxDimension + 1)
    /\ padded = Empty
    /\ words = Empty
    /\ output = Empty
    /\ corrupt = FALSE
    /\ actual = Empty
    /\ padding_zero = TRUE
    /\ decoded = Empty

-----------------------------------------------------------------------------
\* validate_shape
Refused ==
    Rows = 0 \/ Cols = 0 \/ Rows > MaxDimension \/ Cols > MaxDimension

Validate ==
    /\ phase = "validate"
    /\ phase' = IF Refused THEN "rejected" ELSE "prepare"
    /\ UNCHANGED <<shape, padded, words, output, corrupt, actual, padding_zero, decoded>>

\* Logical elements in the top left corner, positive zeros around them.
Pad(rows, cols) ==
    [e \in Elements(PaddedRows, PaddedCols) |->
        LET row == e \div PaddedCols
            col == e % PaddedCols
        IN IF row < rows /\ col < cols THEN Label(row, col) ELSE Zero]

Prepare ==
    /\ phase = "prepare"
    /\ phase' = "transfer"
    /\ padded' = Pad(Rows, Cols)
    /\ UNCHANGED <<shape, words, output, corrupt, actual, padding_zero, decoded>>

\* Two elements to a word, the first one in the low half.
Packed(low, high) == [low |-> low, high |-> high]

TransferWords(tiled, n) == [i \in 0 .. (n \div 2) - 1 |-> Packed(tiled[2 * i], tiled[2 * i + 1])]

ResultBits(ws, n) == [e \in 0 .. n - 1 |->
    IF e % 2 = 0 THEN ws[e \div 2].low ELSE ws[e \div 2].high]

Upload ==
    /\ phase = "transfer"
    /\ phase' = "device"
    /\ words' = TransferWords(Tilize(padded, PaddedRows, PaddedCols), PaddedRows * PaddedCols)
    /\ UNCHANGED <<shape, padded, output, corrupt, actual, padding_zero, decoded>>

-----------------------------------------------------------------------------
\* The device.  A tile in L1 holds its four faces one after the other.
InTile(i, j) ==
    ((2 * (i \div FaceSide) + j \div FaceSide) * FaceElems)
      + ((i % FaceSide) * FaceSide) + (j % FaceSide)

\* Faulty variant: ones in the first row of the tile instead of each face.
ScalerTopRow == [e \in 0 .. TileElems - 1 |->
    IF \E face \in 0 .. 1, col \in 0 .. FaceSide - 1 : e = (face * FaceElems) + col
      THEN 1 ELSE 0]

\* reader.cpp: 1.0 in the first row of each of the four faces.
Scaler == [e \in 0 .. TileElems - 1 |->
    IF \E face \in 0 .. 3, col \in 0 .. FaceSide - 1 : e = (face * FaceElems) + col
      THEN 1 ELSE 0]

\* REDUCE_ROW multiplies an element by the first row of the scaler's face.
Scale(i, j) == Scaler[InTile(i - (i % FaceSide), j)]

\* What row i of tile row r adds up: at column n the element, if it is scaled by one.
Term(tiles, r, i, n) ==
    IF Scale(i, n % TileSide) = 1
      THEN tiles[((r * Wt + n \div TileSide) * TileElems) + InTile(i, n % TileSide)]
      ELSE Zero

RowTerms(tiles, r, i) ==
    [n \in {k \in 0 .. (Wt * TileSide) - 1 : Term(tiles, r, i, k) # Zero} |-> Term(tiles, r, i, n)]

\* The sums are in column zero of the output tiles, the rest is zero.
Reduce(tiles) ==
    [e \in 0 .. (Ht * TileElems) - 1 |->
        LET i == CHOOSE k \in 0 .. TileSide - 1 :
                   \E j \in 0 .. TileSide - 1 : InTile(k, j) = e % TileElems
        IN IF InTile(i, 0) = e % TileElems
             THEN RowTerms(tiles, e \div TileElems, i)
             ELSE Zero]

Launch ==
    /\ phase = "device"
    /\ phase' = "read"
    /\ output' = TransferWords(Reduce(ResultBits(words, PaddedRows * PaddedCols)), Ht * TileElems)
    /\ UNCHANGED <<shape, padded, words, corrupt, actual, padding_zero, decoded>>

\* A device that is wrong in one element, wherever it is.
Corrupt ==
    /\ phase = "read" /\ ~corrupt
    /\ corrupt' = TRUE
    /\ \E i \in DOMAIN output, half \in {"low", "high"} :
         output' = [output EXCEPT ![i][half] = Junk]
    /\ UNCHANGED <<phase, shape, padded, words, actual, padding_zero, decoded>>

-----------------------------------------------------------------------------
\* run() of metal_main.cpp after the readback

OutputBits == ResultBits(output, Ht * TileElems)

Column(rowMajor, r) == rowMajor[r * TileSide]

\* Faulty variant: padded rows are not looked at.
IsPaddingColumn(row, col) == col # 0 /\ row < Rows

\* Faulty variant: the other columns are not looked at.
IsPaddingRow(row, col) == row >= Rows

IsPadding(row, col) == row >= Rows \/ col # 0

ReadBack ==
    /\ phase = "read"
    /\ phase' = "compare"
    /\ LET rowMajor == Untilize(OutputBits, PaddedRows, TileSide) IN
         /\ actual' = [r \in 0 .. Rows - 1 |-> Column(rowMajor, r)]
         /\ padding_zero' = \A rc \in Coordinate(PaddedRows, TileSide) :
              IsPadding(rc[1], rc[2]) => rowMajor[rc[1] * TileSide + rc[2]] = Zero
    /\ UNCHANGED <<shape, padded, words, output, corrupt, decoded>>

\* decode_output, which throws at the first padding element that is not zero.
Decode ==
    /\ phase = "compare"
    /\ phase' = "done"
    /\ LET rowMajor == Untilize(OutputBits, PaddedRows, TileSide) IN
         decoded' = IF \E rc \in Coordinate(PaddedRows, TileSide) :
                          /\ ~(rc[1] < Rows /\ rc[2] = 0)
                          /\ rowMajor[rc[1] * TileSide + rc[2]] # Zero
                      THEN Empty
                      ELSE [r \in 0 .. Rows - 1 |-> Column(rowMajor, r)]
    /\ UNCHANGED <<shape, padded, words, output, corrupt, actual, padding_zero>>

Terminating == phase \in {"done", "rejected"} /\ UNCHANGED vars

Next ==
    \/ Validate \/ Prepare \/ Upload \/ Launch \/ Corrupt \/ ReadBack \/ Decode
    \/ Terminating

Spec == Init /\ [][Next]_vars

-----------------------------------------------------------------------------
\* What the host expects in row r: the logical elements of the row, once each.
Reference(r) == [c \in 0 .. Cols - 1 |-> Label(r, c)]

RowsPass == \A r \in 0 .. Rows - 1 : actual[r] = Reference(r)

Read == phase \in {"compare", "done"}

\* The layout of the host, the faces of the device, the scaler tile and the
\* readback fit together: a device that reduces its tiles delivers the sum of
\* every logical row, each element once, and zero padding.
RowsDelivered == Read /\ ~corrupt => RowsPass /\ padding_zero

\* One wrong element anywhere in the output tiles never passes: it is either a
\* row sum or padding.
FaultCaught == Read /\ corrupt => ~(RowsPass /\ padding_zero)

\* "Upstream untilizer disagrees with independent output decoder" is never
\* thrown for the host's own part: both decoders see the same rows, and the same
\* padding.
DecodersAgree ==
    phase = "done" => decoded = IF padding_zero THEN actual ELSE Empty

=============================================================================
