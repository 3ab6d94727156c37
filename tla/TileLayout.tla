----------------------------- MODULE TileLayout -----------------------------
(***************************************************************************)
(* Where the elements of the tile-face layout of row_reduce.hpp are: one   *)
(* formula, used by tilize, untilize and decode_output.                    *)
(***************************************************************************)
EXTENDS Integers

CONSTANT FaceSide   \* rows and columns of one face, 16 in the source

ASSUME FaceAssumption == FaceSide \in Nat \ {0}

TileSide == 2 * FaceSide
FaceElems == FaceSide * FaceSide
TileElems == 4 * FaceElems

\* Faces 0 top left, 1 top right, 2 bottom left, 3 bottom right.
FaceOf(row, col) == ((row % TileSide) \div FaceSide) * 2 + (col % TileSide) \div FaceSide

TileOf(row, col, cols) == (row \div TileSide) * (cols \div TileSide) + col \div TileSide

Index(row, col, cols) ==
    (TileOf(row, col, cols) * TileElems)
      + (FaceOf(row, col) * FaceElems)
      + ((row % FaceSide) * FaceSide) + (col % FaceSide)

\* The smallest multiple of the tile side that holds the dimension.
PaddedDimension(dimension) ==
    ((dimension + TileSide - 1) \div TileSide) * TileSide

Coordinate(rows, cols) == (0 .. rows - 1) \X (0 .. cols - 1)

Elements(rows, cols) == 0 .. rows * cols - 1

\* Row-major and tiled vectors are functions from positions.
Tilize(rowMajor, rows, cols) ==
    [e \in Elements(rows, cols) |->
        LET at == CHOOSE rc \in Coordinate(rows, cols) : Index(rc[1], rc[2], cols) = e
        IN rowMajor[at[1] * cols + at[2]]]

Untilize(tiled, rows, cols) ==
    [e \in Elements(rows, cols) |-> tiled[Index(e \div cols, e % cols, cols)]]

=============================================================================
