------------------------------ MODULE Board2048 ------------------------------
(* The rules of 2048 that the contract and the page share: how a line of tiles *)
(* is compressed, what a move does to a board, and when no move is left.       *)
EXTENDS Sums, Sequences, Functions

\* The code has one BOARD_SIZE for both; they are apart so that a small board
\* can have lines long enough for the cases of a merge.
CONSTANTS Rows, Columns

\* A board has room for more than the two tiles that a game begins with.
ASSUME BoardAssumption == Rows \in Nat /\ Columns \in Nat /\ Rows * Columns > 2

Cells == (1 .. Rows) \X (1 .. Columns)

\* An empty cell holds 0, as in the code.
createEmptyBoard == [c \in Cells |-> 0]

getEmptyIndexes(board) == {c \in Cells : board[c] = 0}

Neighbours(c) == Cells \cap {<<c[1], c[2] + 1>>, <<c[1] + 1, c[2]>>}

\* Mutant: tiles are compared along the rows only.
CanMoveInRows(board) ==
  \/ getEmptyIndexes(board) # {}
  \/ \E c \in Cells : <<c[1], c[2] + 1>> \in Cells /\ board[c] = board[<<c[1], c[2] + 1>>]

canMove(board) ==
  \/ getEmptyIndexes(board) # {}
  \/ \E c \in Cells : \E d \in Neighbours(c) : board[c] = board[d]

-----------------------------------------------------------------------------
\* A tile slides behind the tiles that are at the front of its line already, or into
\* the last of them when that is equal and open, that is, no merge made it.
Slide(front, tile) ==
  LET last == Len(front.line)
  IN IF tile = 0 THEN front
     ELSE IF front.open /\ front.line[last] = tile
     THEN [line |-> [front.line EXCEPT ![last] = 2 * tile],
           scoreDelta |-> front.scoreDelta + 2 * tile,
           open |-> FALSE]
     ELSE [line |-> Append(front.line, tile),
           scoreDelta |-> front.scoreDelta,
           open |-> TRUE]

\* The tiles slide one after the other, empty cells are passed over, and the line is
\* filled up with empty cells.
compressLine(values) ==
  LET slid[n \in 0 .. Len(values)] ==
        IF n = 0 THEN [line |-> <<>>, scoreDelta |-> 0, open |-> FALSE]
        ELSE Slide(slid[n - 1], values[n])
      front == slid[Len(values)]
  IN [line |-> [i \in 1 .. Len(values) |->
                  IF i <= Len(front.line) THEN front.line[i] ELSE 0],
      scoreDelta |-> front.scoreDelta]

-----------------------------------------------------------------------------
Directions == {"up", "right", "down", "left"}

\* The lines of a direction, each from the side its tiles slide to.
Lines(direction) ==
  CASE direction = "up"    -> {[i \in 1 .. Rows |-> <<i, c>>] : c \in 1 .. Columns}
    [] direction = "down"  -> {[i \in 1 .. Rows |-> <<Rows + 1 - i, c>>] : c \in 1 .. Columns}
    [] direction = "left"  -> {[i \in 1 .. Columns |-> <<r, i>>] : r \in 1 .. Rows}
    [] direction = "right" -> {[i \in 1 .. Columns |-> <<r, Columns + 1 - i>>] : r \in 1 .. Rows}

applyMove(board, direction) ==
  LET compressed == [l \in Lines(direction) |->
                       compressLine([i \in DOMAIN l |-> board[l[i]]])]
      next == [c \in Cells |->
                 LET l == CHOOSE l \in Lines(direction) : c \in Range(l)
                 IN compressed[l].line[CHOOSE i \in DOMAIN l : l[i] = c]]
  IN [board |-> next,
      changed |-> next # board,
      scoreDelta |-> SumOver([l \in Lines(direction) |-> compressed[l].scoreDelta],
                            Lines(direction))]
=============================================================================
