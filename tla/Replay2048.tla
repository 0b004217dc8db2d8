------------------------------ MODULE Replay2048 ------------------------------
(* The replay of a game from its seed and its moves: one step per move of the  *)
(* loop of replayGame. The contract runs it on a submission, and the page      *)
(* after every key, so each prefix of a game is a replay too. The tiles that   *)
(* the seed yields are any tiles: nothing is known of a hash.                  *)
EXTENDS Board2048

CONSTANTS
  MoveCaps,   \* what maxMoves a session may have, 0 for none
  ReplayBound \* moves of a replay that the model follows

STOP_REASON_PLAYER_STOPPED == 1
STOP_REASON_NO_MOVES       == 2
STOP_REASON_MAX_MOVES      == 3
TIMER_EXPIRED              == 4

VARIABLES
  board, score, moveCount, maxMoves,
  endedReason, \* 0 while the loop goes on
  fours        \* how many tiles of 4 the seed has given

replayVars == <<board, score, moveCount, maxMoves, endedReason, fours>>

\* The boards that spawnTile may make of a board, with the tile it added.
spawnTile(b) ==
  {[board |-> [b EXCEPT ![c] = v], tile |-> v] : c \in getEmptyIndexes(b), v \in {2, 4}}

FourOf(tile) == IF tile = 4 THEN 1 ELSE 0

ReplayInit ==
  /\ \E first \in spawnTile(createEmptyBoard) : \E second \in spawnTile(first.board) :
       /\ board = second.board
       /\ fours = FourOf(first.tile) + FourOf(second.tile)
  /\ maxMoves \in MoveCaps
  /\ score = 0
  /\ moveCount = 0
  /\ endedReason = 0

\* After a move the cap is looked at first, so a board that is stuck by the last
\* move a session allows ends for the cap.
EndAfter(b, count) ==
  IF maxMoves > 0 /\ count >= maxMoves THEN STOP_REASON_MAX_MOVES
  ELSE IF ~canMove(b) THEN STOP_REASON_NO_MOVES
  ELSE 0

\* One move of the list. A move that changes nothing counts, but brings no tile.
ReplayMove(direction) ==
  /\ endedReason = 0
  /\ moveCount < ReplayBound
  /\ moveCount' = moveCount + 1
  /\ LET outcome == applyMove(board, direction)
     IN /\ score' = score + outcome.scoreDelta
        /\ \/ /\ outcome.changed
              /\ \E spawn \in spawnTile(outcome.board) :
                   /\ board' = spawn.board
                   /\ fours' = fours + FourOf(spawn.tile)
           \/ /\ ~outcome.changed
              /\ board' = outcome.board
              /\ fours' = fours
  /\ endedReason' = EndAfter(board', moveCount')
  /\ UNCHANGED maxMoves

\* The list of moves is over: the result has the reason that was declared,
\* whichever it is.
MovesOver(stopReason) ==
  /\ endedReason = 0
  /\ endedReason' = IF stopReason = 0 THEN STOP_REASON_PLAYER_STOPPED ELSE stopReason
  /\ UNCHANGED <<board, score, moveCount, maxMoves, fours>>

ReplayNext ==
  \/ \E direction \in Directions : ReplayMove(direction)
  \/ \E stopReason \in 0 .. TIMER_EXPIRED : MovesOver(stopReason)

-----------------------------------------------------------------------------
\* What the merges that made a tile have scored, had it grown out of twos.
Worth[tile \in Nat] == IF tile <= 2 THEN 0 ELSE tile + 2 * Worth[tile \div 2]

\* The moves that would change a board.
MovesLeft(b) == {d \in Directions : applyMove(b, d).changed}

\* The result of a replay is that of its board. The score, which is summed up
\* line by line and move by move, is what the tiles on the board are worth, less
\* the merges that the spawned fours did not need: no merge is counted twice or
\* left out, in any direction. And canMove, which tries no move, says that there
\* is one exactly when one of the four would change the board; a replay on which
\* none would has ended, whatever its moves were to be.
ResultExplained ==
  /\ score = SumOver([c \in Cells |-> Worth[board[c]]], Cells) - 4 * fours
  /\ canMove(board) <=> MovesLeft(board) # {}
  /\ MovesLeft(board) = {} => endedReason \in {STOP_REASON_NO_MOVES, STOP_REASON_MAX_MOVES}
=============================================================================
