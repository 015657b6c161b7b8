----------------------------- MODULE GameLogic -----------------------------
(***************************************************************************)
(* The rules of the coin game: the pure functions of the server's          *)
(* game_logic.c, and the copy of the move rule that the client keeps in    *)
(* ui_screens/game_screen.c to refuse an illegal move before sending it.   *)
(*                                                                         *)
(* A board is a function from cells to {0, 1}, as in uint8_t board[12].    *)
(* The code has NumCells = 12 and NumCoins = 5, both written as literals.  *)
(***************************************************************************)
EXTENDS Integers, FiniteSets, FiniteSetsExt

CONSTANTS NumCells,     \* 12: cells of a board
          NumCoins      \* 5: coins that random_board_generator places

\* The hard-coded fallback board, coins at 2, 4, .., 2 * NumCoins, must fit.
ASSUME BoardAssumption ==
    /\ NumCells \in Nat
    /\ NumCoins \in Nat \ {0}
    /\ NumCells > 2 * NumCoins

Cells  == 0 .. NumCells - 1
Boards == [Cells -> {0, 1}]

\* The values a uint8_t move field takes: the cells and one value for all
\* those the bounds check refuses.
MoveFields == 0 .. NumCells

CoinsOf(board) == {i \in Cells : board[i] = 1}

(***************************************************************************)
(* game_is_move_valid.  The loop of the blocking check scans left from the *)
(* coin and stops at the first coin it meets; -1 when there is none.       *)
(***************************************************************************)
\* Faulty: without the break the scan ends at the leftmost coin.
PrevCoinNoBreak(board, coin_index) ==
    LET left == {i \in CoinsOf(board) : i < coin_index}
    IN  IF left = {} THEN -1 ELSE Min(left)

PrevCoin(board, coin_index) ==
    Max({-1} \cup {i \in CoinsOf(board) : i < coin_index})

\* Faulty: a coin may also go to the right.
IsMoveValidBothWays(board, coin_index, coin_pos) ==
    /\ {coin_index, coin_pos} \subseteq Cells
    /\ board[coin_index] = 1
    /\ board[coin_pos] = 0
    /\ coin_pos > PrevCoin(board, coin_index)

IsMoveValid(board, coin_index, coin_pos) ==
    /\ coin_index \in Cells
    /\ coin_pos \in Cells
    /\ coin_pos < coin_index
    /\ board[coin_index] = 1
    /\ board[coin_pos] = 0
    /\ \/ PrevCoin(board, coin_index) < 0
       \/ coin_pos > PrevCoin(board, coin_index)

\* Faulty: no check that the way is free.
ClientMoveJumps(board, fromIndex, toIndex) ==
    /\ {fromIndex, toIndex} \subseteq Cells
    /\ board[fromIndex] # 0 /\ board[toIndex] = 0
    /\ ~ toIndex >= fromIndex

\* The client's rule: the same checks in another order, with "not 0" for "1"
\* and with int indices, whose negative values are refused as well.
ClientMoveIsValid(board, fromIndex, toIndex) ==
    LET prevCoin == Max({-1} \cup {i \in Cells : i < fromIndex /\ board[i] # 0})
    IN  /\ {fromIndex, toIndex} \subseteq Cells
        /\ board[fromIndex] # 0 /\ board[toIndex] = 0
        /\ ~ toIndex >= fromIndex
        /\ ~ (prevCoin >= 0 /\ toIndex <= prevCoin)

\* Faulty: the source keeps its coin.
ClearSourceForgotten(board, coin_index) == board

\* The two assignments of game_apply_move, apart because a reader that does
\* not hold the lobby's mutex can see the board between them.
ClearSource(board, coin_index) == [board EXCEPT ![coin_index] = 0]
PlaceCoin(board, coin_pos)     == [board EXCEPT ![coin_pos] = 1]

ApplyMove(board, coin_index, coin_pos) ==
    PlaceCoin(ClearSource(board, coin_index), coin_pos)

\* No coin is met after an empty cell.
IsFinished(board) ==
    ~ \E empty, coin \in Cells :
        /\ board[empty] = 0 /\ board[coin] = 1
        /\ empty < coin

(***************************************************************************)
(* game_init_board: a random board with NumCoins coins that is not         *)
(* finished, or, when all its attempts gave finished boards, the fallback. *)
(***************************************************************************)
RandomBoards == {board \in Boards : Cardinality(CoinsOf(board)) = NumCoins}

FallbackBoard ==
    [i \in Cells |-> IF \E k \in 1 .. NumCoins : i = 2 * k THEN 1 ELSE 0]

\* Faulty: a finished board is not drawn again.
InitBoardsUnchecked == RandomBoards

InitBoards ==
    {board \in RandomBoards : ~ IsFinished(board)} \cup {FallbackBoard}
=============================================================================
