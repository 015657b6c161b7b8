------------------------------- MODULE Match -------------------------------
(***************************************************************************)
(* What the server promises its players: matches of the coin game, one at  *)
(* a time, between the players 0 and 1.  Moves alternate, each one legal   *)
(* on the board that the previous one left; the player that leaves no      *)
(* legal move wins, and so does the player whose opponent is lost; once    *)
(* there is a winner it does not change until the next match.              *)
(*                                                                         *)
(* This is the abstract specification that module Lobby implements.  The   *)
(* board and the turn are promised only while a match is on, so outside of *)
(* it they have the values NoBoard and NoPlayer.                           *)
(***************************************************************************)
EXTENDS GameLogic

VARIABLES phase,        \* "open" | "playing" | "over"
          board,        \* the board while playing
          turn,         \* whose move it is while playing
          winner        \* the winner when over

matchVars == <<phase, board, turn, winner>>

Players  == {0, 1}
NoPlayer == -1
NoBoard  == <<>>

\* Faulty: no "% 2".
OpponentNoWrap(p) == p + 1
Opponent(p) == 1 - p

Init ==
    /\ phase = "open"
    /\ board = NoBoard
    /\ turn = NoPlayer
    /\ winner = NoPlayer

Start ==
    /\ phase = "open"
    /\ phase' = "playing"
    /\ board' \in InitBoards
    /\ turn' \in Players
    /\ UNCHANGED winner

EndWith(p) ==
    /\ phase' = "over"
    /\ winner' = p
    /\ board' = NoBoard
    /\ turn' = NoPlayer

Move(coin_index, coin_pos) ==
    /\ phase = "playing"
    /\ IsMoveValid(board, coin_index, coin_pos)
    /\ LET moved == ApplyMove(board, coin_index, coin_pos)
       IN  \/ /\ IsFinished(moved)
              /\ EndWith(turn)
           \/ /\ ~ IsFinished(moved)
              /\ board' = moved
              /\ turn' = Opponent(turn)
              /\ UNCHANGED <<phase, winner>>

Forfeit(p) ==
    /\ phase = "playing"
    /\ EndWith(Opponent(p))

Reset ==
    /\ phase = "over"
    /\ phase' = "open"
    /\ winner' = NoPlayer
    /\ UNCHANGED <<board, turn>>

Next ==
    \/ Start
    \/ \E coin_index, coin_pos \in MoveFields : Move(coin_index, coin_pos)
    \/ \E p \in Players : Forfeit(p)
    \/ Reset

Spec == Init /\ [][Next]_matchVars

\* The player whose turn it is eventually moves.
FairSpec ==
    Spec /\ WF_matchVars(\E coin_index, coin_pos \in MoveFields :
                            Move(coin_index, coin_pos))
-----------------------------------------------------------------------------
TypeOK ==
    /\ phase \in {"open", "playing", "over"}
    /\ board \in Boards \cup {NoBoard}
    /\ turn \in Players \cup {NoPlayer}
    /\ winner \in Players \cup {NoPlayer}

\* While a match is on the board has all its coins and a move left: the
\* match cannot stop for want of a legal move without a winner being named.
BoardPlayable ==
    phase = "playing" =>
        /\ Cardinality(CoinsOf(board)) = NumCoins
        /\ \E coin_index, coin_pos \in Cells :
              IsMoveValid(board, coin_index, coin_pos)

\* The client refuses exactly the moves the server would refuse, whatever
\* the two fields hold: ClientMoveIsValid agrees with game_is_move_valid.
ClientAgreesWithServer ==
    phase = "playing" =>
        \A from, to \in -1 .. NumCells :
            ClientMoveIsValid(board, from, to) <=> IsMoveValid(board, from, to)

\* The rule itself, said without a scan: a coin slides left over cells that
\* are all empty.
RuleIsSlideLeft ==
    phase = "playing" =>
        \A from, to \in MoveFields :
            IsMoveValid(board, from, to) <=>
                /\ from \in Cells /\ to < from /\ board[from] = 1
                /\ \A i \in to .. from - 1 : board[i] = 0

\* A match ends: every move shifts a coin to the left, so however the two
\* players move one of them runs out of moves.
MatchEnds == phase = "playing" ~> phase = "over"
=============================================================================
