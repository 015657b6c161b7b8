---------------------------- MODULE Match_proofs ----------------------------
(***************************************************************************)
(* The safety of the abstract match, for a board of any size.              *)
(***************************************************************************)
EXTENDS Match, GameLogic_proofs

\* While a match is on there is a board with all its coins on it and a coin
\* that can move, and a player whose turn it is.
MatchInv ==
    /\ TypeOK
    /\ phase = "playing" =>
          /\ board \in Boards
          /\ turn \in Players
          /\ Cardinality(CoinsOf(board)) = NumCoins
          /\ ~ IsFinished(board)

LEMMA MatchInit == Init => MatchInv
BY DEF Init, MatchInv, TypeOK

LEMMA MatchStep == MatchInv /\ [Next]_matchVars => MatchInv'
<1> SUFFICES ASSUME MatchInv, [Next]_matchVars
             PROVE  MatchInv'
  OBVIOUS
<1> USE DEF MatchInv, TypeOK
<1>1. CASE Start
  BY <1>1, InitBoardsPlayable DEF Start
<1>2. ASSUME NEW from \in MoveFields, NEW to \in MoveFields, Move(from, to)
      PROVE  MatchInv'
  <2> DEFINE moved == ApplyMove(board, from, to)
  <2>1. phase = "playing" /\ IsMoveValid(board, from, to)
    BY <1>2 DEF Move
  <2>2. moved \in Boards /\ Cardinality(CoinsOf(moved)) = NumCoins
    BY <2>1, ApplyMoveCoins
  <2>3. CASE IsFinished(moved) /\ EndWith(turn)
    BY <2>1, <2>3 DEF EndWith
  <2>4. CASE /\ ~ IsFinished(moved)
             /\ board' = moved
             /\ turn' = Opponent(turn)
             /\ UNCHANGED <<phase, winner>>
    BY <2>1, <2>2, <2>4 DEF Opponent, Players
  <2> QED
    BY <1>2, <2>3, <2>4 DEF Move
<1>3. ASSUME NEW p \in Players, Forfeit(p)
      PROVE  MatchInv'
  BY <1>3 DEF Forfeit, EndWith, Opponent, Players
<1>4. CASE Reset
  BY <1>4 DEF Reset
<1>5. CASE UNCHANGED matchVars
  BY <1>5 DEF matchVars
<1> QED
  BY <1>1, <1>2, <1>3, <1>4, <1>5 DEF Next

THEOREM MatchInvariant == Spec => []MatchInv
BY MatchInit, MatchStep, PTL DEF Spec

(***************************************************************************)
(* The types: what a match is played on is always a board, however it was  *)
(* started and whoever moved or forfeited.                                 *)
(***************************************************************************)
THEOREM MatchTyped == Spec => []TypeOK
<1>1. MatchInv => TypeOK
  BY DEF MatchInv
<1> QED
  BY <1>1, MatchInvariant, PTL

(***************************************************************************)
(* A match that is on has all its coins on the board and a legal move:     *)
(* game_is_finished ends it as soon as, and not before, no move is left.   *)
(***************************************************************************)
THEOREM MatchPlayable == Spec => []BoardPlayable
<1>1. MatchInv => BoardPlayable
  BY FinishedIffStuck DEF MatchInv, BoardPlayable
<1> QED
  BY <1>1, MatchInvariant, PTL

(***************************************************************************)
(* Every step of a match that does not end it is a move that leaves the    *)
(* coins less room, which is a natural number: no sequence of accepted     *)
(* moves is longer than the first board has room, and none leads back.     *)
(***************************************************************************)
THEOREM MatchMovesRunOut ==
    Spec => [][phase = "playing" /\ phase' = "playing"
                 => Room(board') < Room(board) /\ Room(board') \in Nat]_matchVars
<1>1. MatchInv /\ [Next]_matchVars =>
        [phase = "playing" /\ phase' = "playing"
           => Room(board') < Room(board) /\ Room(board') \in Nat]_matchVars
  <2> SUFFICES ASSUME MatchInv, Next, phase = "playing", phase' = "playing"
               PROVE  Room(board') < Room(board) /\ Room(board') \in Nat
    OBVIOUS
  <2>1. PICK from \in MoveFields, to \in MoveFields : Move(from, to)
    BY DEF Next, Start, Forfeit, EndWith, Reset
  <2>2. board' = ApplyMove(board, from, to) /\ IsMoveValid(board, from, to)
    BY <2>1 DEF Move, EndWith
  <2>3. Room(board') = Room(board) - (from - to)
    BY <2>2, MoveTakesRoom DEF MatchInv
  <2>4. from \in Int /\ to \in Int /\ to < from
    BY <2>2, BoardAssumption DEF IsMoveValid, Cells
  <2> QED
    BY <2>3, <2>4, RoomFinite
<1> QED
  BY <1>1, MatchInvariant, PTL DEF Spec

(***************************************************************************)
(* On every board of a match the client and the server judge every move    *)
(* alike.                                                                  *)
(***************************************************************************)
THEOREM MatchClientAgrees == Spec => []ClientAgreesWithServer
<1>1. MatchInv => ClientAgreesWithServer
  <2>1. -1 .. NumCells \subseteq Int
    OBVIOUS
  <2> QED
    BY <2>1, ClientRule DEF MatchInv, ClientAgreesWithServer
<1> QED
  BY <1>1, MatchInvariant, PTL

(***************************************************************************)
(* On every board of a match the rule is to slide left over empty cells.   *)
(***************************************************************************)
THEOREM MatchRule == Spec => []RuleIsSlideLeft
<1>1. MatchInv => RuleIsSlideLeft
  <2> SUFFICES ASSUME MatchInv, phase = "playing",
                      NEW from \in MoveFields, NEW to \in MoveFields
               PROVE  IsMoveValid(board, from, to) <=>
                        /\ from \in Cells /\ to < from /\ board[from] = 1
                        /\ \A i \in to .. from - 1 : board[i] = 0
    BY DEF RuleIsSlideLeft
  <2>1. from \in Int /\ to \in Int /\ board \in Boards
    BY BoardAssumption DEF MoveFields, MatchInv
  <2>2. from \in Cells /\ to < from => to \in Cells
    BY BoardAssumption DEF MoveFields, Cells
  <2> QED
    BY <2>1, <2>2, MoveRule
<1> QED
  BY <1>1, MatchInvariant, PTL
=============================================================================
